------------------------- MODULE MemorySharingProofs -------------------------
(***************************************************************************)
(* What follows from the invariant of MemorySharing: the tables of the VMs *)
(* at every instant, the hypervisor's own table, the contents of the pages *)
(* that change hands, and that the calls implement Ownership.              *)
(***************************************************************************)
EXTENDS MemorySharingInvariant

\* As of the completed calls the tables of all VMs fit together, page by
\* page: the locks that share_memory, spci_share_memory and configure hold
\* and their rollbacks are enough, whatever fails and however they overlap.
THEOREM PagesStayConsistent == Spec => []PagesConsistent
<1>1. IInv => PagesConsistent
  BY DEF IInv
<1> QED
  BY <1>1, InitInv, NextInv, PTL DEF Spec

\* The inductive invariant holds in every reachable state.
THEOREM Invariance == Spec => []IInv
BY InitInv, NextInv, PTL DEF Spec

\* Exclusive access means that no other VM has access, and no page is ever
\* accessible to more than two VMs, at every instant of every call.
THEOREM IsolationHolds == Spec => []Isolation
BY Invariance, IsolationFromInv, PTL

\* A page has at most one owner, and a borrower's entry agrees with the
\* owner's, at every instant outside the call that is changing both.
THEOREM OwnershipAgrees == Spec => []OwnerAgreesWithBorrower
BY Invariance, OwnerAgreesFromInv, PTL

\* No failed map, rollback or interleaving leaves a page without an owner.
THEOREM PagesAreNeverLost == Spec => []NoPageLost
BY Invariance, NoPageLostFromInv, PTL

(***************************************************************************)
(* The pages that the hypervisor has taken: its own and the mailbox        *)
(* buffers.                                                                *)
(***************************************************************************)

Taken(p) == InitOwner[p] = Hypervisor \/ \E v \in VM : p \in {send[v], recv[v]}

\* No VM has access to the hypervisor's own pages, and only the VM of the
\* mailbox to a buffer, which it shares with the hypervisor.
TakenPages ==
  \A p \in Page :
    /\ InitOwner[p] = Hypervisor => \A w \in VM : Unrelated(Settled(w, p))
    /\ \A v \in VM : p \in {send[v], recv[v]} =>
         /\ SharingBorrower(Settled(v, p))
         /\ \A w \in VM \ {v} : Unrelated(Settled(w, p))

\* A page that is taken takes part in no transfer and no configuration.
LEMMA TakenNotTransferred ==
  ASSUME TakenPages, NEW p \in Page, Taken(p), NEW from \in VM, NEW to \in VM, from # to,
         NEW F2, NEW T2
  PROVE  ~Lawful(Settled(from, p), Settled(to, p), F2, T2)
BY DEF TakenPages, Taken, Lawful, ExclusiveOwner, SharingBorrower, Unrelated

LEMMA TakenNotOwned ==
  ASSUME TakenPages, NEW p \in Page, Taken(p), NEW v \in VM
  PROVE  ~ExclusiveOwner(Settled(v, p))
BY DEF TakenPages, Taken, ExclusiveOwner, SharingBorrower, Unrelated

\* Nobody else has anything to do with a page that one VM owns exclusively.
LEMMA OwnedAlone ==
  ASSUME IInv, NEW p \in Page, NEW v \in VM, ExclusiveOwner(Settled(v, p))
  PROVE  \A w \in VM \ {v} : Unrelated(Settled(w, p))
BY SettledFit DEF ExclusiveOwner, SharingOwner, Borrower, SharingBorrower, Lender, Unrelated

LEMMA TakenInit == Init => TakenPages
<1> SUFFICES ASSUME Init PROVE TakenPages
  OBVIOUS
<1>1. \A v \in VM : send[v] = NoPage /\ recv[v] = NoPage
  BY DEF Init
<1>2. \A w \in VM, p \in Page : InitOwner[p] = Hypervisor => Settled(w, p) = AbsentPte
  BY MemoryAssumption DEF Init, Settled
<1> QED
  BY <1>1, <1>2, MemoryAssumption DEF TakenPages, Unrelated, AbsentPte

LEMMA TakenStep ==
  ASSUME IInv, TakenPages, [Next]_vars
  PROVE  TakenPages'
<1>1. CASE Quiet
  BY <1>1 DEF Quiet, TakenPages, SharingBorrower, Unrelated, Bits
<1>2. ASSUME NEW c \in CPU, Grant(c) PROVE TakenPages'
  <2>1. TypeOK'
    BY NextInv DEF IInv
  <2>2. PICK x : x = xfer[c] /\ Transfers(x)
    BY <1>2, <2>1, GrantInv
  <2>3. x.from \in VM /\ x.to \in VM /\ x.from # x.to
    BY <2>2 DEF Transfers, Xfer
  <2>4. ASSUME NEW p \in Page, Taken(p) PROVE \A w \in VM : Settled(w, p)' = Settled(w, p)
    <3>1. p \notin x.region
      BY <2>2, <2>3, <2>4, TakenNotTransferred DEF Transfers
    <3> QED
      BY <2>2, <3>1 DEF Transfers
  <2>5. UNCHANGED <<send, recv>>
    BY <2>2 DEF Transfers
  <2> QED
    BY <2>4, <2>5 DEF TakenPages, Taken
<1>3. ASSUME NEW c \in CPU, Stage1Recv(c) PROVE TakenPages'
  <2>1. TypeOK'
    BY NextInv DEF IInv
  <2>2. PICK x : x = conf[c] /\ Configures(x)
    BY <1>3, <2>1, Stage1RecvInv
  <2>3. /\ x.vm \in VM /\ x.send \in Page /\ x.recv \in Page
        /\ \A p \in {x.send, x.recv} : /\ ExclusiveOwner(Settled(x.vm, p))
                                       /\ SharingBorrower(Settled(x.vm, p)')
        /\ \A w \in VM, p \in Page :
             ~(w = x.vm /\ p \in {x.send, x.recv}) => Settled(w, p)' = Settled(w, p)
    BY <2>2 DEF Configures, Conf
  <2>4. ASSUME NEW p \in Page, p \in {x.send, x.recv}
        PROVE  ~Taken(p) /\ \A w \in VM \ {x.vm} : Unrelated(Settled(w, p)')
    BY <2>3, <2>4, TakenNotOwned, OwnedAlone
  <2>5. ASSUME NEW p \in Page, p \notin {x.send, x.recv}
        PROVE  \A w \in VM : Settled(w, p)' = Settled(w, p)
    BY <2>3, <2>5
  <2>6. \A w \in VM, p \in Page : p \in {send'[w], recv'[w]} =>
          \/ p \in {send[w], recv[w]}
          \/ w = x.vm /\ p \in {x.send, x.recv}
    BY <2>2 DEF Configures
  <2>7. ASSUME NEW p \in Page
        PROVE  /\ InitOwner[p] = Hypervisor => \A w \in VM : Unrelated(Settled(w, p)')
               /\ \A v \in VM : p \in {send'[v], recv'[v]} =>
                    /\ SharingBorrower(Settled(v, p)')
                    /\ \A w \in VM \ {v} : Unrelated(Settled(w, p)')
    <3>1. CASE p \in {x.send, x.recv}
      BY <3>1, <2>3, <2>4, <2>6 DEF Taken
    <3>2. CASE p \notin {x.send, x.recv}
      BY <3>2, <2>5, <2>6 DEF TakenPages
    <3> QED
      BY <3>1, <3>2
  <2> QED
    BY <2>7, Zenon DEF TakenPages
<1> QED
  BY <1>1, <1>2, <1>3, NextInv

\* At every instant, not only as of the completed calls.
LEMMA TakenAccess ==
  ASSUME IInv, TakenPages, NEW p \in Page
  PROVE  /\ InitOwner[p] = Hypervisor => Accessible(p) = {}
         /\ \A v \in VM : p \in {send[v], recv[v]} => Accessible(p) = {v}
<1>1. \A w \in VM : Valid(w, p) => "VALID" \in Settled(w, p)
  BY NoMoreThanSettled
<1>2. InitOwner[p] = Hypervisor => Accessible(p) = {}
  BY <1>1 DEF TakenPages, Accessible, Unrelated
<1>3. ASSUME NEW v \in VM, p \in {send[v], recv[v]} PROVE Accessible(p) = {v}
  <2>1. Taken(p)
    BY <1>3 DEF Taken
  <2>2. pte[v][p] = Settled(v, p)
    <3>1. ~ExclusiveOwner(Settled(v, p)) /\ "OWNED" \notin Settled(v, p)
      BY <1>3, <2>1, TakenNotOwned DEF TakenPages, SharingBorrower
    <3>2. \A w \in VM : "OWNED" \notin Settled(w, p)
      BY <1>3, <3>1 DEF TakenPages, Unrelated
    <3> QED
      BY <3>1, <3>2, EntryUnderWay DEF UnderWay, Lawful
  <2> QED
    BY <1>1, <1>3, <2>2 DEF TakenPages, Accessible, Valid, Unrelated, SharingBorrower
<1> QED
  BY <1>2, <1>3

(***************************************************************************)
(* The hypervisor's own table.                                             *)
(***************************************************************************)

\* The step of CPU c that holds the lock of the stage-1 table, and the pages
\* that it has mapped there.
InStage1(c) == xfer[c].pc \in {"zero", "unmap"} \/ conf[c].pc = "recv1"

WorksOn(c, p) ==
  \/ xfer[c].pc \in {"zero", "unmap"} /\ p \in xfer[c].region
  \/ conf[c].pc = "recv1" /\ p = conf[c].send

Stage1Inv ==
  /\ \A c \in CPU : s1lock = c <=> InStage1(c)
  /\ \A c \in CPU : conf[c].pc = "recv1" => hyp[conf[c].send] = "ro"
  /\ \A v \in VM : send[v] # NoPage => hyp[send[v]] = "ro" /\ hyp[recv[v]] = "rw"
  /\ \A p \in Page :
       /\ InitOwner[p] = Hypervisor => hyp[p] = "rw"
       /\ hyp[p] # "absent" => Taken(p) \/ \E c \in CPU : s1lock = c /\ WorksOn(c, p)

LEMMA Stage1Init == Init => Stage1Inv
BY MemoryAssumption DEF Init, Stage1Inv, InStage1, WorksOn, Taken, NoXfer, NoConf

\* The pages that a call works on are not taken.
LEMMA TransferredNotTaken ==
  ASSUME IInv, TakenPages, NEW c \in CPU, xfer[c].pc # "idle", NEW p \in xfer[c].region
  PROVE  p \in Page /\ ~Taken(p)
<1> DEFINE from == xfer[c].from
           to == xfer[c].to
<1>1. Transferring(c) /\ TransferInv(c) /\ c # NoCPU
  BY ActiveXfer, MemoryAssumption, Zenon DEF IInv, CallInv, Transferring
<1>2. /\ from \in VM /\ to \in VM /\ from # to /\ lock[from] = c /\ lock[to] = c
      /\ conf[c] = NoConf /\ p \in Page
  BY <1>1, MemoryAssumption DEF TransferInv, Transferring, Xfer
<1>3. Settled(from, p) = mode_to_stage2_attrs(xfer[c].origMode)
  BY <1>1, <1>2, Zenon DEF Settled, Sending
<1>4. Settled(to, p) = pte[to][p]
  BY <1>1, <1>2, SMTT(60) DEF Settled, Sending, Configuring, NoConf
<1>5. Lawful(Settled(from, p), Settled(to, p), mode_to_stage2_attrs(xfer[c].fromMode),
             mode_to_stage2_attrs(xfer[c].toMode))
  BY <1>1, <1>3, <1>4 DEF TransferInv
<1> HIDE DEF from, to
<1> QED
  BY <1>2, <1>5, TakenNotTransferred

LEMMA ConfiguredNotTaken ==
  ASSUME IInv, TakenPages, NEW c \in CPU, conf[c].pc # "idle",
         NEW p \in {conf[c].send, conf[c].recv}
  PROVE  p \in Page /\ ~Taken(p)
<1> DEFINE v == conf[c].vm
<1>1. /\ ConfigurationInv(c) /\ ConfiguringVm(c) /\ v \in VM /\ lock[v] = c /\ c # NoCPU
      /\ conf[c].send \in Page /\ conf[c].recv \in Page /\ xfer[c] = NoXfer
  BY Configured, MemoryAssumption, SMTT(60)
<1>2. Settled(v, p) = mode_to_stage2_attrs(IF p = conf[c].send THEN conf[c].origSend
                                                               ELSE conf[c].origRecv)
  BY <1>1, SMTT(60) DEF Settled, Sending, Configuring, NoXfer
<1>3. ExclusiveOwner(Settled(v, p))
  BY <1>1, <1>2, ExclusiveModes DEF ConfigurationInv
<1> HIDE DEF v
<1> QED
  BY <1>1, <1>3, TakenNotOwned

\* A step that does not touch the hypervisor's table, its lock or the work
\* of the CPU that holds it.
LEMMA Stage1Frame ==
  ASSUME Stage1Inv, UNCHANGED <<hyp, s1lock, send, recv>>,
         \A d \in CPU : InStage1(d)' <=> InStage1(d),
         \A d \in CPU, p \in Page : WorksOn(d, p) => WorksOn(d, p)',
         \A d \in CPU : conf'[d].pc = "recv1" => conf[d].pc = "recv1" /\ conf'[d].send = conf[d].send
  PROVE  Stage1Inv'
BY DEF Stage1Inv, Taken

\* The calls start without the lock, and so do the steps that end or go on
\* outside of it.
LEMMA OutsideStage1 ==
  ASSUME Stage1Inv, NEW c \in CPU, UNCHANGED <<hyp, s1lock, send, recv>>,
         ~InStage1(c), ~InStage1(c)',
         \A d \in CPU \ {c} : xfer'[d] = xfer[d] /\ conf'[d] = conf[d]
  PROVE  Stage1Inv'
<1>1. \A d \in CPU : InStage1(d)' <=> InStage1(d)
  BY DEF InStage1
<1>2. \A d \in CPU, p \in Page : WorksOn(d, p) => WorksOn(d, p)'
  BY DEF InStage1, WorksOn
<1>3. \A d \in CPU : conf'[d].pc = "recv1" => conf[d].pc = "recv1" /\ conf'[d].send = conf[d].send
  BY DEF InStage1
<1> QED
  BY <1>1, <1>2, <1>3, Stage1Frame

LEMMA Stage1Call ==
  ASSUME TypeOK, Stage1Inv, NEW c \in CPU, Call(c)
  PROVE  Stage1Inv'
<1>1. ASSUME NEW from \in VM, NEW to \in VM, NEW region \in Region, NEW kind \in Share,
             ShareFrom(c, from, to, region, kind)
      PROVE  Stage1Inv'
  <2>1. Idle(c) /\ UNCHANGED <<hyp, s1lock, send, recv, conf>>
    BY <1>1 DEF ShareFrom
  <2>2. xfer'[c].pc = "clear" /\ \A d \in CPU \ {c} : xfer'[d] = xfer[d]
    BY <1>1, Zenon DEF ShareFrom, TypeOK
  <2> QED
    BY <2>1, <2>2, OutsideStage1 DEF InStage1, Idle, NoXfer, NoConf
<1>2. ASSUME NEW from \in VM, NEW to \in VM, NEW region \in Region, NEW kind \in SpciShare,
             NEW access \in ToAttributes(kind), SpciFrom(c, from, to, region, kind, access)
      PROVE  Stage1Inv'
  <2>1. Idle(c) /\ UNCHANGED <<hyp, s1lock, send, recv, conf>>
    BY <1>2 DEF SpciFrom
  <2>2. PICK t \in Transitions(kind) : xfer' = [xfer EXCEPT ![c] =
          [pc |-> "grant", call |-> "spci", kind |-> kind, from |-> from, to |-> to,
           region |-> region, origMode |-> get_mode(from, region),
           fromMode |-> t.from \cup (get_mode(from, region) \ StateMask),
           toMode |-> t.to \cup access]]
    BY <1>2, Zenon DEF SpciFrom
  <2>3. xfer'[c].pc = "grant" /\ \A d \in CPU \ {c} : xfer'[d] = xfer[d]
    BY <2>2, Zenon DEF TypeOK
  <2> QED
    BY <2>1, <2>3, OutsideStage1, SMTT(60) DEF InStage1, Idle, NoXfer, NoConf
<1>3. ASSUME NEW v \in VM, NEW b \in Buffers, ConfigureSend(c, v, b[1], b[2])
      PROVE  Stage1Inv'
  <2>1. Idle(c) /\ UNCHANGED <<hyp, s1lock, send, recv, xfer>>
    BY <1>3 DEF ConfigureSend
  <2>2. conf'[c].pc = "recv2" /\ \A d \in CPU \ {c} : conf'[d] = conf[d]
    BY <1>3, ZenonT(180) DEF ConfigureSend, TypeOK
  <2> QED
    BY <2>1, <2>2, OutsideStage1, SMTT(60) DEF InStage1, Idle, NoXfer, NoConf
<1> QED
  BY <1>1, <1>2, <1>3 DEF Call

\* clear_memory takes the lock with nobody in it, and gives it back with
\* only the region to unmap.
LEMMA Stage1ClearMap ==
  ASSUME IInv, TakenPages, Stage1Inv, NEW c \in CPU, ClearMap(c)
  PROVE  Stage1Inv'
<1>1. \A p \in xfer[c].region : p \in Page /\ ~Taken(p)
  BY TransferredNotTaken DEF ClearMap
<1>2. Transferring(c) /\ conf[c] = NoConf
  BY ActiveXfer DEF ClearMap, Transferring, IInv, CallInv, TransferInv
<1>3. /\ \A d \in CPU \ {c} : xfer'[d] = xfer[d]
      /\ xfer'[c].pc = "zero" /\ xfer'[c].region = xfer[c].region
  BY <1>2 DEF ClearMap, Transferring, Xfer, IInv, TypeOK
<1>4. /\ s1lock = NoCPU /\ s1lock' = c /\ UNCHANGED <<send, recv, conf>>
      /\ hyp' = [p \in Page |-> IF p \in xfer[c].region THEN "rw" ELSE hyp[p]]
  BY SMTT(60) DEF ClearMap
<1>5. \A d \in CPU : ~InStage1(d)
  BY <1>4, MemoryAssumption DEF Stage1Inv
<1>6. \A d \in CPU : s1lock' = d <=> InStage1(d)'
  BY <1>3, <1>4, <1>5 DEF InStage1
<1>7. \A d \in CPU : conf'[d].pc # "recv1"
  BY <1>4, <1>5, ZenonT(180) DEF InStage1
<1>8. \A v \in VM : send[v] # NoPage => hyp'[send[v]] = "ro" /\ hyp'[recv[v]] = "rw"
  <2> SUFFICES ASSUME NEW v \in VM, send[v] # NoPage
               PROVE  hyp'[send[v]] = "ro" /\ hyp'[recv[v]] = "rw"
    OBVIOUS
  <2>1. send[v] \in Page /\ recv[v] \in Page
    BY DEF IInv, TypeOK, BuffersTogether
  <2>2. send[v] \notin xfer[c].region /\ recv[v] \notin xfer[c].region
    BY <1>1 DEF Taken
  <2> QED
    BY <1>4, <2>1, <2>2 DEF Stage1Inv
<1>9. ASSUME NEW p \in Page
      PROVE  /\ InitOwner[p] = Hypervisor => hyp'[p] = "rw"
             /\ hyp'[p] # "absent" => Taken(p)' \/ WorksOn(c, p)'
  <2>1. CASE p \in xfer[c].region
    BY <2>1, <1>1, <1>3, <1>4, Zenon DEF Taken, WorksOn
  <2>2. CASE p \notin xfer[c].region
    BY <2>2, <1>4, <1>5, MemoryAssumption, ZenonT(180) DEF Stage1Inv, Taken
  <2> QED
    BY <2>1, <2>2
<1> QED
  BY <1>4, <1>6, <1>7, <1>8, <1>9 DEF Stage1Inv

LEMMA Stage1ClearUnmap ==
  ASSUME IInv, TakenPages, Stage1Inv, NEW c \in CPU, ClearUnmap(c)
  PROVE  Stage1Inv'
<1>1. \A p \in xfer[c].region : p \in Page /\ ~Taken(p)
  BY TransferredNotTaken, SMTT(60) DEF ClearUnmap
<1>2. Transferring(c) /\ conf[c] = NoConf
  BY ActiveXfer, SMTT(60) DEF ClearUnmap, Transferring, IInv, CallInv, TransferInv
<1>3. /\ \A d \in CPU \ {c} : xfer'[d] = xfer[d]
      /\ xfer'[c].pc = "grant"
  BY <1>2 DEF ClearUnmap, Transferring, Xfer, IInv, TypeOK
<1>4. /\ s1lock = c /\ s1lock' = NoCPU /\ UNCHANGED <<send, recv, conf>>
      /\ hyp' = [p \in Page |-> IF p \in xfer[c].region THEN "absent" ELSE hyp[p]]
  BY DEF ClearUnmap, Stage1Inv, InStage1
<1>5. \A d \in CPU \ {c} : ~InStage1(d)
  BY <1>4, Zenon DEF Stage1Inv
<1>6. \A d \in CPU : s1lock' # d /\ ~InStage1(d)'
  BY <1>2, <1>3, <1>4, <1>5, MemoryAssumption DEF InStage1, NoConf
<1>7. \A d \in CPU : conf'[d].pc # "recv1"
  BY <1>6, ZenonT(180) DEF InStage1
<1>8. \A v \in VM : send[v] # NoPage => hyp'[send[v]] = "ro" /\ hyp'[recv[v]] = "rw"
  <2> SUFFICES ASSUME NEW v \in VM, send[v] # NoPage
               PROVE  hyp'[send[v]] = "ro" /\ hyp'[recv[v]] = "rw"
    OBVIOUS
  <2>1. send[v] \in Page /\ recv[v] \in Page
    BY DEF IInv, TypeOK, BuffersTogether
  <2>2. send[v] \notin xfer[c].region /\ recv[v] \notin xfer[c].region
    BY <1>1 DEF Taken
  <2> QED
    BY <1>4, <2>1, <2>2, SMTT(60) DEF Stage1Inv
<1>9. ASSUME NEW p \in Page
      PROVE  /\ InitOwner[p] = Hypervisor => hyp'[p] = "rw"
             /\ hyp'[p] # "absent" => Taken(p)'
  <2>1. CASE p \in xfer[c].region
    BY <2>1, <1>1, <1>4, Zenon DEF Taken
  <2>2. CASE p \notin xfer[c].region
    <3>1. ~WorksOn(c, p)
      BY <2>2, <1>2, SMTT(60) DEF WorksOn, NoConf
    <3> QED
      BY <2>2, <3>1, <1>4, MemoryAssumption, SMTT(60) DEF Stage1Inv, Taken
  <2> QED
    BY <2>1, <2>2
<1> QED
  BY <1>4, <1>6, <1>7, <1>8, <1>9 DEF Stage1Inv

\* configure_stage1 maps the send page under the lock; it is the only page
\* mapped when the lock is given back, with the buffers or without them.
LEMMA Stage1SendStep ==
  ASSUME IInv, TakenPages, Stage1Inv, NEW c \in CPU, Stage1Send(c)
  PROVE  Stage1Inv'
<1>1. PICK s \in Page : s = conf[c].send
  BY Configured DEF Stage1Send
<1>2. ~Taken(s)
  BY <1>1, ConfiguredNotTaken DEF Stage1Send
<1>3. ConfiguringVm(c) /\ xfer[c] = NoXfer
  BY Configured DEF Stage1Send
<1>4. /\ \A d \in CPU \ {c} : conf'[d] = conf[d]
      /\ conf'[c].pc = "recv1" /\ conf'[c].send = s
  BY <1>1, <1>3 DEF Stage1Send, ConfiguringVm, Conf, IInv, TypeOK
<1>5. /\ s1lock = NoCPU /\ s1lock' = c /\ UNCHANGED <<send, recv, xfer>>
      /\ \A p \in Page : hyp'[p] = IF p = s THEN "ro" ELSE hyp[p]
  BY <1>1, ZenonT(180) DEF Stage1Send, IInv, TypeOK
<1>6. \A d \in CPU : ~InStage1(d)
  BY <1>5, MemoryAssumption DEF Stage1Inv
<1>7. \A d \in CPU : s1lock' = d <=> InStage1(d)'
  BY <1>4, <1>5, <1>6 DEF InStage1
<1>8. \A d \in CPU : conf'[d].pc = "recv1" => hyp'[conf'[d].send] = "ro"
  BY <1>4, <1>5, <1>6, Zenon DEF InStage1
<1>9. \A v \in VM : send[v] # NoPage => hyp'[send[v]] = "ro" /\ hyp'[recv[v]] = "rw"
  <2> SUFFICES ASSUME NEW v \in VM, send[v] # NoPage
               PROVE  hyp'[send[v]] = "ro" /\ hyp'[recv[v]] = "rw"
    OBVIOUS
  <2>1. send[v] \in Page /\ recv[v] \in Page
    BY DEF IInv, TypeOK, BuffersTogether
  <2>2. send[v] # s /\ recv[v] # s
    BY <1>2, Zenon DEF Taken
  <2> QED
    BY <1>5, <2>1, <2>2 DEF Stage1Inv
<1>10. ASSUME NEW p \in Page
       PROVE  /\ InitOwner[p] = Hypervisor => hyp'[p] = "rw"
              /\ hyp'[p] # "absent" => Taken(p)' \/ WorksOn(c, p)'
  <2>1. CASE p = s
    BY <2>1, <1>2, <1>4, ZenonT(180) DEF Taken, WorksOn
  <2>2. CASE p # s
    BY <2>2, <1>5, MemoryAssumption, SMTT(60) DEF Stage1Inv, Taken
  <2> QED
    BY <2>1, <2>2
<1> QED
  BY <1>5, <1>7, <1>8, <1>9, <1>10 DEF Stage1Inv

LEMMA Stage1RecvStep ==
  ASSUME IInv, TypeOK', TakenPages, Stage1Inv, NEW c \in CPU, Stage1Recv(c)
  PROVE  Stage1Inv'
<1>1. PICK x : x = conf[c] /\ Configures(x)
  BY Stage1RecvInv, Zenon
<1>2. x.vm \in VM /\ x.send \in Page /\ x.recv \in Page /\ x.send # x.recv
  BY <1>1, Zenon DEF Configures, Conf
<1>3. ~Taken(x.send) /\ ~Taken(x.recv) /\ xfer[c] = NoXfer
  BY <1>1, ConfiguredNotTaken, Configured, Zenon DEF Stage1Recv
<1>4. /\ \A d \in CPU \ {c} : conf'[d] = conf[d]
      /\ conf'[c] = NoConf
  BY ZenonT(180) DEF Stage1Recv, IInv, TypeOK
<1>5. /\ s1lock = c /\ s1lock' = NoCPU /\ UNCHANGED xfer
      /\ hyp[x.send] = "ro"
      /\ \A p \in Page : hyp'[p] = IF p = x.recv THEN "rw" ELSE hyp[p]
  BY <1>1, <1>2, Zenon DEF Stage1Recv, IInv, TypeOK, Stage1Inv, InStage1
<1>6. \A d \in CPU \ {c} : ~InStage1(d)
  BY <1>5, ZenonT(180) DEF Stage1Inv
<1>7. \A d \in CPU : s1lock' # d /\ ~InStage1(d)'
  BY <1>3, <1>4, <1>5, <1>6, MemoryAssumption DEF InStage1, NoConf, NoXfer
<1>8. \A d \in CPU : conf'[d].pc # "recv1"
  BY <1>7, ZenonT(180) DEF InStage1
<1>9. /\ \A w \in VM : send'[w] = IF w = x.vm THEN x.send ELSE send[w]
      /\ \A w \in VM : recv'[w] = IF w = x.vm THEN x.recv ELSE recv[w]
      /\ send[x.vm] = NoPage /\ recv[x.vm] = NoPage
  BY <1>1 DEF Configures
<1>10. ASSUME NEW v \in VM, send'[v] # NoPage
       PROVE  hyp'[send'[v]] = "ro" /\ hyp'[recv'[v]] = "rw"
  <2>1. CASE v = x.vm
    BY <2>1, <1>2, <1>5, <1>9, ZenonT(180)
  <2>2. CASE v # x.vm
    <3>1. send'[v] = send[v] /\ recv'[v] = recv[v]
      BY <2>2, <1>9, SMTT(60)
    <3>2. send[v] \in Page /\ recv[v] \in Page
      BY <1>10, <3>1, SMTT(60) DEF IInv, TypeOK, BuffersTogether
    <3>3. send[v] # x.recv /\ recv[v] # x.recv
      BY <1>3 DEF Taken
    <3> QED
      BY <1>5, <1>10, <3>1, <3>2, <3>3 DEF Stage1Inv
  <2> QED
    BY <2>1, <2>2
<1>11. \A p \in Page : Taken(p) => Taken(p)'
  BY <1>9, MemoryAssumption DEF Taken
<1>12. ASSUME NEW p \in Page
       PROVE  /\ InitOwner[p] = Hypervisor => hyp'[p] = "rw"
              /\ hyp'[p] # "absent" => Taken(p)'
  <2>1. InitOwner[p] = Hypervisor => hyp[p] = "rw"
    BY Zenon DEF Stage1Inv
  <2>2. p \in {x.send, x.recv} => Taken(p)'
    BY <1>2, <1>9, Zenon DEF Taken
  <2>3. WorksOn(c, p) => p = x.send
    BY <1>1, <1>3 DEF WorksOn, NoXfer
  <2>4. hyp[p] # "absent" => Taken(p) \/ WorksOn(c, p)
    BY <1>5, Zenon DEF Stage1Inv
  <2> QED
    BY <2>1, <2>2, <2>3, <2>4, <1>5, <1>11, Zenon
<1> QED
  BY <1>7, <1>8, <1>10, <1>12 DEF Stage1Inv

LEMMA Stage1RecvFailsStep ==
  ASSUME IInv, TakenPages, Stage1Inv, NEW c \in CPU, Stage1RecvFails(c)
  PROVE  Stage1Inv'
<1>1. PICK s \in Page : s = conf[c].send
  BY Configured, Zenon DEF Stage1RecvFails
<1>2. ~Taken(s) /\ xfer[c] = NoXfer
  BY <1>1, ConfiguredNotTaken, Configured, Zenon DEF Stage1RecvFails
<1>3. /\ \A d \in CPU \ {c} : conf'[d] = conf[d]
      /\ conf'[c] = NoConf
  BY Zenon DEF Stage1RecvFails, RestorePages, IInv, TypeOK
<1>4. /\ s1lock = c /\ s1lock' = NoCPU /\ UNCHANGED <<send, recv, xfer>>
      /\ \A p \in Page : hyp'[p] = IF p = s THEN "absent" ELSE hyp[p]
  BY <1>1, Zenon DEF Stage1RecvFails, IInv, TypeOK, Stage1Inv, InStage1
<1>5. \A d \in CPU \ {c} : ~InStage1(d)
  BY <1>4, Zenon DEF Stage1Inv
<1>6. \A d \in CPU : s1lock' # d /\ ~InStage1(d)'
  BY <1>2, <1>3, <1>4, <1>5, MemoryAssumption DEF InStage1, NoConf, NoXfer
<1>7. \A d \in CPU : conf'[d].pc # "recv1"
  BY <1>6, Zenon DEF InStage1
<1>8. \A v \in VM : send[v] # NoPage => hyp'[send[v]] = "ro" /\ hyp'[recv[v]] = "rw"
  <2> SUFFICES ASSUME NEW v \in VM, send[v] # NoPage
               PROVE  hyp'[send[v]] = "ro" /\ hyp'[recv[v]] = "rw"
    OBVIOUS
  <2>1. send[v] \in Page /\ recv[v] \in Page
    BY DEF IInv, TypeOK, BuffersTogether
  <2>2. send[v] # s /\ recv[v] # s
    BY <1>2 DEF Taken
  <2> QED
    BY <1>4, <2>1, <2>2, Zenon DEF Stage1Inv
<1>9. ASSUME NEW p \in Page
      PROVE  /\ InitOwner[p] = Hypervisor => hyp'[p] = "rw"
             /\ hyp'[p] # "absent" => Taken(p)'
  <2>1. CASE p = s
    BY <2>1, <1>2, <1>4, ZenonT(180) DEF Taken
  <2>2. CASE p # s
    <3>1. ~WorksOn(c, p)
      BY <2>2, <1>1, <1>2 DEF WorksOn, NoXfer
    <3> QED
      BY <2>2, <3>1, <1>4, SMTT(60) DEF Stage1Inv, Taken
  <2> QED
    BY <2>1, <2>2
<1> QED
  BY <1>4, <1>6, <1>7, <1>8, <1>9, Zenon DEF Stage1Inv

LEMMA Stage1Step ==
  ASSUME IInv, TypeOK', TakenPages, Stage1Inv, NEW c \in CPU, Step(c)
  PROVE  Stage1Inv'
<1>0. TypeOK
  BY Zenon DEF IInv
<1>1. CASE ClearMapFails(c) \/ Grant(c) \/ GrantFails(c)
  <2>1. /\ xfer[c].pc \in {"clear", "grant"} /\ UNCHANGED <<hyp, s1lock, send, recv, conf>>
        /\ xfer' = [xfer EXCEPT ![c] = NoXfer]
    BY <1>1, Zenon DEF ClearMapFails, Grant, GrantFails, RestoreSender
  <2>2. Transferring(c) /\ conf[c] = NoConf
    BY <1>0, <2>1, ActiveXfer, Zenon DEF Transferring, IInv, CallInv, TransferInv
  <2>3. xfer'[c] = NoXfer /\ \A d \in CPU \ {c} : xfer'[d] = xfer[d]
    BY <1>0, <2>1, Zenon DEF TypeOK
  <2> QED
    BY <2>1, <2>2, <2>3, OutsideStage1 DEF InStage1, NoXfer, NoConf
<1>2. CASE ClearZero(c)
  <2>1. /\ xfer[c].pc = "zero" /\ UNCHANGED <<hyp, s1lock, send, recv, conf>>
        /\ xfer[c] \in Xfer
    BY <1>0, <1>2, ActiveXfer DEF ClearZero
  <2>2. /\ \A d \in CPU \ {c} : xfer'[d] = xfer[d]
        /\ xfer'[c].pc = "unmap" /\ xfer'[c].region = xfer[c].region
    BY <1>0, <1>2, <2>1, Zenon DEF ClearZero, TypeOK, Xfer
  <2>3. \A d \in CPU : InStage1(d)' <=> InStage1(d)
    BY <2>1, <2>2, Zenon DEF InStage1
  <2>4. \A d \in CPU, p \in Page : WorksOn(d, p) => WorksOn(d, p)'
    BY <2>1, <2>2, Zenon DEF WorksOn
  <2> QED
    BY <2>1, <2>3, <2>4, Stage1Frame
<1>3. CASE ConfigureRecv(c) \/ ConfigureRecvFails(c) \/ Stage1SendFails(c)
  <2>1. conf[c].pc \in {"recv2", "send1"} /\ UNCHANGED <<hyp, s1lock, send, recv, xfer>>
    BY <1>3, Zenon DEF ConfigureRecv, ConfigureRecvFails, Stage1SendFails
  <2>2. ConfiguringVm(c) /\ xfer[c] = NoXfer
    BY <2>1, Configured
  <2>3. conf'[c].pc \in {"send1", "idle"} /\ \A d \in CPU \ {c} : conf'[d] = conf[d]
    <3>1. CASE ConfigureRecv(c)
      BY <3>1, <1>0, <2>2, ZenonT(180) DEF ConfigureRecv, ConfiguringVm, Conf, TypeOK
    <3>2. CASE ConfigureRecvFails(c) \/ Stage1SendFails(c)
      <4>1. conf' = [conf EXCEPT ![c] = NoConf]
        BY <3>2, Zenon DEF ConfigureRecvFails, Stage1SendFails, RestorePages
      <4> QED
        BY <4>1, <1>0 DEF TypeOK, NoConf
    <3> QED
      BY <1>3, <3>1, <3>2
  <2> QED
    BY <2>1, <2>2, <2>3, OutsideStage1 DEF InStage1, NoXfer
<1> QED
  BY <1>1, <1>2, <1>3, Stage1ClearMap, Stage1ClearUnmap, Stage1SendStep, Stage1RecvStep,
     Stage1RecvFailsStep, Zenon DEF Step

LEMMA Stage1Next ==
  ASSUME IInv, TakenPages, Stage1Inv, [Next]_vars
  PROVE  Stage1Inv'
<1>1. TypeOK /\ TypeOK'
  BY NextInv DEF IInv
<1>2. CASE UNCHANGED vars
  BY <1>2, Stage1Frame, Zenon DEF vars, InStage1, WorksOn
<1>3. ASSUME NEW v \in VM, NEW p \in Tracked, VmWrite(v, p) PROVE Stage1Inv'
  BY <1>3, Stage1Frame, Zenon DEF VmWrite, InStage1, WorksOn
<1> QED
  BY <1>1, <1>2, <1>3, Stage1Call, Stage1Step DEF Next

\* The inductive invariant, the pages taken by the hypervisor and its own
\* table, together in every reachable state.
THEOREM HypervisorInvariance == Spec => [](IInv /\ TakenPages /\ Stage1Inv)
BY InitInv, TakenInit, Stage1Init, NextInv, TakenStep, Stage1Next, PTL DEF Spec

\* The hypervisor can read the send buffer and write the receive buffer of
\* every VM that has configured them, for as long as it runs, and no other VM
\* has access to them: no clear_memory, transfer or configuration that fails
\* takes the mapping away.
THEOREM MailboxesStayMapped == Spec => []MailboxStaysMapped
<1>1. IInv /\ TakenPages /\ Stage1Inv => MailboxStaysMapped
  <2> SUFFICES ASSUME IInv, TakenPages, Stage1Inv, NEW v \in VM, is_configured(v)
               PROVE  /\ hyp[send[v]] = "ro" /\ hyp[recv[v]] = "rw"
                      /\ Accessible(send[v]) = {v} /\ Accessible(recv[v]) = {v}
    BY DEF MailboxStaysMapped
  <2>1. send[v] \in Page /\ recv[v] \in Page
    BY DEF IInv, TypeOK, is_configured
  <2>2. hyp[send[v]] = "ro" /\ hyp[recv[v]] = "rw"
    BY Zenon DEF is_configured, Stage1Inv
  <2> QED
    BY <2>1, <2>2, TakenAccess, Zenon
<1> QED
  BY <1>1, HypervisorInvariance, PTL

\* The hypervisor's table keeps no page of a VM behind when a call ends,
\* whichever of its maps has failed, and no VM ever has access to the
\* hypervisor's own memory (clear_memory, configure_stage1).
THEOREM NoMappingStaysBehind == Spec => []NoStaleHypervisorMapping
<1>1. IInv /\ TakenPages /\ Stage1Inv => NoStaleHypervisorMapping
  <2> SUFFICES ASSUME IInv, TakenPages, Stage1Inv, NEW p \in Page
               PROVE  /\ hyp[p] # "absent" =>
                           \/ InitOwner[p] = Hypervisor
                           \/ \E v \in VM : p \in {send[v], recv[v]}
                           \/ \E c \in CPU :
                                /\ s1lock = c
                                /\ \E v \in VM : Sending(c, v, p) \/ Configuring(c, v, p)
                      /\ InitOwner[p] = Hypervisor => hyp[p] = "rw" /\ Accessible(p) = {}
    BY Zenon DEF NoStaleHypervisorMapping
  <2>1. ASSUME NEW c \in CPU, WorksOn(c, p)
        PROVE  \E v \in VM : Sending(c, v, p) \/ Configuring(c, v, p)
    <3>1. CASE xfer[c].pc \in {"zero", "unmap"} /\ p \in xfer[c].region
      <4>1. xfer[c].from \in VM
        BY <3>1, ActiveXfer DEF IInv, Xfer
      <4> QED
        BY <3>1, <4>1, Zenon DEF Sending
    <3>2. CASE conf[c].pc = "recv1" /\ p = conf[c].send
      <4>1. conf[c].vm \in VM
        BY <3>2, Configured, Zenon
      <4> QED
        BY <3>2, <4>1, Zenon DEF Configuring
    <3> QED
      BY <2>1, <3>1, <3>2, Zenon DEF WorksOn
  <2> QED
    BY <2>1, TakenAccess, Zenon DEF Stage1Inv, Taken
<1> QED
  BY <1>1, HypervisorInvariance, PTL

(***************************************************************************)
(* What clear_memory is for.                                               *)
(***************************************************************************)

\* A gift or a loan takes the sender's access away before the region is
\* cleared, and from then on only the recipient can write to it.
Cleared(c) ==
  LET x == xfer[c] IN
  Transferring(c) /\ x.call = "share" /\ x.kind # "Share" =>
    /\ "INVALID" \in x.fromMode
    /\ x.pc \in {"unmap", "grant"} => \A p \in x.region : content[p] \in {Zero, x.to}

ClearInv == \A c \in CPU : Cleared(c)

LEMMA OnlyRecipientHasAccess ==
  ASSUME IInv, NEW c \in CPU, Transferring(c), "INVALID" \in xfer[c].fromMode,
         NEW p \in xfer[c].region, NEW v \in VM, Valid(v, p)
  PROVE  v = xfer[c].to
<1> DEFINE from == xfer[c].from
           to == xfer[c].to
<1>1. TransferInv(c) /\ c # NoCPU /\ xfer[c].pc # "idle"
  BY MemoryAssumption, Zenon DEF IInv, CallInv, Transferring, Xfer
<1>2. /\ from \in VM /\ to \in VM /\ from # to /\ lock[from] = c /\ lock[to] = c
      /\ conf[c] = NoConf /\ p \in Page
  BY <1>1, MemoryAssumption, Zenon DEF TransferInv, Transferring, Xfer
<1>3. Settled(from, p) = mode_to_stage2_attrs(xfer[c].origMode)
  BY <1>1, <1>2, ZenonT(180) DEF Settled, Sending
<1>4. Settled(to, p) = pte[to][p]
  BY <1>1, <1>2, SMTT(60) DEF Settled, Sending, Configuring, NoConf
<1>5. Lawful(Settled(from, p), Settled(to, p), mode_to_stage2_attrs(xfer[c].fromMode),
             mode_to_stage2_attrs(xfer[c].toMode))
  BY <1>1, <1>3, <1>4, Zenon DEF TransferInv
<1>6. v # from
  <2>1. pte[from][p] = mode_to_stage2_attrs(xfer[c].fromMode)
    BY <1>1, Zenon DEF TransferInv
  <2> QED
    BY <2>1, AttrsOfMode, Zenon DEF Valid
<1>7. "VALID" \in Settled(v, p)
  BY <1>2, NoMoreThanSettled, Zenon
<1> HIDE DEF from, to
<1>8. v \in {from, to}
  BY <1>2, <1>5, <1>7, SettledFit, Zenon DEF Lawful, ExclusiveOwner, SharingOwner, Borrower,
     SharingBorrower, Lender, Unrelated
<1> QED
  BY <1>6, <1>8, Zenon DEF to

\* A step of c that leaves the contents alone, or clears some of them.
LEMMA OthersStayCleared ==
  ASSUME ClearInv, NEW c \in CPU, Cleared(c)',
         \A d \in CPU \ {c} : xfer'[d] = xfer[d],
         \A p \in Page : content'[p] \in {content[p], Zero}
  PROVE  ClearInv'
<1>1. ASSUME NEW d \in CPU \ {c} PROVE Cleared(d)'
  <2>1. Cleared(d)
    BY Zenon DEF ClearInv
  <2>2. Transferring(d) => xfer[d].region \subseteq Page
    BY MemoryAssumption, Zenon DEF Transferring, Xfer
  <2> QED
    BY <2>1, <2>2 DEF Cleared, Transferring
<1> QED
  BY <1>1, ZenonT(180) DEF ClearInv

LEMMA ClearCall ==
  ASSUME TypeOK, ClearInv, NEW c \in CPU, Call(c)
  PROVE  ClearInv'
<1>1. ASSUME NEW from \in VM, NEW to \in VM, NEW region \in Region, NEW kind \in Share,
             ShareFrom(c, from, to, region, kind)
      PROVE  ClearInv'
  <2>1. /\ xfer'[c].pc = "clear" /\ xfer'[c].kind = kind
        /\ xfer'[c].fromMode = ShareFromMode(kind)
        /\ \A d \in CPU \ {c} : xfer'[d] = xfer[d]
        /\ UNCHANGED content
    BY <1>1 DEF ShareFrom, TypeOK
  <2>2. kind # "Share" => "INVALID" \in ShareFromMode(kind)
    BY Zenon DEF ShareFromMode, Share
  <2>3. Cleared(c)'
    BY <2>1, <2>2, Zenon DEF Cleared
  <2> QED
    BY <2>1, <2>3, OthersStayCleared, ZenonT(180)
<1>2. ASSUME NEW from \in VM, NEW to \in VM, NEW region \in Region, NEW kind \in SpciShare,
             NEW access \in ToAttributes(kind), SpciFrom(c, from, to, region, kind, access)
      PROVE  ClearInv'
  <2>1. PICK t \in Transitions(kind) : xfer' = [xfer EXCEPT ![c] =
          [pc |-> "grant", call |-> "spci", kind |-> kind, from |-> from, to |-> to,
           region |-> region, origMode |-> get_mode(from, region),
           fromMode |-> t.from \cup (get_mode(from, region) \ StateMask),
           toMode |-> t.to \cup access]]
    BY <1>2, Zenon DEF SpciFrom
  <2>2. xfer'[c].call = "spci" /\ \A d \in CPU \ {c} : xfer'[d] = xfer[d]
    BY <2>1, Zenon DEF TypeOK
  <2>3. UNCHANGED content
    BY <1>2, ZenonT(180) DEF SpciFrom
  <2> QED
    BY <2>2, <2>3, OthersStayCleared, Zenon DEF Cleared
<1>3. ASSUME NEW v \in VM, NEW b \in Buffers, ConfigureSend(c, v, b[1], b[2])
      PROVE  ClearInv'
  BY <1>3 DEF ConfigureSend, ClearInv, Cleared, Transferring
<1> QED
  BY <1>1, <1>2, <1>3 DEF Call

LEMMA ClearStep ==
  ASSUME TypeOK, ClearInv, NEW c \in CPU, Step(c)
  PROVE  ClearInv'
<1>1. CASE ClearMap(c) \/ ClearZero(c) \/ ClearUnmap(c)
  <2>1. xfer[c] \in Xfer /\ xfer[c].region \subseteq Page
    BY <1>1, ActiveXfer, MemoryAssumption DEF ClearMap, ClearZero, ClearUnmap, Xfer
  <2>2. PICK q : xfer' = [xfer EXCEPT ![c].pc = q]
    BY <1>1 DEF ClearMap, ClearZero, ClearUnmap
  <2>3. /\ \A d \in CPU \ {c} : xfer'[d] = xfer[d]
        /\ xfer'[c].pc = q
        /\ xfer'[c].call = xfer[c].call /\ xfer'[c].kind = xfer[c].kind
        /\ xfer'[c].fromMode = xfer[c].fromMode /\ xfer'[c].to = xfer[c].to
        /\ xfer'[c].region = xfer[c].region
    BY <2>1, <2>2, SMTT(60) DEF TypeOK, Xfer
  <2>4. \A p \in Page : content'[p] \in {content[p], Zero}
    BY <1>1 DEF ClearMap, ClearZero, ClearUnmap
  <2>5. Cleared(c)'
    <3>1. Cleared(c) /\ Transferring(c)
      BY <2>1, Zenon DEF ClearInv, Transferring
    <3>2. CASE ClearMap(c)
      <4>1. q = "zero"
        BY <3>2, <2>1, <2>3, ZenonT(180) DEF ClearMap, TypeOK, Xfer
      <4> QED
        BY <4>1, <2>3, <3>1, Zenon DEF Cleared
    <3>3. CASE ClearZero(c)
      <4>1. \A p \in xfer[c].region : content'[p] = Zero
        BY <3>3, <2>1, ZenonT(180) DEF ClearZero
      <4> QED
        BY <4>1, <2>3, <3>1 DEF Cleared
    <3>4. CASE ClearUnmap(c)
      <4>1. xfer[c].pc = "unmap" /\ UNCHANGED content
        BY <3>4 DEF ClearUnmap
      <4> QED
        BY <4>1, <2>3, <3>1 DEF Cleared
    <3> QED
      BY <1>1, <3>2, <3>3, <3>4, Zenon
  <2> QED
    BY <2>3, <2>4, <2>5, OthersStayCleared, Zenon
<1>2. CASE ClearMapFails(c) \/ Grant(c) \/ GrantFails(c)
  <2>1. xfer' = [xfer EXCEPT ![c] = NoXfer] /\ UNCHANGED content
    BY <1>2, Zenon DEF ClearMapFails, Grant, GrantFails, RestoreSender
  <2>2. xfer'[c] = NoXfer /\ \A d \in CPU \ {c} : xfer'[d] = xfer[d]
    BY <2>1, Zenon DEF TypeOK
  <2>3. Cleared(c)'
    BY <2>2, Zenon DEF Cleared, Transferring, NoXfer, Xfer
  <2> QED
    BY <2>1, <2>2, <2>3, OthersStayCleared
<1>3. CASE \/ ConfigureRecv(c) \/ ConfigureRecvFails(c)
           \/ Stage1Send(c) \/ Stage1SendFails(c) \/ Stage1Recv(c) \/ Stage1RecvFails(c)
  <2>1. UNCHANGED <<xfer, content>>
    BY <1>3, ZenonT(180) DEF ConfigureRecv, ConfigureRecvFails, Stage1Send, Stage1SendFails,
       Stage1Recv, Stage1RecvFails
  <2> QED
    BY <2>1 DEF ClearInv, Cleared, Transferring
<1> QED
  BY <1>1, <1>2, <1>3, Zenon DEF Step

LEMMA ClearWrite ==
  ASSUME IInv, ClearInv, NEW v \in VM, NEW q \in Tracked, VmWrite(v, q)
  PROVE  ClearInv'
<1> SUFFICES ASSUME NEW c \in CPU PROVE Cleared(c)'
  BY DEF ClearInv
<1>1. Valid(v, q) /\ UNCHANGED xfer /\ Cleared(c)
  BY Zenon DEF VmWrite, Valid, ClearInv
<1>2. \A p \in Page : content'[p] = IF p = q THEN v ELSE content[p]
  BY MemoryAssumption, ZenonT(180) DEF VmWrite, IInv, TypeOK
<1>3. ASSUME Transferring(c), "INVALID" \in xfer[c].fromMode, q \in xfer[c].region
      PROVE  v = xfer[c].to
  BY <1>1, <1>3, OnlyRecipientHasAccess, Zenon
<1>4. Transferring(c) => xfer[c].region \subseteq Page
  BY MemoryAssumption DEF Transferring, Xfer
<1> QED
  BY <1>1, <1>2, <1>3, <1>4, SMTT(60) DEF Cleared, Transferring

\* Access comes from the settled entries, before a step and after it.
AccessSettled ==
  \A v \in VM, p \in Page : Valid(v, p) => "VALID" \in Settled(v, p)

LEMMA AccessIsSettled == IInv => AccessSettled
BY NoMoreThanSettled DEF AccessSettled

LEMMA AccessStaysSettled == IInv' => AccessSettled'
BY AccessIsSettled, PTL

\* Memory that a VM gains as a gift or a loan through share_memory holds
\* nothing that another VM wrote, whatever the VMs write and the other CPUs
\* do between the clearing and the last table update.
THEOREM GainedMemoryStaysClear == Spec => GainedMemoryIsClear
<1>1. Init => ClearInv
  BY SMTT(60) DEF Init, ClearInv, Cleared, Transferring, NoXfer, Xfer
<1>2. IInv /\ ClearInv /\ [Next]_vars => ClearInv'
  <2> SUFFICES ASSUME IInv, ClearInv, [Next]_vars PROVE ClearInv'
    OBVIOUS
  <2>1. TypeOK
    BY Zenon DEF IInv
  <2>2. CASE UNCHANGED vars
    BY <2>2, Zenon DEF vars, ClearInv, Cleared, Transferring
  <2> QED
    BY <2>1, <2>2, ClearCall, ClearStep, ClearWrite DEF Next
<1>3. ASSUME IInv, ClearInv, [Next]_vars, NEW v \in VM, NEW p \in Page,
             ~Valid(v, p), Valid(v, p)'
      PROVE  \/ content[p] \in {Zero, v}
             \/ v \in SettledAccess(p)
             \/ \E c \in CPU : /\ xfer[c].pc = "grant"
                               /\ p \in xfer[c].region
                               /\ xfer[c].call = "spci" \/ xfer[c].kind = "Share"
  <2>1. IInv' /\ TypeOK /\ TypeOK'
    BY <1>3, NextInv, Zenon DEF IInv
  <2>2. CASE Quiet
    <3>1. "VALID" \in Settled(v, p)'
      BY <1>3, <2>1, AccessStaysSettled, Zenon DEF AccessSettled
    <3> QED
      BY <2>2, <3>1 DEF Quiet, Bits, SettledAccess
  <2>3. ASSUME NEW c \in CPU, Grant(c)
        PROVE  \/ content[p] \in {Zero, v}
               \/ xfer[c].pc = "grant" /\ p \in xfer[c].region
                  /\ (xfer[c].call = "spci" \/ xfer[c].kind = "Share")
    <3>1. xfer[c] \in Xfer /\ xfer[c].pc = "grant"
      BY <2>1, <2>3, ActiveXfer, Zenon DEF Grant
    <3>2. v = xfer[c].to /\ p \in xfer[c].region
      <4>1. pte'[v][p] # pte[v][p]
        BY <1>3, Zenon DEF Valid
      <4> QED
        BY <2>1, <2>3, <3>1, <4>1, ZenonT(180) DEF Grant, identity_map, Mapped, TypeOK, Xfer
    <3> QED
      BY <1>3, <3>1, <3>2, Zenon DEF ClearInv, Cleared, Transferring, Xfer
  <2>4. ASSUME NEW c \in CPU, Stage1Recv(c) PROVE FALSE
    BY <1>3, <2>4, Zenon DEF Stage1Recv, Valid
  <2> QED
    BY <1>3, <2>2, <2>3, <2>4, NextInv, Zenon
<1>4. IInv /\ ClearInv /\ [Next]_vars =>
        [\A v \in VM, p \in Page :
           ~Valid(v, p) /\ Valid(v, p)' =>
             \/ content[p] \in {Zero, v}
             \/ v \in SettledAccess(p)
             \/ \E c \in CPU : /\ xfer[c].pc = "grant"
                               /\ p \in xfer[c].region
                               /\ xfer[c].call = "spci" \/ xfer[c].kind = "Share"]_vars
  BY <1>3, Zenon
<1> QED
  BY <1>1, <1>2, <1>4, Invariance, PTL DEF Spec, GainedMemoryIsClear

(***************************************************************************)
(* The calls implement the atomic changes of Ownership.                    *)
(***************************************************************************)

\* The owner is the VM whose settled entry says so, if there is one.
OwnersSettled ==
  \A p \in Page : /\ \A o \in VM : OwnerOf(p) = o <=> "OWNED" \in Settled(o, p)
                  /\ OwnerOf(p) \in VM \cup {Hypervisor}

LEMMA OwnersAreSettled == IInv => OwnersSettled
<1> SUFFICES ASSUME IInv, NEW p \in Page
             PROVE  /\ \A o \in VM : OwnerOf(p) = o <=> "OWNED" \in Settled(o, p)
                    /\ OwnerOf(p) \in VM \cup {Hypervisor}
  BY Zenon DEF OwnersSettled
<1>1. \A v, w \in VM : "OWNED" \in Settled(v, p) /\ "OWNED" \in Settled(w, p) => v = w
  BY SettledFit, Zenon DEF ExclusiveOwner, SharingOwner, Borrower, SharingBorrower, Lender, Unrelated
<1>2. CASE SettledOwners(p) = {}
  BY <1>2, MemoryAssumption DEF OwnerOf, SettledOwners
<1>3. CASE SettledOwners(p) # {}
  <2>1. OwnerOf(p) \in SettledOwners(p)
    BY <1>3 DEF OwnerOf
  <2> QED
    BY <1>1, <2>1 DEF SettledOwners
<1> QED
  BY <1>2, <1>3

LEMMA OwnersStaySettled == IInv' => OwnersSettled'
BY OwnersAreSettled, PTL

\* The refinement mapping sends the initial state to an initial state.
LEMMA AbstractInit == Init => Abstract!Init
<1> SUFFICES ASSUME Init PROVE Abstract!Init
  OBVIOUS
<1>1. IInv /\ OwnersSettled
  BY InitInv, OwnersAreSettled, ZenonT(180)
<1>2. \A v \in VM, p \in Page :
        Settled(v, p) = IF InitOwner[p] = v THEN mode_to_stage2_attrs(RWX) ELSE AbsentPte
  BY DEF Init, Settled
<1>3. \A v \in VM, p \in Page : /\ "VALID" \in Settled(v, p) <=> InitOwner[p] = v
                                /\ "OWNED" \in Settled(v, p) <=> InitOwner[p] = v
  BY <1>2, AttrsOfMode, Zenon DEF RWX, AbsentPte
<1>4. \A p \in Page : OwnerOf(p) = InitOwner[p]
  BY <1>1, <1>3, MemoryAssumption DEF OwnersSettled
<1>5. \A p \in Page : SettledAccess(p) = {InitOwner[p]} \cap VM
  BY <1>3 DEF SettledAccess
<1>6. OwnerMap = InitOwner
  BY <1>4, MemoryAssumption DEF OwnerMap
<1>7. AccessMap = [p \in Page |-> {InitOwner[p]} \cap VM]
  BY <1>5 DEF AccessMap
<1> QED
  BY <1>6, <1>7 DEF Abstract!Init

LEMMA AbstractStutters ==
  ASSUME Quiet
  PROVE  UNCHANGED Abstract!vars
<1>1. ASSUME NEW p \in Page
      PROVE  OwnerOf(p)' = OwnerOf(p) /\ SettledAccess(p)' = SettledAccess(p)
  <2>1. /\ SettledOwners(p)' = SettledOwners(p)
        /\ SettledAccess(p)' = SettledAccess(p)
    BY DEF Quiet, Bits, SettledOwners, SettledAccess
  <2> QED
    BY <2>1 DEF OwnerOf
<1>2. OwnerMap' = OwnerMap /\ AccessMap' = AccessMap
  BY <1>1 DEF OwnerMap, AccessMap
<1> QED
  BY <1>2 DEF Abstract!vars

\* A page's owner and access change only with its settled entries.
LEMMA MapsFrame ==
  ASSUME NEW p \in Page,
         \A v \in VM, b \in Bits : b \in Settled(v, p)' <=> b \in Settled(v, p)
  PROVE  OwnerOf(p)' = OwnerOf(p) /\ SettledAccess(p)' = SettledAccess(p)
<1>1. /\ SettledOwners(p)' = SettledOwners(p)
      /\ SettledAccess(p)' = SettledAccess(p)
  BY Zenon DEF Bits, SettledOwners, SettledAccess
<1> QED
  BY <1>1 DEF OwnerOf

\* The VMs that take no part in a transfer have nothing to do with its pages.
LEMMA ThirdPartiesUnrelated ==
  ASSUME IInv, NEW x, Transfers(x), NEW p \in x.region, NEW w \in VM \ {x.from, x.to}
  PROVE  Unrelated(Settled(w, p)) /\ Unrelated(Settled(w, p)')
<1>1. /\ x.from \in VM /\ x.to \in VM /\ x.from # x.to /\ p \in Page
      /\ Lawful(Settled(x.from, p), Settled(x.to, p), Settled(x.from, p)', Settled(x.to, p)')
      /\ Settled(w, p)' = Settled(w, p)
  BY MemoryAssumption, Zenon DEF Transfers, Xfer
<1> QED
  BY <1>1, SettledFit, ZenonT(180) DEF Lawful, ExclusiveOwner, SharingOwner, Borrower,
     SharingBorrower, Lender, Unrelated

\* What a transfer leaves: its pages belong to o, and the VMs in A have
\* access to them.
LEMMA MapsAfterTransfer ==
  ASSUME IInv, IInv', NEW x, Transfers(x), NEW o \in VM, NEW A \in SUBSET {x.from, x.to},
         \A p \in x.region : "OWNED" \in Settled(o, p)',
         \A p \in x.region, w \in {x.from, x.to} : "VALID" \in Settled(w, p)' <=> w \in A
  PROVE  /\ OwnerMap' = [p \in Page |-> IF p \in x.region THEN o ELSE OwnerMap[p]]
         /\ AccessMap' = [p \in Page |-> IF p \in x.region THEN A ELSE AccessMap[p]]
<1>1. x.from \in VM /\ x.to \in VM
  BY Zenon DEF Transfers, Xfer
<1>2. ASSUME NEW p \in Page, p \in x.region
      PROVE  OwnerOf(p)' = o /\ SettledAccess(p)' = A
  <2>1. OwnerOf(p)' = o
    BY <1>2, OwnersStaySettled, Zenon DEF OwnersSettled
  <2>2. \A w \in VM : "VALID" \in Settled(w, p)' <=> w \in A
    BY <1>2, ThirdPartiesUnrelated, ZenonT(180) DEF Unrelated
  <2>3. SettledAccess(p)' = A
    BY <1>1, <2>2, ZenonT(180) DEF SettledAccess
  <2> QED
    BY <2>1, <2>3, Zenon
<1>3. ASSUME NEW p \in Page, p \notin x.region
      PROVE  OwnerOf(p)' = OwnerOf(p) /\ SettledAccess(p)' = SettledAccess(p)
  BY <1>3, MapsFrame DEF Transfers
<1> QED
  BY <1>2, <1>3, Zenon DEF OwnerMap, AccessMap

\* A transfer that completes is one of the changes of Ownership.
LEMMA TransferRefines ==
  ASSUME IInv, IInv', NEW x, Transfers(x)
  PROVE  Abstract!Next
<1> DEFINE F == mode_to_stage2_attrs(x.origMode)
           F2 == mode_to_stage2_attrs(x.fromMode)
           T2 == mode_to_stage2_attrs(x.toMode)
           S == x.region
<1>1. /\ x.from \in VM /\ x.to \in VM /\ x.from # x.to
      /\ S \in Region /\ S \subseteq Page /\ S # {}
  BY MemoryAssumption, ZenonT(180) DEF Transfers, Xfer
<1>2. \A p \in S : /\ Settled(x.from, p) = F /\ Settled(x.from, p)' = F2
                   /\ Settled(x.to, p)' = T2
                   /\ Lawful(F, Settled(x.to, p), F2, T2)
  BY DEF Transfers
<1>3. OwnersSettled
  BY OwnersAreSettled, Zenon
<1>4. \A p \in S : OwnerMap[p] = OwnerOf(p) /\ AccessMap[p] = SettledAccess(p)
  BY <1>1 DEF OwnerMap, AccessMap
<1> HIDE DEF F, F2, T2, S
<1>5. CASE ExclusiveOwner(F)
  <2>1. ASSUME NEW p \in S
        PROVE  /\ OwnerOf(p) = x.from /\ SettledAccess(p) = {x.from}
               /\ Unrelated(Settled(x.to, p))
    <3>1. p \in Page /\ ExclusiveOwner(Settled(x.from, p))
      BY <1>1, <1>2, <1>5, Zenon
    <3>2. \A w \in VM \ {x.from} : Unrelated(Settled(w, p))
      BY <1>1, <3>1, OwnedAlone, ZenonT(180)
    <3> QED
      BY <1>1, <1>3, <3>1, <3>2, Zenon DEF OwnersSettled, SettledAccess, ExclusiveOwner, Unrelated
  <2>2. Abstract!ExclusiveTo(x.from, S)
    BY <1>4, <2>1 DEF Abstract!ExclusiveTo
  <2>3. \/ Unrelated(F2) /\ ExclusiveOwner(T2)
        \/ Lender(F2) /\ Borrower(T2)
        \/ SharingOwner(F2) /\ SharingBorrower(T2)
    <3>1. PICK p \in S : TRUE
      BY <1>1, ZenonT(180)
    <3> QED
      BY <1>2, <1>5, <2>1, <3>1, Zenon DEF Lawful, ExclusiveOwner, Unrelated
  <2>4. CASE Unrelated(F2) /\ ExclusiveOwner(T2)
    <3>0. PICK A : A = {x.to}
      BY ZenonT(180)
    <3>1. /\ x.to \in VM /\ A \in SUBSET {x.from, x.to}
          /\ \A p \in S : "OWNED" \in Settled(x.to, p)'
          /\ \A p \in S, w \in {x.from, x.to} : "VALID" \in Settled(w, p)' <=> w \in A
      BY <3>0, <1>1, <1>2, <2>4, ZenonT(180) DEF Unrelated, ExclusiveOwner
    <3>2. /\ OwnerMap' = [p \in Page |-> IF p \in S THEN x.to ELSE OwnerMap[p]]
          /\ AccessMap' = [p \in Page |-> IF p \in S THEN {x.to} ELSE AccessMap[p]]
      BY <3>0, <3>1, MapsAfterTransfer DEF S
    <3>3. Abstract!Give(x.to, S)
      BY <3>2, Zenon DEF Abstract!Give, Abstract!SetOwner, Abstract!SetAccess
    <3> QED
      BY <1>1, <2>2, <3>3 DEF Abstract!Next
  <2>5. CASE Lender(F2) /\ Borrower(T2)
    <3>0. PICK A : A = {x.to}
      BY Zenon
    <3>1. /\ x.from \in VM /\ A \in SUBSET {x.from, x.to}
          /\ \A p \in S : "OWNED" \in Settled(x.from, p)'
          /\ \A p \in S, w \in {x.from, x.to} : "VALID" \in Settled(w, p)' <=> w \in A
      BY <3>0, <1>1, <1>2, <2>5, ZenonT(180) DEF Lender, Borrower
    <3>2. /\ OwnerMap' = [p \in Page |-> IF p \in S THEN x.from ELSE OwnerMap[p]]
          /\ AccessMap' = [p \in Page |-> IF p \in S THEN {x.to} ELSE AccessMap[p]]
      BY <3>0, <3>1, MapsAfterTransfer, SMTT(60) DEF S
    <3>3. OwnerMap' = OwnerMap
      BY <1>4, <2>1, <3>2, Zenon DEF OwnerMap
    <3>4. Abstract!Lend(x.to, S)
      BY <3>2, <3>3, ZenonT(180) DEF Abstract!Lend, Abstract!SetAccess
    <3> QED
      BY <1>1, <2>2, <3>4, ZenonT(180) DEF Abstract!Next
  <2>6. CASE SharingOwner(F2) /\ SharingBorrower(T2)
    <3>0. PICK A : A = {x.from, x.to}
      BY ZenonT(180)
    <3>1. /\ x.from \in VM /\ A \in SUBSET {x.from, x.to}
          /\ \A p \in S : "OWNED" \in Settled(x.from, p)'
          /\ \A p \in S, w \in {x.from, x.to} : "VALID" \in Settled(w, p)' <=> w \in A
      BY <3>0, <1>1, <1>2, <2>6, ZenonT(180) DEF SharingOwner, SharingBorrower
    <3>2. /\ OwnerMap' = [p \in Page |-> IF p \in S THEN x.from ELSE OwnerMap[p]]
          /\ AccessMap' = [p \in Page |-> IF p \in S THEN {x.from, x.to} ELSE AccessMap[p]]
      BY <3>0, <3>1, MapsAfterTransfer DEF S
    <3>3. OwnerMap' = OwnerMap
      BY <1>4, <2>1, <3>2, Zenon DEF OwnerMap
    <3>4. Abstract!ShareWith(x.from, x.to, S)
      BY <3>2, <3>3, ZenonT(180) DEF Abstract!ShareWith, Abstract!SetAccess
    <3> QED
      BY <1>1, <2>2, <3>4 DEF Abstract!Next
  <2> QED
    BY <2>3, <2>4, <2>5, <2>6, Zenon
<1>6. ASSUME ~ExclusiveOwner(F)
      PROVE  /\ Unrelated(F2) /\ ExclusiveOwner(T2)
             /\ OwnerMap' = [p \in Page |-> IF p \in S THEN x.to ELSE OwnerMap[p]]
             /\ AccessMap' = [p \in Page |-> IF p \in S THEN {x.to} ELSE AccessMap[p]]
  <2>1. PICK p \in S : TRUE
    BY <1>1
  <2>2. Unrelated(F2) /\ ExclusiveOwner(T2)
    BY <1>2, <1>6, <2>1, ZenonT(180) DEF Lawful
  <2>3. PICK A : A = {x.to}
    BY ZenonT(180)
  <2>4. /\ x.to \in VM /\ A \in SUBSET {x.from, x.to}
        /\ \A q \in S : "OWNED" \in Settled(x.to, q)'
        /\ \A q \in S, w \in {x.from, x.to} : "VALID" \in Settled(w, q)' <=> w \in A
    BY <1>1, <1>2, <2>2, <2>3, ZenonT(180) DEF Unrelated, ExclusiveOwner
  <2>5. /\ OwnerMap' = [q \in Page |-> IF q \in S THEN x.to ELSE OwnerMap[q]]
        /\ AccessMap' = [q \in Page |-> IF q \in S THEN A ELSE AccessMap[q]]
    BY <2>4, MapsAfterTransfer, SMTT(60) DEF S
  <2> QED
    BY <2>2, <2>3, <2>5, SMTT(60)
<1>7. CASE ~ExclusiveOwner(F) /\ "OWNED" \notin F
  <2>1. \A p \in S : OwnerOf(p) = x.to /\ x.from \in SettledAccess(p)
    BY <1>1, <1>2, <1>3, <1>7, Zenon DEF Lawful, OwnersSettled, SettledAccess
  <2>2. Abstract!BorrowedFrom(x.to, x.from, S)
    BY <1>4, <2>1 DEF Abstract!BorrowedFrom
  <2>3. OwnerMap' = OwnerMap
    BY <1>4, <1>6, <1>7, <2>1, Zenon DEF OwnerMap
  <2>4. Abstract!Return(x.to, S)
    BY <1>6, <1>7, <2>3, Zenon DEF Abstract!Return, Abstract!SetAccess
  <2> QED
    BY <1>1, <2>2, <2>4, Zenon DEF Abstract!Next
<1>8. CASE ~ExclusiveOwner(F) /\ "OWNED" \in F
  <2>1. \A p \in S : OwnerOf(p) = x.from /\ x.to \in SettledAccess(p)
    BY <1>1, <1>2, <1>3, <1>8, Zenon DEF Lawful, OwnersSettled, SettledAccess
  <2>2. Abstract!BorrowedFrom(x.from, x.to, S)
    BY <1>4, <2>1 DEF Abstract!BorrowedFrom
  <2>3. Abstract!DonateToBorrower(x.to, S)
    BY <1>6, <1>8, ZenonT(180) DEF Abstract!DonateToBorrower, Abstract!SetOwner, Abstract!SetAccess
  <2> QED
    BY <1>1, <2>2, <2>3, Zenon DEF Abstract!Next
<1> QED
  BY <1>5, <1>7, <1>8, Zenon

\* The configurations in progress are of pages that a call has named.
NamedBuffers == \A c \in CPU : ConfiguringVm(c) => <<conf[c].send, conf[c].recv>> \in Buffers

LEMMA NamedInit == Init => NamedBuffers
BY DEF Init, NamedBuffers, ConfiguringVm, Conf, NoConf

LEMMA NamedStep ==
  ASSUME IInv, NamedBuffers, [Next]_vars
  PROVE  NamedBuffers'
<1>0. TypeOK
  BY DEF IInv
<1>1. CASE UNCHANGED conf
  BY <1>1, Zenon DEF NamedBuffers, ConfiguringVm
<1>2. ASSUME NEW c \in CPU, NEW v \in VM, NEW b \in Buffers, ConfigureSend(c, v, b[1], b[2])
      PROVE  NamedBuffers'
  <2>1. b = <<b[1], b[2]>>
    BY MemoryAssumption
  <2>2. PICK r : /\ conf' = [conf EXCEPT ![c] = r]
                 /\ r = [pc |-> "recv2", vm |-> v, send |-> b[1], recv |-> b[2],
                         origSend |-> get_mode(v, {b[1]}), origRecv |-> get_mode(v, {b[2]})]
    BY <1>2, Zenon DEF ConfigureSend
  <2>3. conf'[c] = r /\ \A d \in CPU \ {c} : conf'[d] = conf[d]
    BY <1>0, <2>2, ZenonT(180) DEF TypeOK
  <2> QED
    BY <2>1, <2>2, <2>3 DEF NamedBuffers, ConfiguringVm
<1>3. ASSUME NEW c \in CPU, ConfigureRecv(c) \/ Stage1Send(c)
      PROVE  NamedBuffers'
  <2>1. conf[c].pc \in {"recv2", "send1"} /\ \E pc : conf' = [conf EXCEPT ![c].pc = pc]
    BY <1>3 DEF ConfigureRecv, Stage1Send
  <2>2. ConfiguringVm(c)
    BY <2>1, Configured
  <2>3. /\ conf'[c].send = conf[c].send /\ conf'[c].recv = conf[c].recv
        /\ \A d \in CPU \ {c} : conf'[d] = conf[d]
    BY <1>0, <2>1, <2>2, SMTT(60) DEF TypeOK, ConfiguringVm, Conf
  <2> QED
    BY <2>2, <2>3 DEF NamedBuffers, ConfiguringVm
<1>4. ASSUME NEW c \in CPU, conf' = [conf EXCEPT ![c] = NoConf]
      PROVE  NamedBuffers'
  <2>1. conf'[c] = NoConf /\ \A d \in CPU \ {c} : conf'[d] = conf[d]
    BY <1>0, <1>4 DEF TypeOK
  <2> QED
    BY <2>1, SMTT(60) DEF NamedBuffers, ConfiguringVm, Conf, NoConf
<1>5. ASSUME NEW c \in CPU, Call(c) PROVE NamedBuffers'
  <2>1. ASSUME NEW from, NEW to, NEW region, NEW kind, ShareFrom(c, from, to, region, kind)
        PROVE  UNCHANGED conf
    BY <2>1, Zenon DEF ShareFrom
  <2>2. ASSUME NEW from, NEW to, NEW region, NEW kind, NEW access,
               SpciFrom(c, from, to, region, kind, access)
        PROVE  UNCHANGED conf
    BY <2>2, Zenon DEF SpciFrom
  <2> QED
    BY <1>1, <1>2, <1>5, <2>1, <2>2, Zenon DEF Call
<1>6. ASSUME NEW c \in CPU, Step(c) PROVE NamedBuffers'
  <2>1. CASE \/ ClearMap(c) \/ ClearMapFails(c) \/ ClearZero(c) \/ ClearUnmap(c)
             \/ Grant(c) \/ GrantFails(c)
    BY <1>1, <2>1, Zenon DEF ClearMap, ClearMapFails, ClearZero, ClearUnmap, Grant, GrantFails
  <2>2. CASE \/ ConfigureRecvFails(c) \/ Stage1SendFails(c) \/ Stage1Recv(c)
             \/ Stage1RecvFails(c)
    BY <1>4, <2>2, Zenon DEF ConfigureRecvFails, Stage1SendFails, Stage1Recv, Stage1RecvFails,
       RestorePages
  <2> QED
    BY <1>3, <1>6, <2>1, <2>2, SMTT(60) DEF Step
<1>7. ASSUME NEW v \in VM, NEW p \in Tracked, VmWrite(v, p) PROVE NamedBuffers'
  BY <1>1, <1>7, Zenon DEF VmWrite
<1> QED
  BY <1>1, <1>5, <1>6, <1>7, Zenon DEF Next, vars

\* A configuration that completes is one of the changes of Ownership.
LEMMA ConfigureRefines ==
  ASSUME IInv, IInv', NEW x, Configures(x), <<x.send, x.recv>> \in Buffers
  PROVE  Abstract!Next
<1>1. PICK b \in Buffers : b = <<x.send, x.recv>>
  OBVIOUS
<1>2. PICK S : S = {x.send, x.recv}
  BY Zenon
<1>3. x.vm \in VM /\ S \subseteq Page /\ S = {b[1], b[2]}
  BY <1>1, <1>2, ZenonT(180) DEF Configures, Conf
<1>4. OwnersSettled /\ OwnersSettled'
  BY OwnersAreSettled, OwnersStaySettled
<1>5. ASSUME NEW p \in S
      PROVE  /\ OwnerOf(p) = x.vm /\ OwnerOf(p)' = Hypervisor
             /\ SettledAccess(p) = {x.vm} /\ SettledAccess(p)' = {x.vm}
  <2>1. /\ p \in Page
        /\ ExclusiveOwner(Settled(x.vm, p)) /\ SharingBorrower(Settled(x.vm, p)')
        /\ \A w \in VM \ {x.vm} : Settled(w, p)' = Settled(w, p)
    BY <1>2, <1>3, <1>5, ZenonT(180) DEF Configures
  <2>2. \A w \in VM \ {x.vm} : Unrelated(Settled(w, p))
    BY <1>3, <2>1, SettledFit, Zenon DEF ExclusiveOwner, SharingOwner, Borrower, SharingBorrower,
       Lender, Unrelated
  <2>3. OwnerOf(p) = x.vm
    BY <1>3, <1>4, <2>1, Zenon DEF OwnersSettled, ExclusiveOwner
  <2>4. OwnerOf(p)' = Hypervisor
    BY <1>3, <1>4, <2>1, <2>2, ZenonT(180) DEF OwnersSettled, SharingBorrower, Unrelated
  <2>5. SettledAccess(p) = {x.vm}
    BY <1>3, <2>1, <2>2, Zenon DEF SettledAccess, ExclusiveOwner, Unrelated
  <2>6. SettledAccess(p)' = {x.vm}
    BY <1>3, <2>1, <2>2, Zenon DEF SettledAccess, SharingBorrower, Unrelated
  <2> QED
    BY <2>3, <2>4, <2>5, <2>6, Zenon
<1>6. ASSUME NEW p \in Page, p \notin S
      PROVE  OwnerOf(p)' = OwnerOf(p) /\ SettledAccess(p)' = SettledAccess(p)
  BY <1>2, <1>6, MapsFrame, Zenon DEF Configures
<1>7. Abstract!ExclusiveTo(x.vm, S)
  BY <1>3, <1>5, Zenon DEF Abstract!ExclusiveTo, OwnerMap, AccessMap
<1>8. OwnerMap' = [p \in Page |-> IF p \in S THEN Hypervisor ELSE OwnerMap[p]]
  BY <1>5, <1>6, Zenon DEF OwnerMap
<1>9. AccessMap' = AccessMap
  BY <1>5, <1>6 DEF AccessMap
<1>10. Abstract!Configure(S)
  BY <1>8, <1>9 DEF Abstract!Configure, Abstract!SetOwner
<1> QED
  BY <1>3, <1>7, <1>10, Zenon DEF Abstract!Next

\* share_memory, spci_share_memory and configure, with their locks, their
\* several table updates and their failures, implement Ownership: each call
\* changes who owns its pages and who has access to them all at once, at the
\* step that completes it, and only as a VM may; every other step, and every
\* call that fails, changes nothing.
THEOREM CallsImplementOwnership == Spec => ImplementsOwnership
<1>1. ASSUME IInv, NamedBuffers, [Next]_vars
      PROVE  [Abstract!Next]_(Abstract!vars)
  <2>1. IInv' /\ (Quiet \/ \E c \in CPU : Grant(c) \/ Stage1Recv(c))
    BY <1>1, NextInv
  <2>2. TypeOK'
    BY <2>1 DEF IInv
  <2>3. CASE Quiet
    BY <2>3, AbstractStutters
  <2>4. ASSUME NEW c \in CPU, Grant(c) PROVE Abstract!Next
    <3>1. PICK x : Transfers(x)
      BY <1>1, <2>2, <2>4, GrantInv, SMTT(60)
    <3> QED
      BY <1>1, <2>1, <3>1, TransferRefines, Zenon
  <2>5. ASSUME NEW c \in CPU, Stage1Recv(c) PROVE Abstract!Next
    <3>1. PICK x : x = conf[c] /\ Configures(x)
      BY <1>1, <2>2, <2>5, Stage1RecvInv, ZenonT(180)
    <3>2. <<x.send, x.recv>> \in Buffers
      BY <1>1, <3>1 DEF NamedBuffers, ConfiguringVm, Configures
    <3> QED
      BY <1>1, <2>1, <3>1, <3>2, ConfigureRefines
  <2> QED
    BY <2>1, <2>3, <2>4, <2>5, Zenon
<1> QED
  BY <1>1, AbstractInit, InitInv, NextInv, NamedInit, NamedStep, PTL
     DEF Spec, ImplementsOwnership, Abstract!Spec
=============================================================================
