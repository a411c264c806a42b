------------------------------- MODULE Mailbox ------------------------------
(***************************************************************************)
(* The mailboxes of the VMs and the notifications that a mailbox has       *)
(* become writable.  A VM that finds a mailbox busy puts its wait entry on *)
(* the waiter list of that mailbox.  When the mailbox is cleared, or       *)
(* configured, the primary is told, and moves the waiters one by one, with *)
(* hf_mailbox_waiter_get, to the ready lists of the waiting VMs, where     *)
(* they find out which mailboxes became writable.                          *)
(*                                                                         *)
(* A call holds the locks of the VMs it works on, and is one step, except  *)
(* for mailbox_waiter_get: it takes an entry off the list under the lock   *)
(* of the notifying VM, and puts it on the ready list under the lock of    *)
(* the waiting one.  The wait entry of VM w for mailbox t is the pair of   *)
(* w and t; its links say which lists it is on.                            *)
(***************************************************************************)
EXTENDS Integers, Sequences

CONSTANTS
  NumVms,     \* vm_manager.len()
  MaxVms,     \* MAX_VMS
  CPU,        \* the CPUs, on which the primary calls mailbox_waiter_get
  Link        \* the pairs of VMs of which the first sends to the second

ASSUME MailboxAssumption == NumVms \in Nat \ {0} /\ MaxVms \in Nat /\ NumVms <= MaxVms

HF_VM_ID_OFFSET == 1
VM == HF_VM_ID_OFFSET .. NumVms + HF_VM_ID_OFFSET - 1
Primary == HF_VM_ID_OFFSET

VARIABLES
  state,        \* the state of each VM's mailbox
  configured,   \* the VMs that have given their send and receive pages
  recv,         \* recv[v]: the sender of what is in v's receive page, or 0
  inbox,        \* inbox[v]: the messages delivered to v that v has not cleared
  waiter_list,  \* waiter_list[t]: the VMs whose wait entries for t are queued
  ready_list,   \* ready_list[w]: the VMs whose mailboxes became writable
  fetched,      \* fetched[c]: the wait entry between the two lists, or {}
  owed,         \* the VMs whose waiters the primary has been told to notify
  asked,        \* <<w, t>>: w asked to be notified of t, and has not been
  stuck         \* the VMs whose locks are held by a CPU that has panicked

vars == <<state, configured, recv, inbox, waiter_list, ready_list, fetched, owed, asked,
          stuck>>

MailboxState == {"Empty", "Received", "Read"}

Init ==
  /\ state = [v \in VM |-> "Empty"]
  /\ configured = {}
  /\ recv = [v \in VM |-> 0]
  /\ inbox = [v \in VM |-> <<>>]
  /\ waiter_list = [v \in VM |-> <<>>]
  /\ ready_list = [v \in VM |-> <<>>]
  /\ fetched = [c \in CPU |-> {}]
  /\ owed = {}
  /\ asked = {}
  /\ stuck = {}

is_in(v, list) == \E i \in 1 .. Len(list) : list[i] = v

Writable(t) == state[t] = "Empty" /\ t \in configured

\* A mutant of waiter_result: a secondary that has waiters does not switch.
waiter_resultPrimaryOnly(v) ==
  owed' = IF waiter_list[v] = <<>> \/ v # Primary THEN owed ELSE owed \cup {v}

\* v's call has made its mailbox writable: if there are waiters the primary is
\* told, as the result of its own call or of hf_vcpu_run.
waiter_result(v) == owed' = IF waiter_list[v] = <<>> THEN owed ELSE owed \cup {v}

\* vm_configure succeeds, which it does only once.
Configure(v) ==
  /\ v \notin stuck /\ v \notin configured
  /\ configured' = configured \cup {v}
  /\ waiter_result(v)
  /\ UNCHANGED <<state, recv, inbox, waiter_list, ready_list, fetched, asked, stuck>>

\* spci_msg_send checks the target's mailbox under both locks.
MaySend(f, t) == state[t] = "Empty" /\ t \in configured

Sends(f, t) == {f, t} \cap stuck = {} /\ f \in configured /\ f # t /\ <<f, t>> \in Link

\* A mutant of SendSucceeds: the mailbox is not marked.
SendSucceedsUnmarked(f, t) ==
  /\ Sends(f, t) /\ MaySend(f, t)
  /\ recv' = [recv EXCEPT ![t] = f]
  /\ inbox' = [inbox EXCEPT ![t] = Append(@, f)]
  /\ UNCHANGED <<state, configured, waiter_list, ready_list, fetched, owed, asked, stuck>>

\* The message is copied; one for the primary is delivered with the switch.
SendSucceeds(f, t) ==
  /\ Sends(f, t) /\ MaySend(f, t)
  /\ recv' = [recv EXCEPT ![t] = f]
  /\ inbox' = [inbox EXCEPT ![t] = Append(@, f)]
  /\ state' = [state EXCEPT ![t] = IF t = Primary THEN "Read" ELSE "Received"]
  /\ UNCHANGED <<configured, waiter_list, ready_list, fetched, owed, asked, stuck>>

\* An architected message is refused.  Its header has been copied all the same
\* if spci_msg_handle_architected_message was called.
SendRefused(f, t) ==
  /\ Sends(f, t) /\ MaySend(f, t)
  /\ recv' = [recv EXCEPT ![t] = f]
  /\ UNCHANGED <<state, configured, inbox, waiter_list, ready_list, fetched, owed, asked,
                 stuck>>

\* A mutant of wait_for: one waiter is enough for a mailbox.
wait_forOne(f, t) ==
  waiter_list' = IF waiter_list[t] # <<>> THEN waiter_list
                 ELSE [waiter_list EXCEPT ![t] = Append(@, f)]

\* VmInner::wait_for queues the entry unless it is on the list.
wait_for(f, t) ==
  waiter_list' = IF is_in(f, waiter_list[t]) THEN waiter_list
                 ELSE [waiter_list EXCEPT ![t] = Append(@, f)]

\* The mailbox is busy and the sender wants to be notified.  The wait entry is
\* wait_entries[t], of an array of MAX_VMS entries.
SendWaits(f, t) ==
  /\ Sends(f, t) /\ ~MaySend(f, t)
  /\ t < MaxVms
  /\ wait_for(f, t)
  /\ asked' = asked \cup {<<f, t>>}
  /\ UNCHANGED <<state, configured, recv, inbox, ready_list, fetched, owed, stuck>>

\* The index is out of bounds, and the CPU panics with both locks held.
SendPanics(f, t) ==
  /\ Sends(f, t) /\ ~MaySend(f, t)
  /\ t >= MaxVms
  /\ stuck' = stuck \cup {f, t}
  /\ UNCHANGED <<state, configured, recv, inbox, waiter_list, ready_list, fetched, owed, asked>>

\* Mailbox::try_read, in spci_msg_recv or when a vCPU that is blocked on its
\* mailbox is run.
Read(v) ==
  /\ v \notin stuck /\ state[v] = "Received"
  /\ state' = [state EXCEPT ![v] = "Read"]
  /\ UNCHANGED <<configured, recv, inbox, waiter_list, ready_list, fetched, owed, asked, stuck>>

\* mailbox_clear, which does something only if the message has been read.
MailboxClear(v) ==
  /\ v \notin stuck /\ state[v] = "Read"
  /\ state' = [state EXCEPT ![v] = "Empty"]
  /\ inbox' = [inbox EXCEPT ![v] = <<>>]
  /\ waiter_result(v)
  /\ UNCHANGED <<configured, recv, waiter_list, ready_list, fetched, asked, stuck>>

\* A mutant of FetchWaiter: the entry is looked at and stays on the list.
FetchWaiterPeeks(c, t) ==
  /\ t \notin stuck /\ fetched[c] = {}
  /\ Writable(t) /\ waiter_list[t] # <<>>
  /\ fetched' = [fetched EXCEPT ![c] = {<<Head(waiter_list[t]), t>>}]
  /\ UNCHANGED <<state, configured, recv, inbox, waiter_list, ready_list, owed, asked, stuck>>

\* The first half of mailbox_waiter_get: fetch_waiter under the lock of t.
FetchWaiter(c, t) ==
  /\ t \notin stuck /\ fetched[c] = {}
  /\ Writable(t) /\ waiter_list[t] # <<>>
  /\ fetched' = [fetched EXCEPT ![c] = {<<Head(waiter_list[t]), t>>}]
  /\ waiter_list' = [waiter_list EXCEPT ![t] = Tail(@)]
  /\ UNCHANGED <<state, configured, recv, inbox, ready_list, owed, asked, stuck>>

\* There is none to be notified, and the primary stops calling.
FetchNone(c, t) ==
  /\ t \notin stuck /\ fetched[c] = {}
  /\ ~(Writable(t) /\ waiter_list[t] # <<>>)
  /\ owed' = owed \ {t}
  /\ UNCHANGED <<state, configured, recv, inbox, waiter_list, ready_list, fetched, asked, stuck>>

\* An entry that is on the ready list stays where it is.
enqueue_ready_list(w, t) ==
  ready_list' = IF is_in(t, ready_list[w]) THEN ready_list
                ELSE [ready_list EXCEPT ![w] = Append(@, t)]

\* The second half, under the lock of the waiting VM.
Enqueue(c) ==
  \E e \in fetched[c] :
    /\ e[1] \notin stuck
    /\ enqueue_ready_list(e[1], e[2])
    /\ fetched' = [fetched EXCEPT ![c] = {}]
    /\ UNCHANGED <<state, configured, recv, inbox, waiter_list, owed, asked, stuck>>

\* mailbox_writable_get returns the first VM of the ready list.
WritableGet(w) ==
  /\ w \notin stuck /\ ready_list[w] # <<>>
  /\ ready_list' = [ready_list EXCEPT ![w] = Tail(@)]
  /\ asked' = asked \ {<<w, Head(ready_list[w])>>}
  /\ UNCHANGED <<state, configured, recv, inbox, waiter_list, fetched, owed, stuck>>

VMStep(v) ==
  \/ Configure(v)
  \/ \E t \in VM : SendSucceeds(v, t) \/ SendRefused(v, t) \/ SendWaits(v, t) \/ SendPanics(v, t)
  \/ Read(v) \/ MailboxClear(v) \/ WritableGet(v)

WaiterGet(c) == Enqueue(c) \/ \E t \in VM : FetchWaiter(c, t) \/ FetchNone(c, t)

Next == (\E v \in VM : VMStep(v)) \/ (\E c \in CPU : WaiterGet(c))

Spec == Init /\ [][Next]_vars

\* "The scheduler MUST call hf_mailbox_waiter_get() repeatedly and notify all
\* waiters": each thread of the primary that has been told to gets its turn,
\* also if other threads do in between, and a call that has begun goes on.
Notifies(t) == \E c \in CPU : t \in owed /\ (FetchWaiter(c, t) \/ FetchNone(c, t))

FairSpec ==
  /\ Spec
  /\ \A t \in VM : SF_vars(Notifies(t))
  /\ \A c \in CPU : WF_vars(Enqueue(c))

(***************************************************************************)
(* Properties.                                                             *)
(***************************************************************************)

\* Every variable has its type.
TypeOK ==
  /\ state \in [VM -> MailboxState]
  /\ configured \subseteq VM
  /\ recv \in [VM -> VM \cup {0}]
  /\ inbox \in [VM -> Seq(VM)]
  /\ waiter_list \in [VM -> Seq(VM)]
  /\ ready_list \in [VM -> Seq(VM)]
  /\ fetched \in [CPU -> {{}} \cup {{e} : e \in VM \X VM}]
  /\ owed \subseteq VM
  /\ asked \subseteq VM \X VM
  /\ stuck \subseteq VM

\* If a VM's mailbox is writable and others wait for it, the primary has been
\* told and is not done: no order of registering, clearing, sending and
\* notifying leaves a waiter on the list with nobody to take it off.
WaitersAreOwed == \A t \in VM : Writable(t) /\ waiter_list[t] # <<>> => t \in owed

\* A VM that asked to be notified of a mailbox, and has not been, is on its
\* way: its entry is queued, or between the lists, or on its ready list.
NotForgotten ==
  \A p \in asked : \/ is_in(p[1], waiter_list[p[2]])
                   \/ \E c \in CPU : p \in fetched[c]
                   \/ is_in(p[2], ready_list[p[1]])

\* An entry is on a list at most once, though it can be registered again while
\* it is between the lists, and fetched by a second CPU
\* ("debug_assert!(list_empty(&entry.ready_links))"; the links are in the
\* entry, so appending it twice would corrupt the list).
LinkedOnce ==
  \A v \in VM : \A list \in {waiter_list[v], ready_list[v]} :
    \A i, j \in 1 .. Len(list) : list[i] = list[j] => i = j

\* From when a message is delivered until its receiver clears the mailbox, it
\* is what the receive page holds, and no second one is delivered: neither a
\* message of another sender nor the header of one that is refused overwrites
\* it, whatever order the senders, the reads and the clearing come in.
MessageKept == \A v \in VM : inbox[v] \in {<<>>, <<recv[v]>>}

\* A waiter is notified of a mailbox that is writable, unless it is written
\* before, or a CPU has panicked.
WaiterNotified ==
  \A w, t \in VM : <<w, t>> \in Link =>
    (is_in(w, waiter_list[t]) /\ Writable(t)
       ~> is_in(t, ready_list[w]) \/ ~Writable(t) \/ stuck # {})
=============================================================================
