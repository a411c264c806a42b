------------------------------ MODULE LockOrder ------------------------------
(***************************************************************************)
(* The spinlocks of the hypervisor (spinlock.rs) and the order in which    *)
(* every call of a VM takes and releases them.  A call is the sequence of  *)
(* its lock operations; what it computes between them is left out, and     *)
(* where the code decides on a branch or returns early the call is one of  *)
(* several sequences.  The physical CPUs run their calls concurrently.     *)
(* Of the paths that differ only in how many locks they take and release   *)
(* inside others (an update that needs no page, one that fails half-way),  *)
(* the longest stands for all, and one without any.                        *)
(*                                                                         *)
(* A call of a secondary VM runs with the execution lock of its vCPU held: *)
(* the CPU that ran the vCPU took it, and keeps it until the vCPU is       *)
(* switched out.  A vCPU of the primary runs without its lock.             *)
(*                                                                         *)
(* Two calls between the vCPUs of a secondary VM take a second execution   *)
(* lock, of whichever vCPU the caller names, its own included: PSCI CPU_ON *)
(* waits for it, AFFINITY_INFO tries it.  The properties say what remains  *)
(* of the documented order beside them.                                    *)
(***************************************************************************)
EXTENDS Integers, Sequences, FiniteSets

CONSTANTS
    CPU,          \* the physical CPUs
    VM,           \* the ids of the VMs, in the order of their addresses
    HF_PRIMARY_VM_ID,
    VCPU,         \* the vCPUs of the secondary VMs
    vm_of,        \* the VM of each vCPU of VCPU
    NoCpu,        \* no CPU
    MaxCalls      \* bounds the calls of a behaviour

ASSUME LockOrderAssumption ==
    /\ VM \subseteq Nat
    /\ HF_PRIMARY_VM_ID \in VM
    /\ vm_of \in [VCPU -> VM \ {HF_PRIMARY_VM_ID}]
    /\ NoCpu \notin CPU
    /\ MaxCalls \in Nat

VARIABLES
    owner,    \* lock -> the CPU that holds it, or NoCpu
    current,  \* CPU -> the vCPU of a secondary VM it runs, or none: {u} or {}
    todo,     \* CPU -> the lock operations left of the call it serves
    calls     \* how many calls have been made

vars == <<owner, current, todo, calls>>

-----------------------------------------------------------------------------
(* The locks.                                                              *)

IsOn(c) == <<"is_on", c>>                \* Cpu::is_on
PrimaryExecution(c) == <<"primary", c>>  \* VCpu::inner of the primary's vCPU of a CPU
Execution(u) == <<"execution", u>>       \* VCpu::inner
VmLock(v) == <<"vm", v>>                 \* Vm::inner
Interrupts(u) == <<"interrupts", u>>     \* VCpu::interrupts; of the primary's vCPUs by their CPU
Stage1 == <<"stage1", 0>>                \* MemoryManager::hypervisor_ptable
LocalPool(c) == <<"local_pool", c>>      \* the pool of the call the CPU serves
Heap == <<"heap", 0>>                    \* Hypervisor::mpool
Dlog == <<"dlog", 0>>                    \* WRITER

Lock == {IsOn(c) : c \in CPU} \cup {PrimaryExecution(c) : c \in CPU}
        \cup {Execution(u) : u \in VCPU} \cup {VmLock(v) : v \in VM}
        \cup {Interrupts(u) : u \in VCPU \cup CPU} \cup {LocalPool(c) : c \in CPU}
        \cup {Stage1, Heap, Dlog}

Held(c) == {l \in Lock : owner[l] = c}

-----------------------------------------------------------------------------
(* What a call does to the locks, in the order it does it.                 *)

Acquire(l) == [op |-> "acquire", lock |-> l]
Release(l) == [op |-> "release", lock |-> l]

\* A guard that lives for the operations s.
Locked(l, s) == <<Acquire(l)>> \o s \o <<Release(l)>>

\* A mistake in lock_both: the locks in the order of the arguments.
lock_bothAsGiven(v, w) == <<Acquire(VmLock(v)), Acquire(VmLock(w))>>

\* RawSpinLock::lock_both: the lock of lowest address first.
lock_both(v, w) ==
    IF v < w THEN <<Acquire(VmLock(v)), Acquire(VmLock(w))>>
             ELSE <<Acquire(VmLock(w)), Acquire(VmLock(v))>>

\* Two guards, released in the opposite order of their declaration.
LockedBoth(v, w, s) == lock_both(v, w) \o s \o <<Release(VmLock(w)), Release(VmLock(v))>>

\* A page out of the local pool or, when it has none, of its fallback.  The
\* lock of the local pool is released before the fallback is asked.
mpool_alloc(c) == Locked(LocalPool(c), <<>>) \o Locked(Heap, <<>>)

\* The end of a local pool: its pages go to the fallback under both locks.
mpool_drop(c) == Locked(LocalPool(c), Locked(Heap, <<>>))

dlog == Locked(Dlog, <<>>)

\* Every update of a table takes from the local pool.
clear_memory(c) == Locked(Stage1, mpool_alloc(c))

\* Mailbox::configure_stage1
configure_stage1(c) == Locked(Stage1, mpool_alloc(c))

\* VmInner::configure, which may refuse the pages, and the roll-back of the
\* stage-2 table once the stage-1 table has refused them.
vm_configure(c, v) ==
    {Locked(VmLock(v), <<>>),
     Locked(VmLock(v), mpool_alloc(c) \o configure_stage1(c) \o mpool_alloc(c) \o mpool_drop(c))}

\* The send buffer is looked up under the sender's lock alone; then both
\* locks are taken.  The regions of an architected message change both
\* tables.
spci_msg_send(c, from, to) ==
    {Locked(VmLock(from), <<>>) \o LockedBoth(to, from, s) :
        s \in {<<>>, mpool_alloc(c) \o mpool_drop(c)}}

\* The local pool is declared before the guards and dropped after them.
share_memory(c, from, to) ==
    {LockedBoth(from, to, s) \o mpool_drop(c) :
        s \in {<<>>, mpool_alloc(c) \o clear_memory(c) \o mpool_alloc(c)}}

spci_msg_recv(u) == {Locked(VmLock(vm_of[u]), s) : s \in {<<>>, Locked(Interrupts(u), <<>>)}}

\* One lock at a time: the mailbox's VM, then the VM that waits.
mailbox_waiter_get(v, w) == {Locked(VmLock(v), <<>>) \o Locked(VmLock(w), <<>>)}

\* mailbox_writable_get, mailbox_clear, debug_log and the page fault handler
\* hold the lock of their own VM; the last two may write to the log.
own_vm(v) == {Locked(VmLock(v), <<>>), Locked(VmLock(v), dlog)}

\* interrupt_inject writes to the log before it locks; interrupt_enable and
\* interrupt_get only lock.
interrupt_inject(u) == {dlog \o Locked(Interrupts(u), <<>>)}
own_interrupts(u) == {Locked(Interrupts(u), <<>>)}

\* update_vi, the end of every hypercall but the PSCI ones: the vCPU that
\* called or, when the call switches, the one it switches to.
update_vi(u) == Locked(Interrupts(u), <<>>)

\* CpuManager::cpu_on and cpu_off.
cpu_on(c) == {Locked(IsOn(c), <<>>), Locked(IsOn(c), Locked(PrimaryExecution(c), <<>>))}
cpu_off(c) == {Locked(IsOn(c), <<>>)}

\* The part of vcpu_prepare_run that follows try_lock.  The guards of the
\* match lock the VM, to look for a message, and the interrupts, each for its
\* own condition: what is locked when the vCPU will run, and when it will
\* not.  The log is written to when the VM is being aborted, and an expired
\* timer is injected once the vCPU will run.
prepare_run(u) ==
    {<<>>, Locked(VmLock(vm_of[u]), <<>>), Locked(Interrupts(u), <<>>),
     Locked(VmLock(vm_of[u]), <<>>) \o Locked(Interrupts(u), <<>>)}

inject_timer(u) == Locked(Interrupts(u), <<>>)

prepare_run_err(u) ==
    {<<>>, dlog, Locked(Interrupts(u), <<>>),
     Locked(VmLock(vm_of[u]), <<>>) \o Locked(Interrupts(u), <<>>)}

-----------------------------------------------------------------------------
(* The calls a CPU may serve: those of the primary, and those of the vCPU  *)
(* it runs.                                                                *)

VmCalls(c, v) ==
    vm_configure(c, v) \cup own_vm(v)
    \cup UNION {spci_msg_send(c, v, w) \cup share_memory(c, v, w) : w \in VM \ {v}}

PrimaryCalls(c) ==
    VmCalls(c, HF_PRIMARY_VM_ID) \cup own_interrupts(c)
    \cup (UNION {mailbox_waiter_get(v, w) : v \in VM, w \in VM})
    \cup UNION {interrupt_inject(u) : u \in VCPU \cup CPU}

PsciCalls(c) == cpu_off(c) \cup UNION {cpu_on(d) : d \in CPU}

SecondaryCalls(c, u) ==
    VmCalls(c, vm_of[u]) \cup spci_msg_recv(u) \cup own_interrupts(u)
    \cup UNION {interrupt_inject(w) : w \in {w \in VCPU : vm_of[w] = vm_of[u]}}

CallsOf(c) ==
    IF current[c] = {}
    THEN PsciCalls(c) \cup {s \o update_vi(c) : s \in PrimaryCalls(c)}
    ELSE UNION {{s \o update_vi(next) : s \in SecondaryCalls(c, u), next \in {u, c}} :
                    u \in current[c]}

-----------------------------------------------------------------------------
Idle(c) == todo[c] = <<>>
Free(l) == owner[l] = NoCpu

Init ==
    /\ owner = [l \in Lock |-> NoCpu]
    /\ current = [c \in CPU |-> {}]
    /\ todo = [c \in CPU |-> <<>>]
    /\ calls = 0

Begin(c, s) ==
    /\ calls < MaxCalls
    /\ calls' = calls + 1
    /\ todo' = [todo EXCEPT ![c] = s]

Call(c) ==
    /\ Idle(c)
    /\ \E s \in CallsOf(c) : Begin(c, s)
    /\ UNCHANGED <<owner, current>>

\* A mistake in RunBusy: vcpu_run waits for the lock.
RunBusyWaits(c, u) ==
    /\ Idle(c) /\ current[c] = {}
    /\ ~Free(Execution(u))
    /\ Begin(c, Locked(Execution(u), <<>>))
    /\ UNCHANGED <<owner, current>>

\* vcpu_run of a vCPU whose lock another CPU holds does not wait: it returns
\* to the primary, and nothing has changed but the number of calls.
RunBusy(c, u) ==
    /\ Idle(c) /\ current[c] = {}
    /\ ~Free(Execution(u))
    /\ Begin(c, update_vi(c))
    /\ UNCHANGED <<owner, current>>

\* vcpu_run takes the lock.  It keeps the lock when the vCPU will run, and
\* gives it back when it will not.
RunLocked(c, u) ==
    /\ Idle(c) /\ current[c] = {}
    /\ Free(Execution(u))
    /\ owner' = [owner EXCEPT ![Execution(u)] = c]
    /\ \/ /\ \E s \in prepare_run(u) : Begin(c, s \o inject_timer(u) \o update_vi(u))
          /\ current' = [current EXCEPT ![c] = {u}]
       \/ /\ \E s \in prepare_run_err(u) :
                Begin(c, s \o <<Release(Execution(u))>> \o update_vi(c))
          /\ UNCHANGED current

\* The CPU has switched to the primary and saved the vCPU's registers.
SwitchedOut(c) ==
    /\ Idle(c) /\ current[c] # {}
    /\ owner' = [l \in Lock |-> IF \E u \in current[c] : l = Execution(u) THEN NoCpu ELSE owner[l]]
    /\ current' = [current EXCEPT ![c] = {}]
    /\ UNCHANGED <<todo, calls>>

\* The vCPUs of the VM of the vCPU that a CPU runs.
Siblings(c) == {t \in VCPU : \E u \in current[c] : vm_of[t] = vm_of[u]}

\* PSCI CPU_ON of a secondary: vcpu_secondary_reset_and_start locks the
\* target's inner.  Like all of its PSCI calls it ends without update_vi.
SecondaryCpuOn(c, t) ==
    /\ Idle(c) /\ t \in Siblings(c)
    /\ Begin(c, Locked(Execution(t), <<>>))
    /\ UNCHANGED <<owner, current>>

\* PSCI AFFINITY_INFO of a secondary: vcpu_try_lock succeeds, or the target
\* counts as on.
AffinityInfo(c, t) ==
    /\ Idle(c) /\ t \in Siblings(c)
    /\ \/ /\ Free(Execution(t))
          /\ owner' = [owner EXCEPT ![Execution(t)] = c]
          /\ Begin(c, <<Release(Execution(t))>>)
       \/ /\ ~Free(Execution(t))
          /\ Begin(c, <<>>)
          /\ UNCHANGED owner
    /\ UNCHANGED current

\* RawSpinLock::lock, once its compare_exchange succeeds.
Take(c) ==
    /\ ~Idle(c)
    /\ Head(todo[c]).op = "acquire" /\ Free(Head(todo[c]).lock)
    /\ owner' = [owner EXCEPT ![Head(todo[c]).lock] = c]
    /\ todo' = [todo EXCEPT ![c] = Tail(@)]
    /\ UNCHANGED <<current, calls>>

\* SpinLockGuard::drop
Unlock(c) ==
    /\ ~Idle(c)
    /\ Head(todo[c]).op = "release"
    /\ owner' = [owner EXCEPT ![Head(todo[c]).lock] = NoCpu]
    /\ todo' = [todo EXCEPT ![c] = Tail(@)]
    /\ UNCHANGED <<current, calls>>

Next ==
    \E c \in CPU :
        \/ Call(c) \/ SwitchedOut(c) \/ Take(c) \/ Unlock(c)
        \/ \E u \in VCPU : \/ RunBusy(c, u) \/ RunLocked(c, u)
                            \/ SecondaryCpuOn(c, u) \/ AffinityInfo(c, u)

Spec == Init /\ [][Next]_vars

\* A CPU inside the hypervisor does not stop, and a CPU that spins on a lock
\* that is given back takes it in the end: among the finitely many calls of
\* a behaviour no lock is taken from under it for ever.
FairSpec == Spec /\ \A c \in CPU : WF_vars(Take(c)) /\ WF_vars(Unlock(c))

-----------------------------------------------------------------------------
(* The documented order, api.rs:28-34, extended to the locks it does not   *)
(* name where the code nests them: Cpu::is_on outermost, the pools inside  *)
(* the page tables.                                                        *)

Rank == [is_on |-> 0, primary |-> 1, execution |-> 1, vm |-> 2, interrupts |-> 3,
         stage1 |-> 4, local_pool |-> 5, heap |-> 6, dlog |-> 7]

Before(l, k) == \/ Rank[l[1]] < Rank[k[1]]
                \/ l[1] = "vm" /\ k[1] = "vm" /\ l[2] < k[2]

Waits(c) == ~Idle(c) /\ Head(todo[c]).op = "acquire"

\* CPU_ON of a secondary waits for the execution lock of its target.
Starting(c) == Waits(c) /\ current[c] # {} /\ Head(todo[c]).lock[1] = "execution"

\* Every lock a CPU waits for comes after every lock it holds in the
\* documented order: "vcpu::execution_lock -> vm::lock ->
\* vcpu::interrupts_lock -> mm_stage1_lock -> dlog sl", and of two locks of
\* the same kind the one of lowest address first (api.rs).  What a CPU holds
\* includes the execution lock that an earlier vcpu_run left it with.  The
\* one exception is CPU_ON of a secondary, which waits for an execution lock
\* in no order; it then holds the execution lock of its own vCPU and nothing
\* else, and whoever holds the execution locks of two vCPUs (AFFINITY_INFO
\* takes the second without waiting) waits for no lock.
LocksInOrder ==
    \A c \in CPU : Waits(c) =>
        /\ \/ \A l \in Held(c) : Before(l, Head(todo[c]).lock)
           \/ Starting(c) /\ Held(c) = {Execution(u) : u \in current[c]}
        /\ \A u \in VCPU, w \in VCPU : {Execution(u), Execution(w)} \subseteq Held(c) => u = w

\* Every call returns, no CPU spins for ever on a lock, but for a CPU_ON that
\* waits for its target to be switched out; and the CPUs that wait so keep no
\* other call from returning.
CallsReturn == \A c \in CPU : ~Idle(c) ~> Idle(c) \/ Starting(c)

=============================================================================
