# Hafnium in TLA+

Hafnium is a hypervisor for AArch64.  This directory holds TLA+ models of its
Rust rewrite (`hfo2/`) and of the C and assembly that it is linked with
(`src/arch/aarch64/`), TLC configurations that check them on small instances,
and TLAPS proofs of the main properties for all instances.

## The system

One VM, the *primary*, schedules all the others.  A physical CPU runs the
primary's vCPU of the same index until it calls `hf_vcpu_run`; then it runs a
vCPU of a secondary VM until that vCPU blocks, yields, is interrupted or makes a
call that the primary must hear of.  Hypercalls run on any CPU at any time and
are kept apart by spin locks: one on each vCPU's state (held for as long as the
vCPU runs), one on each vCPU's interrupts, one on each VM (page table and
mailbox), one on the hypervisor's own page table, one on each page pool.

| Part | State | Operations | What makes it hard | Modules |
|---|---|---|---|---|
| Memory sharing (`hypervisor.rs`, `spci_architected_message.rs`, `vm.rs`) | stage-2 entries of each VM, the hypervisor's stage-1 entries, buffer pages | `share_memory`, `clear_memory`, `spci_share_memory`, `vm_configure` | several tables per call, each update can fail, VMs run in between | `Modes`, `MemorySharing`, `Ownership`, `MemorySharingInvariant`, `MemorySharingProofs` |
| Page tables (`mm.rs`, `mm.c`) | a tree of tables per address space | `identity_map`, `unmap`, `defrag`, `get_attrs`, `new`, `drop` | partial failure, splitting and merging, running out of pages | `PageTable` |
| Page faults (`mm.rs`, `hypervisor.rs`, `cpu.rs`) | entries, TLBs, accesses under way | the writes and TLB invalidations of an update, `vcpu_handle_page_fault` | the hardware walks a table that is being changed | `TableWalk` |
| Page pools (`mpool.rs`, `slist.rs`) | lists kept in the free pages, a fallback | `alloc`, `alloc_pages`, `free`, `free_pages`, `drop` | other CPUs between a pool and its fallback | `MPool`, `MPoolProofs` |
| vCPU scheduling (`hypervisor.rs`, `cpu.rs`, `handler.c`, `exceptions.S`, `psci_handler.c`, `timer.c`) | state, lock, registers and timer of each vCPU | `vcpu_run`, switches to the primary, PSCI calls of a secondary, `abort` | wake-ups racing with blocking, registers saved after the state has changed | `VCpuScheduling`, `VCpuSchedulingProofs` |
| Virtual interrupts (`cpu.rs`) | enabled and pending bits, a count | `inject`, `enable`, `get` | only the first interrupt is reported | `Interrupts`, `InterruptsProofs` |
| Mailboxes (`vm.rs`, `hypervisor.rs`, `list.rs`) | mailbox state, waiter and ready lists | `spci_msg_send`, `spci_msg_recv`, `mailbox_clear`, `mailbox_waiter_get`, `mailbox_writable_get` | the lock is dropped between two lists | `Mailbox`, `MailboxProofs` |
| Locks (`spinlock.rs`, and every caller) | who holds which lock | every call, as the locks it takes and releases | the execution lock outlives the call that took it | `LockOrder`, `LockOrderProofs` |
| Power of the CPUs (`psci_handler.c`, `cpu.rs`, `init.rs`) | `is_on`, the firmware's view, start addresses | `CPU_ON`, `CPU_OFF`, `CPU_SUSPEND` of the primary, `cpu_main` | two records of one fact, changed one after the other | `CpuPower`, `CpuPowerProofs` |
| Boot (`init.rs`, `load.rs`, `boot_params.rs`, `fdt.rs`, `fdt_handler.rs`, `manifest.rs`, `cpio.rs`, `memiter.rs`) | device tree, archive, memory ranges, VMs | `one_time_init` and all it calls | every mapping can fail, a VM that fails is skipped, input may be malformed | `Boot`, `Fdt`, `Manifest`, `BootParams`, `Cpio`, `System` |

How the parts meet:

* Memory sharing and configuration are sequences of page-table updates.
  `MemorySharing` and `Boot` take of `identity_map` what `PageTable` shows of it:
  it sets exactly its range, or fails and changes no mapping.
* The page tables take pages from the pools.  That a roll-back finds the pages it
  needs rests on `PageTable` (`RollbackNeedsNoPages`: it needs no more than the
  table itself gives back) and on `MPool` (`RollbackStaysLocal`: what was given
  to the local pool is there).
* `PageTable` takes an update as one step, under the lock of the table.  The
  hardware does not take that lock; `TableWalk` has the single writes of an
  update and what the CPUs that run the VM see of them.
* Interrupts and mailboxes wake vCPUs.  `VCpuScheduling` has both in abstract
  form (whether an interrupt is enabled and pending, the state of the mailbox),
  and their own modules have the detail.
* Every module but `LockOrder` uses the mutual exclusion that locks give;
  `LockOrder` is about nothing but the order in which they are taken.
* `System` composes `Boot` and `CpuPower`: the CPUs that the primary may start
  are those that the boot CPU has found in the device tree.

`PROJECT.json` maps definitions to lines of code, and lists components, hazards,
runs, theorems and findings.

## The modules

### Modes, MemorySharing and Ownership

`Modes` has the mode flags of `mm.rs` and their conversion to and from stage-2
attributes as the C code does it.  `MemorySharing` follows each call from table
update to table update.  `xfer[c]` and `conf[c]` are the call in progress on CPU
`c`, with a program counter; the locks of the VMs are held throughout, and the
stage-1 lock only within `clear_memory` and `configure_stage1`.  Every update
has a step for its failure, which runs the guards of the code.  `VmWrite` is a VM
writing to memory, so that who can see whose data is visible.

Entries are kept page by page.  In the code an entry of memory that is neither
valid nor owned may also become absent when tables are merged or replaced; both
forms stand for memory that is unrelated to the VM, and the transition tables
accept both.

`Ownership` is the abstract specification: an owner and a set of VMs with access
for each page, and one atomic step per successful call.  The mapping takes a page
of a call in progress as it was before the call, until the last update.

### PageTable and TableWalk

`PageTable` has a tree of tables as nested functions, of any depth, width and
number of root tables.  Operators named after the functions of `mm.rs`
(`map_level`, `populate_table`, `replace`, `defrag`, ...) return the new tree, the
pages left in the pool and success or failure; the actions are `new`, `drop`,
`identity_map`, `unmap` and `defrag`, and other users of the pool taking and
giving pages.  `View` is the flat mapping that the tree stands for.

`TableWalk` has one level of entries over one level of pages.  An update is the
sequence of its writes and invalidations.  A CPU that runs the VM walks the table
and caches what it finds at any time; an access that faults goes through
`vcpu_handle_page_fault`, which waits for the VM's lock and then looks again.
The TLB invalidations of a call that another VM makes carry the other VM's VMID
and miss this VM's entries.  Such a call only adds accesses (`Given`, the SPCI
and share transitions); `widened` are the pages it has added them to.

### MPool

The heap is a set of blocks, each on a list of one pool or in use.  Which of
several entries a list yields is left open.  A call is a step on its own pool
and, if that lacks the pages, a step on the fallback.

### VCpuScheduling

`pc[c]` is what CPU `c` does: running a guest, preparing a vCPU, entering it,
saving its registers, in a PSCI call.  `regs[u]` is the CPU whose registers hold
the context of vCPU `u`.  The scheduler's duties under the comments on
`HfVCpuRunReturn` (`abi.rs`) are two flags per vCPU: `due[u]`, it must call
`hf_vcpu_run`; `timed[u]`, it must when the timer fires.  With `Orderly` it runs
only vCPUs that are due, from one thread per vCPU; without, it may run anything
at any time.

### Interrupts and Mailbox

One step per operation under its lock; `mailbox_waiter_get` is two, since it
changes locks.  Some variables only record: `told`, `owed` and `asked`, what the
primary has been told and which VMs have asked to be notified; `passed`, that a
`CPU_SUSPEND` or an `hf_vcpu_run` that found the lock taken has gone past an
interrupt; `inbox`, the messages that were sent to a VM and not cleared by it.
`Interrupts` follows one vCPU through running, waiting, `CPU_OFF`, `CPU_ON`,
`CPU_SUSPEND` and abort.

### LockOrder

A call is the sequence of its lock operations, put together by operators that
follow the nesting of the guards in the code; where the code branches, there are
several sequences.  `todo[c]` is what is left of the call on CPU `c`.  A call of a
secondary runs with the execution lock of its vCPU held.  Two of them take a
second execution lock: `CPU_ON` waits for that of its target (`Starting`), and
`AFFINITY_INFO` only tries.

### Boot, Fdt, Manifest, BootParams and Cpio

`Fdt` has the parser of the device tree on sequences of tokens, which may be
malformed or cut; `Manifest` and `BootParams` read their data through it, `Cpio`
reads the archive in the ramdisk.  `Boot` is `one_time_init`, one step for each
thing that can fail.  Memory is a set of addresses, and for each address it is
known which byte of which file it holds.  The loader reads the archive in place,
through the hypervisor's table: once a kernel has been copied over a page of it,
the page is unmapped and the next look at it faults.  `pc = "undefined"` stands for
whatever follows when the hypervisor has written over its own image, past the
vCPUs of a VM (`push_unchecked` of a manifest's count) or over the tree that it
still has to patch; nothing is said of the machine from there on.

`find_initrd` gets the root node through a C structure, and the slice that is
rebuilt from it (`From<fdt_node>`) has the whole block's length from the root on.
`FromFdtNode` has what it may show behind a block that ends too early.

### CpuPower and System

`is_on` is the hypervisor's record of a CPU's power, `el3` the firmware's, `at[i]`
the step that CPU `i` has reached in `cpu_main`, in the primary or in a PSCI call.
The firmware is external: it refuses to start a CPU that is on and may fail to
start any.  `System` is `Boot` followed by `CpuPower` on the CPUs found.

## The runs

| Run | Instance | Properties |
|---|---|---|
| `memory_sharing` | 3 VMs, 2 CPUs, 6 pages, one of them the hypervisor's; contents of one page followed | `PagesConsistent`, `Isolation`, `OwnerAgreesWithBorrower`, `NoPageLost`: ownership and access fit together at every instant; `MailboxStaysMapped`, `NoStaleHypervisorMapping`: the hypervisor maps the buffers, and nothing else for longer than it needs; `GainedMemoryIsClear`; `ImplementsOwnership`: a call takes effect on all its pages at once, or on none |
| `vcpu_scheduling` | 2 CPUs, 1 VM of 2 vCPUs, all PSCI calls, any scheduler | `OneCpuPerVCpu`, `ContextIntact`, `AbortIsFinal` |
| `wake_up` | 2 CPUs, 2 VMs, interrupts, messages, timers, `CPU_OFF`, orderly scheduler | `NoLostWakeUp` |
| `delivery` | 2 CPUs, 1 VM of 2 vCPUs, interrupts, `CPU_OFF`, fair | `InterruptDelivered`, `AbortCompletes` |
| `cpu_on_returns` | 2 CPUs, 1 VM of 2 vCPUs, fair | `CpuOnReturns`, which is violated, see below |
| `interrupts` | 3 interrupts | `CountExact`; `NoSilentInterrupt`: an interrupt goes unannounced only after one of the two calls that pass over it |
| `page_pools` | 2 CPUs, 5 pages from page number 1, single pages and aligned pairs | `HeapIsPartitioned`, `RollbackStaysLocal` |
| `mailbox` | 3 VMs, as many as there are wait entries, 2 CPUs, fair | `WaitersAreOwed`, `NotForgotten`, `MessageKept`, `WaiterNotified` |
| `page_table` | 3 levels, 2 entries per table, 2 root tables, 4 pages, 3 attributes | `MappingIsExact`: updates set exactly their range, and queries answer for it; `PagesAccounted`: every page is free, in the tree, with others or lost, to the page; `CommitNeedsNoPages`, `RollbackNeedsNoPages` |
| `boot` | 3 CPUs, 20 pages of 8 bytes, device trees and archives good and bad, power calls after boot, fair | `ParserIsExact`, `BootFlowIsExact`: what is read is what the tree says, by a definition that does not use the parser; `MemoryIsDealtOnce`, `StartedVmsAreLoaded`: the primary shares no page, and under `PlainRanges` and `RoomToLoad` each page goes to one VM and every started VM has its files whole; `PrimaryReachesItsMemory`; `StartsAsAsked`, `PowerStateAgrees`, `CpuOnLoopEnds` |
| `locks` | 2 CPUs, 3 VMs, 2 vCPUs of one of them, 4 calls, fair | `LocksInOrder`, `CallsReturn`, with `CPU_ON` of a secondary as the one exception |
| `table_walk` | 2 CPUs in the VM and a third that changes its table, 2 entries of 2 pages, accesses to one page, 2 updates, fair | `OneValidTranslation`, `NoStaleTranslation`: no CPU ever keeps more than the table permits; `SpuriousFaultsResume`, `AccessCompletes` |

**Bounds.**  Two CPUs are enough for every race of two calls; three VMs are a
sender, a recipient and a third that must not be affected.  Regions of one and
two pages overlap, so that a call can meet pages of which only some are lent, and
buffers overlap with regions.  Two entries per table and three levels give blocks
at two levels and tables above them, and ranges that begin and end inside both
and cross from one root to the next.  A heap that starts at page 1 is not aligned
to a pair, so that chunks are split on either side.  Three interrupts let one be
enabled, one pending and one both.  Four calls let each CPU make a call while the
other is inside one, with an execution lock left by an earlier call.  Two updates
let the second begin from a table that the first has split or merged.  Three CPUs
at boot let a device tree leave one out.  The device trees at boot lie on both
sides of what the loader takes for granted.  `PlainRanges`: no range lies inside a
page (its size then wraps) and none overlap.  `RoomToLoad`: what the VMs ask for
fits above everything in use, in each range.  The trees that break them have a VM
that reaches the ramdisk, its own kernel file, the primary's kernel, the tree or
the image, a range inside a page, and overlapping ranges; one more has a VM with
more than `MAX_CPUS` vCPUs.  The bounds with names are `Events`,
`Psci`, `Access`, `Requests`, `Link`, `PoolPages`, `MaxOthers`, `MaxLength`,
`MaxCalls`, `MaxUpdates`, `Touched` and `Inputs`; no model has an unbounded
counter.  `memory_sharing` and `page_pools` use the symmetry of the CPUs, which
no action or property of the two models names; they check safety only.

**Deadlock** is checked in `wake_up`, `delivery`, `interrupts`, `page_pools` and
`page_table`.  It is not in `memory_sharing`, where nothing may be left that the
chosen regions allow, in `mailbox`, where a CPU that panics keeps its locks, in
`vcpu_scheduling` and `cpu_on_returns`, where vCPUs can wait for each other in
`CPU_ON` or have all ended, in `boot`, which ends or panics, and in `locks` and
`table_walk`, where the calls and updates are used up.

**Fairness.**  `delivery` assumes that the hypervisor's code goes on (weak fairness
of each CPU's steps in it), that physical interrupts keep arriving at a running
vCPU (the primary's tick), that an armed timer fires, and that the scheduler runs
a vCPU it must run even if the vCPU's lock is taken from time to time (strong
fairness; the contract in the comments of `abi.rs`).  For `CPU_ON` the lock is
granted to a waiting CPU if it becomes free again and again, which is more than
a spin lock promises; the call still does not return.  `mailbox` assumes of the
primary what `abi.rs` demands: after `NotifyWaiters` it calls
`hf_mailbox_waiter_get` until there are no waiters, and a call it has begun ends.
`boot` assumes that a CPU inside the hypervisor is not preempted and that the
firmware answers.  `locks` and `table_walk` assume that a CPU in the hypervisor
goes on, and that one that waits for a free lock gets it; weak fairness is enough
because the calls are finitely many, so that a lock is not taken again and again
by others.

### Where comments and code differ

`cpu_on_returns` has a property from a comment that TLC refutes:
`vcpu_secondary_reset_and_start` "Returns true if the secondary was reset and
started, or false if it was already on and so nothing was done" (`cpu.rs:579`).  It
waits (`cpu.rs:592`) for the lock of the target, which is held for as long as the
target runs: a vCPU that names itself, or two that name each other, wait for ever.

More differences show in the models and have no run of their own.  The properties
that meet them name them as exceptions, and say that there are no others.

* "vCPU is running or prepared to run on another pCPU" (`hypervisor.rs:247`): the
  lock may also be held for a moment by `AFFINITY_INFO` or `CPU_ON`.  The scheduler
  is then told to wait for a vCPU that is ready.
* The order of locks (`api.rs:28`) has no place for two execution locks.  `CPU_ON` of
  a secondary waits for a second one (`cpu.rs:592`).  `LocksInOrder` shows that it
  holds no other lock then, and `CallsReturn` that it delays no other call.
* "Don't block if there are enabled and pending interrupts, to match behaviour of
  wait_for_interrupt" (`cpu.rs:180`): `CPU_SUSPEND` (`psci_handler.c:329`) blocks
  without looking.  For this reason and the first one, `NoLostWakeUp` holds only
  without these three calls; `wake_up`, `delivery` and the theorem leave them out.
  `NoSilentInterrupt` has them, and says that nothing else passes over an interrupt.
* Wait entries (`vm.rs:438`): the array has `MAX_VMS` entries and is indexed by ids
  that start at 1, so that waiting for the last of `MAX_VMS` VMs panics.  `mailbox`
  includes that step (`SendPanics`).
* A valid entry that replaces a table: `drop` "Frees all page-table-related memory
  associated with the given pte" (`mm.rs:396`), but `replace` has by then overwritten
  the table's entry with an absent one (`mm.rs:420`), and nothing is freed.
  `PagesAccounted` counts the pages that are lost this way (`lost`), one for each
  table below the range that was mapped, and shows that no others are.
* Break-before-make is "to prevent cases where CPUs have different 'valid' values in
  their TLBs" (`mm.rs:407`), but the invalidation (`mm.c:312`) is for the current
  VMID, which is the caller's.  CPUs that run the other VM of a share may keep what
  they have.  `OneValidTranslation` leaves out the pages so `widened`;
  `NoStaleTranslation` shows that what is kept never permits too much.
* "Otherwise, this is a spurious fault" (`cpu.rs:626`): a vCPU whose TLB keeps such an
  entry faults and is resumed until the entry leaves the TLB.  `AccessCompletes`
  excepts it (`Outdated`).
* `defrag` replaces tables by "blocks or absent entries where possible"
  (`mm.rs:478`): a table with nothing but absent entries stays.
* `cpu_main` (`init.rs:221`) skips `cpu_init` for the boot CPU each time it starts,
  also when the primary has turned it off and on again.  `CpuPower` has it so.
* "Stop enumerating files when we hit the end marker" (`cpio.rs:62`): the name is
  compared with the marker and a newline, so that the marker is returned as a file
  of its own and files behind it are found.  `StartedVmsAreLoaded` speaks of the
  first file of a name in the whole archive.

## The proofs

The proofs hold for every value of the constants that the `ASSUME` of the module
allows: any VMs, CPUs, pages, regions, requests and interrupts.  The assumptions
give the constants their types and keep the special values (`NoCPU`, `Shared`,
...) apart from the others; `Mailbox` assumes no more VMs than `MAX_VMS`, which
`new_vm` ensures.

**MemorySharingInvariant, MemorySharingProofs.**  All eight properties of
`memory_sharing`, and types.  `PagesConsistent` speaks of completed calls and is
not inductive: in the middle of a call it must be known that the call will, or
can still, put things right.  `IInv` adds for each transfer that it holds both
locks, that the sender's entries are the new ones, and that the change it is
making is `Lawful`: from entries that fit together to entries that fit together.
For each configuration it adds which of its entries have been changed.  A step of
one CPU does not disturb the others because it changes only tables whose locks it
holds (`OthersUnaffected`).  The properties about every instant then follow from
`IInv`, since a call in progress has only taken access away.

* The hypervisor's own table needs two more invariants: `TakenPages`, no VM but
  its own has any claim to a buffer and none to the hypervisor's pages, so that
  no call can name them; and `Stage1Inv`, what is mapped is a buffer, the
  hypervisor's, or the work of the one CPU that holds the stage-1 lock.
* `GainedMemoryIsClear` rests on `ClearInv`: from the moment a region is cleared,
  only the recipient can write to it.
* `ImplementsOwnership`: a step is a stutter of `Ownership` unless it is the last
  update of a call (`Quiet`), and then it is the abstract call (`TransferRefines`,
  `ConfigureRefines`).  In between, the mapping hides the change of each page.
  `NamedBuffers` says that a configuration works on buffers that a VM may name.

**VCpuSchedulingProofs.**  `TypeOK`, `OneCpuPerVCpu`, `ContextIntact` and the
action property `AbortIsFinal`, under any scheduler and with every PSCI call.
`Inv` says that a CPU has the lock of a vCPU exactly while it runs it or is in a
call about it (`Locks`), where the registers of a vCPU are (`Context`), and that a
vCPU that has aborted is on its way out (`Alive`).  `NoLostWakeUp` is proved under
`Contract`: an orderly scheduler, and `CPU_OFF` as the only PSCI call.  It needs
that whatever makes a vCPU runnable is known to the scheduler as soon as the CPU
that runs the vCPU has decided to leave it (`Woken`), and not only when it has
left, and that a running vCPU sees its interrupts (`Signalled`).

**CpuPowerProofs.**  `StartsAsAsked` and `PowerStateAgrees`, for any CPUs and any
order of power calls.  `PowerInv` says that a CPU is started by one other at a
time, only if it is off or about to be, and which step goes with which power
state.  `boot` checks the same two properties with the boot before the calls; a
step of `System` is a step of `CpuPower` or leaves its variables alone.

**LockOrderProofs.**  `LocksInOrder`, and `NoDeadlock`: as long as some call other
than a `CPU_ON` that waits for its target is under way, one such call does not wait
for a lock that is taken.  `Runs(H, s, K)` says that the operations `s`, begun with
the locks `H` held, take every lock in order, release only what is held, and end
with `K`.  It is proved of every call by lemmas that follow the nesting of guards;
`Fits` is the same for what is left of a call, with the second execution lock of
`CPU_ON` and `AFFINITY_INFO`, and `LockInv` keeps it, with `H` what the CPU holds.
No CPUs then wait in a circle, because the lock that a CPU waits for is higher than
all it holds, and the CPUs in `CPU_ON` hold nothing that another call waits for but
an execution lock, for which none but `CPU_ON` waits.  A highest lock exists when
the ids of the VMs are bounded, which is the hypothesis of the theorem.

**InterruptsProofs.**  `TypeOK`, `CountExact`, `NoSilentInterrupt`.  They are
inductive together: the count tells whether there is an interrupt only while it
is exact.

**MPoolProofs.**  `TypeOK`, `HeapIsPartitioned`, `RollbackStaysLocal`, and
`NothingLeftBehind` (a dropped pool is empty).  Every operation cuts a block into
its parts (lemma `Cut`) or puts blocks on another list (`Relist`), and both keep the
partition.  `RollbackStaysLocal` needs in addition that a local pool has at least as
many free pages as its CPU has given it and not taken back (`Reserved`), and which
pools a call under way can be at (`OwnCall`).

**MailboxProofs.**  `TypeOK`, `WaitersAreOwed`, `NotForgotten`,
`MessageKept` (at most one message is in a mailbox, and it is still in the receive
page), and `LinkedOnce` (no entry is on two lists or twice on one).
Together they are inductive.  `LinkedOnce` rests on the tests before the two
appends, `WaitersAreOwed` on a mailbox becoming writable only in calls that tell
the primary (`BecomesWritable`).

### Only model-checked

* The liveness properties `InterruptDelivered`, `AbortCompletes`, `WaiterNotified`,
  `CpuOnLoopEnds`, `CallsReturn` and `AccessCompletes`: the prover does not handle
  fairness.  `NoDeadlock` is the part of `CallsReturn` that is a safety property.
* `PageTable`, and `Boot` with the modules that it uses: their operators are
  recursive, and what a recursive definition computes for every input is shown by
  induction over data, which the prover does not do.
* `TableWalk`: an update is a sequence made by concatenating the writes for each
  entry, and its properties need the same induction.

## Not modelled

* Caches of partial table walks, data caches and weak memory: a walk is one step,
  and a step sees the memory as it is.  TLBs are in `TableWalk` only.
* Stage-1 attribute bits.
* The hypercall entry points of `api.rs` and `handler.c` pass arguments on; which
  calls a VM can make is in `LockOrder`.
* PSCI calls without state: `VERSION`, `FEATURES`; of the primary also
  `AFFINITY_INFO`, and `SYSTEM_OFF` and `SYSTEM_RESET`, which end the machine.
* `MPool::new_from`, which nothing calls.
* In a device tree, byte order and alignment inside a token, and token numbers that
  do not exist.
* Logging, register layout, assembly start-up, the fake architecture of the unit
  tests.
* Contents of messages: only the sender of what is in a receive page.
