--------------------------- MODULE VCpuScheduling ---------------------------
(***************************************************************************)
(* The life of the vCPUs of the secondary VMs: how a physical CPU switches *)
(* from the primary VM to a secondary vCPU and back, and the calls that    *)
(* change the state of a vCPU (vcpu_run, the returns to the primary, PSCI  *)
(* CPU_ON, CPU_OFF, CPU_SUSPEND and AFFINITY_INFO, interrupt injection,    *)
(* the blocking receive, abort).                                           *)
(*                                                                         *)
(* The lock on VCpu::inner is the execution lock: the CPU that runs a vCPU *)
(* holds it from vcpu_prepare_run until its registers have been saved.     *)
(*                                                                         *)
(* The scheduler is the primary VM's.  What it must do is the contract on  *)
(* HfVCpuRunReturn: due[u] says that it must call hf_vcpu_run on u, and    *)
(* timed[u] that it must do so when u's timer expires.                     *)
(***************************************************************************)
EXTENDS Naturals, FiniteSets

CONSTANTS
  CPU,       \* the physical CPUs; also stand for the primary's vCPUs
  VM,        \* the secondary VMs
  VCpu,      \* the vCPUs of the secondary VMs
  VmOf,      \* the VM of each vCPU
  Started,   \* the vCPUs that are on at first
  Psci,      \* the PSCI calls that the VMs make
  Events,    \* what may wake a vCPU: interrupts, messages, its timer
  Orderly,   \* whether the scheduler keeps to the contract
  NoCPU,     \* a free lock, a vCPU that has not run, registers in memory
  NoVCpu     \* no vCPU

PsciCalls == {"CPU_ON", "CPU_OFF", "CPU_SUSPEND", "AFFINITY_INFO"}

ASSUME SchedulingAssumption ==
  /\ NoCPU \notin CPU /\ NoVCpu \notin VCpu
  /\ CPU \cap VCpu = {}
  /\ VmOf \in [VCpu -> VM]
  /\ Started \subseteq VCpu
  /\ Psci \subseteq PsciCalls
  /\ Events \subseteq {"interrupt", "message", "timer"}
  /\ Orderly \in BOOLEAN

VARIABLES
  status,    \* status[u]: VCpuInner::state
  lock,      \* lock[u]: the CPU that holds VCpu::inner
  cpu,       \* cpu[u]: VCpuInner::cpu
  regs,      \* regs[u]: the CPU whose registers hold u's context, or NoCPU
  aborting,  \* aborting[v]: Vm::aborting
  current,   \* current[c]: the vCPU in tpidr_el2 of c, c itself for the primary's
  pc,        \* pc[c]: what CPU c is doing
  target,    \* target[c]: the vCPU that the call on c is about
  pending,   \* pending[u]: Interrupts::is_interrupted
  vi,        \* vi[u]: the virtual interrupt bit of u
  timer,     \* timer[u]: u's virtual timer: off (or masked), armed, fired
  mail,      \* mail[v]: the state of VM v's mailbox
  due,       \* due[u]: the scheduler must run u
  timed      \* timed[u]: the scheduler must run u when its timer fires

vars == <<status, lock, cpu, regs, aborting, current, pc, target, pending, vi, timer,
          mail, due, timed>>

Status == {"Off", "Ready", "BlockedMailbox", "BlockedInterrupt", "Aborted"}

VCpusOf(v) == {u \in VCpu : VmOf[u] = v}

\* Init: after load_secondary and the CPU_ON calls of the VMs' boot code.
Init ==
  /\ status = [u \in VCpu |-> IF u \in Started THEN "Ready" ELSE "Off"]
  /\ lock = [u \in VCpu |-> NoCPU]
  /\ cpu = [u \in VCpu |-> NoCPU]
  /\ regs = [u \in VCpu |-> NoCPU]
  /\ aborting = [v \in VM |-> FALSE]
  /\ current = [c \in CPU |-> c]
  /\ pc = [c \in CPU |-> "guest"]
  /\ target = [c \in CPU |-> NoVCpu]
  /\ pending = [u \in VCpu |-> FALSE]
  /\ vi = [u \in VCpu |-> FALSE]
  /\ timer = [u \in VCpu |-> "off"]
  /\ mail = [v \in VM |-> "Empty"]
  /\ due = [u \in VCpu |-> u \in Started]
  /\ timed = [u \in VCpu |-> FALSE]

InPrimary(c) == pc[c] = "guest" /\ current[c] \in CPU
InSecondary(c) == pc[c] = "guest" /\ current[c] \in VCpu

(***************************************************************************)
(* The scheduler's side of the contract on HfVCpuRunReturn.                *)
(***************************************************************************)

\* It is told to run the vCPUs in S.
Wake(S) == due' = [u \in VCpu |-> due[u] \/ u \in S]

\* It is told to wait for a wake-up of u, or for the given timer of u.
Wait(u, remaining) ==
  /\ due' = [due EXCEPT ![u] = @ \/ remaining = "fired"]
  /\ timed' = [timed EXCEPT ![u] = remaining = "armed"]

\* Some CPU has called hf_vcpu_run on u and not returned from it.
InCall(u) == \E c \in CPU : current[c] = u \/ (current[c] = c /\ target[c] = u)

(***************************************************************************)
(* vcpu_run.                                                               *)
(***************************************************************************)

\* A mutant of try_lock: a lock that does not look whether it is held.
try_lock_always(u) == TRUE

\* SpinLock::try_lock on VCpu::inner succeeds.
try_lock(u) == lock[u] = NoCPU

\* The primary on c calls hf_vcpu_run: try_lock on the vCPU.
TryLock(c, u) ==
  /\ InPrimary(c)
  /\ Orderly => due[u] /\ ~InCall(u)
  /\ try_lock(u)
  /\ lock' = [lock EXCEPT ![u] = c]
  /\ pc' = [pc EXCEPT ![c] = "prepare"]
  /\ target' = [target EXCEPT ![c] = u]
  /\ due' = [due EXCEPT ![u] = FALSE]
  /\ timed' = [timed EXCEPT ![u] = FALSE]
  /\ UNCHANGED <<status, cpu, regs, aborting, current, pending, vi, timer, mail>>

\* The lock is taken: the call returns WaitForInterrupt, indefinitely.
TryLockFails(c, u) ==
  /\ InPrimary(c)
  /\ Orderly => due[u] /\ ~InCall(u)
  /\ ~try_lock(u)
  /\ due' = [due EXCEPT ![u] = FALSE]
  /\ timed' = [timed EXCEPT ![u] = FALSE]
  /\ UNCHANGED <<status, lock, cpu, regs, aborting, current, pc, target, pending, vi,
                 timer, mail>>

\* A blocked vCPU has a reason to run.
MessageArrived(u) == status[u] = "BlockedMailbox" /\ mail[VmOf[u]] = "Received"
Interrupted(u) == pending[u] \/ timer[u] = "fired"
Runnable(u) ==
  \/ status[u] = "Ready"
  \/ MessageArrived(u)
  \/ status[u] \in {"BlockedMailbox", "BlockedInterrupt"} /\ Interrupted(u)

\* A mutant of PrepareRefuses: an aborting VM's vCPU is refused but not marked.
PrepareRefusesKeepsState(c) ==
  LET u == target[c] IN
  /\ pc[c] = "prepare"
  /\ aborting[VmOf[u]] \/ ~Runnable(u)
  /\ Wait(u, IF aborting[VmOf[u]] \/ status[u] \in {"Off", "Aborted"} THEN "off"
             ELSE timer[u])
  /\ lock' = [lock EXCEPT ![u] = NoCPU]
  /\ pc' = [pc EXCEPT ![c] = "guest"]
  /\ target' = [target EXCEPT ![c] = NoVCpu]
  /\ UNCHANGED <<status, cpu, regs, aborting, current, pending, vi, timer, mail>>

\* The rest of vcpu_prepare_run, when it decides not to run the vCPU.
PrepareRefuses(c) ==
  LET u == target[c] IN
  /\ pc[c] = "prepare"
  /\ aborting[VmOf[u]] \/ ~Runnable(u)
  /\ status' = [status EXCEPT ![u] = IF aborting[VmOf[u]] THEN "Aborted" ELSE @]
  /\ Wait(u, IF aborting[VmOf[u]] \/ status[u] \in {"Off", "Aborted"} THEN "off"
             ELSE timer[u])
  /\ lock' = [lock EXCEPT ![u] = NoCPU]
  /\ pc' = [pc EXCEPT ![c] = "guest"]
  /\ target' = [target EXCEPT ![c] = NoVCpu]
  /\ UNCHANGED <<cpu, regs, aborting, current, pending, vi, timer, mail>>

\* The rest of vcpu_prepare_run, when it decides to run the vCPU.
PrepareRuns(c) ==
  LET u == target[c] IN
  /\ pc[c] = "prepare"
  /\ ~aborting[VmOf[u]] /\ Runnable(u)
  /\ mail' = IF MessageArrived(u) THEN [mail EXCEPT ![VmOf[u]] = "Read"] ELSE mail
  /\ cpu' = [cpu EXCEPT ![u] = c]
  /\ pc' = [pc EXCEPT ![c] = "enter"]
  /\ UNCHANGED <<status, lock, regs, aborting, current, target, pending, vi, timer, due,
                 timed>>

\* A mutant of Enter: update_vi is left out.
EnterKeepsVi(c) ==
  LET u == target[c] IN
  /\ pc[c] = "enter"
  /\ \E enabled \in BOOLEAN :
       pending' = [pending EXCEPT ![u] = @ \/ (timer[u] = "fired" /\ enabled)]
  /\ timer' = [timer EXCEPT ![u] = IF @ = "fired" THEN "off" ELSE @]
  /\ regs' = [regs EXCEPT ![u] = c]
  /\ current' = [current EXCEPT ![c] = u]
  /\ pc' = [pc EXCEPT ![c] = "guest"]
  /\ target' = [target EXCEPT ![c] = NoVCpu]
  /\ UNCHANGED <<status, lock, cpu, aborting, vi, mail, due, timed>>

\* The rest of vcpu_run, update_vi and the switch to the vCPU.  An expired
\* timer is masked and its interrupt injected, which counts if it is enabled.
Enter(c) ==
  LET u == target[c] IN
  /\ pc[c] = "enter"
  /\ \E enabled \in BOOLEAN :
       pending' = [pending EXCEPT ![u] = @ \/ (timer[u] = "fired" /\ enabled)]
  /\ timer' = [timer EXCEPT ![u] = IF @ = "fired" THEN "off" ELSE @]
  /\ vi' = [vi EXCEPT ![u] = pending'[u]]
  /\ regs' = [regs EXCEPT ![u] = c]
  /\ current' = [current EXCEPT ![c] = u]
  /\ pc' = [pc EXCEPT ![c] = "guest"]
  /\ target' = [target EXCEPT ![c] = NoVCpu]
  /\ UNCHANGED <<status, lock, cpu, aborting, mail, due, timed>>

(***************************************************************************)
(* The returns to the primary.                                             *)
(***************************************************************************)

\* switch_to_primary, without the return value for the scheduler: the vCPU
\* on c gets its new state and c is about to leave it.
switch_to_primary(c, state) ==
  /\ status' = [status EXCEPT ![current[c]] = state]
  /\ pc' = [pc EXCEPT ![c] = "save"]

\* A mutant of SaveRegs: the vCPU's registers are not saved.
SaveRegsSkipped(c) ==
  /\ pc[c] = "save"
  /\ pc' = [pc EXCEPT ![c] = "saved"]
  /\ UNCHANGED <<status, lock, cpu, regs, aborting, current, target, pending, vi, timer,
                 mail, due, timed>>

\* vcpu_switch saves the registers of the vCPU.
SaveRegs(c) ==
  /\ pc[c] = "save"
  /\ regs' = [regs EXCEPT ![current[c]] = NoCPU]
  /\ pc' = [pc EXCEPT ![c] = "saved"]
  /\ UNCHANGED <<status, lock, cpu, aborting, current, target, pending, vi, timer, mail,
                 due, timed>>

\* api_regs_state_saved releases the vCPU, and c goes on with the primary's
\* vCPU that switch_to_primary chose.
RegsStateSaved(c) ==
  /\ pc[c] = "saved"
  /\ lock' = [lock EXCEPT ![current[c]] = NoCPU]
  /\ current' = [current EXCEPT ![c] = cpu[current[c]]]
  /\ pc' = [pc EXCEPT ![c] = "guest"]
  /\ UNCHANGED <<status, cpu, regs, aborting, target, pending, vi, timer, mail, due, timed>>

\* A return after which the vCPU is ready to go on: a physical interrupt
\* (irq_lower, preempt), spci_yield, a message to the primary, or
\* hf_vm_configure with waiters.
Preempt(c) ==
  /\ InSecondary(c)
  /\ switch_to_primary(c, "Ready")
  /\ Wake({current[c]})
  /\ UNCHANGED <<lock, cpu, regs, aborting, current, target, pending, vi, timer, mail, timed>>

\* wait_for_interrupt: the vCPU waits, with the time left on its timer.
wait_for_interrupt(c) ==
  /\ switch_to_primary(c, "BlockedInterrupt")
  /\ Wait(current[c], timer[current[c]])
  /\ UNCHANGED <<lock, cpu, regs, aborting, current, target, pending, vi, timer, mail>>

\* The vCPU executes WFI, which traps unless a virtual interrupt is pending.
Wfi(c) ==
  /\ InSecondary(c)
  /\ ~vi[current[c]]
  /\ wait_for_interrupt(c)

\* PSCI CPU_SUSPEND is downgraded to WFI.
CpuSuspend(c) ==
  /\ InSecondary(c)
  /\ "CPU_SUSPEND" \in Psci
  /\ wait_for_interrupt(c)

\* PSCI CPU_OFF (vcpu_off): the timer is disabled.
CpuOff(c) ==
  /\ InSecondary(c)
  /\ "CPU_OFF" \in Psci
  /\ switch_to_primary(c, "Off")
  /\ timer' = [timer EXCEPT ![current[c]] = "off"]
  /\ Wait(current[c], "off")
  /\ UNCHANGED <<lock, cpu, regs, aborting, current, target, pending, vi, mail>>

\* abort: the scheduler must wake the other vCPUs of the VM.
Abort(c) ==
  LET u == current[c] IN
  /\ InSecondary(c)
  /\ aborting' = [aborting EXCEPT ![VmOf[u]] = TRUE]
  /\ switch_to_primary(c, "Aborted")
  /\ Wake(VCpusOf(VmOf[u]) \ {u})
  /\ UNCHANGED <<lock, cpu, regs, current, target, pending, vi, timer, mail, timed>>

(***************************************************************************)
(* PSCI CPU_ON and AFFINITY_INFO.                                          *)
(***************************************************************************)

\* CPU_ON starts to wait for the lock of the vCPU it is about.
CpuOn(c, u) ==
  /\ InSecondary(c)
  /\ "CPU_ON" \in Psci
  /\ VmOf[u] = VmOf[current[c]]
  /\ pc' = [pc EXCEPT ![c] = "on"]
  /\ target' = [target EXCEPT ![c] = u]
  /\ UNCHANGED <<status, lock, cpu, regs, aborting, current, pending, vi, timer, mail,
                 due, timed>>

CpuOnLock(c) ==
  /\ pc[c] = "on"
  /\ try_lock(target[c])
  /\ lock' = [lock EXCEPT ![target[c]] = c]
  /\ pc' = [pc EXCEPT ![c] = "reset"]
  /\ UNCHANGED <<status, cpu, regs, aborting, current, target, pending, vi, timer, mail,
                 due, timed>>

\* A mutant of CpuOnStarts: an aborted vCPU counts as off.
CpuOnStartsAborted(c) ==
  LET u == target[c] IN
  /\ pc[c] = "reset"
  /\ status[u] \in {"Off", "Aborted"}
  /\ status' = [status EXCEPT ![u] = "Ready", ![current[c]] = "Ready"]
  /\ pc' = [pc EXCEPT ![c] = "save"]
  /\ timer' = [timer EXCEPT ![u] = "off"]
  /\ lock' = [lock EXCEPT ![u] = NoCPU]
  /\ Wake({u, current[c]})
  /\ target' = [target EXCEPT ![c] = NoVCpu]
  /\ UNCHANGED <<cpu, regs, aborting, current, pending, vi, mail, timed>>

\* vcpu_secondary_reset_and_start finds the vCPU off: it is reset and made
\* ready, and wake_up tells the scheduler to run it.
CpuOnStarts(c) ==
  LET u == target[c] IN
  /\ pc[c] = "reset"
  /\ status[u] = "Off"
  /\ status' = [status EXCEPT ![u] = "Ready", ![current[c]] = "Ready"]
  /\ pc' = [pc EXCEPT ![c] = "save"]
  /\ timer' = [timer EXCEPT ![u] = "off"]
  /\ lock' = [lock EXCEPT ![u] = NoCPU]
  /\ Wake({u, current[c]})
  /\ target' = [target EXCEPT ![c] = NoVCpu]
  /\ UNCHANGED <<cpu, regs, aborting, current, pending, vi, mail, timed>>

\* The call is done with the vCPU it is about, and returns to its caller.
Release(c) ==
  /\ lock' = [lock EXCEPT ![target[c]] = NoCPU]
  /\ pc' = [pc EXCEPT ![c] = "guest"]
  /\ target' = [target EXCEPT ![c] = NoVCpu]
  /\ UNCHANGED <<status, cpu, regs, aborting, current, pending, vi, timer, mail, due, timed>>

\* It finds it on: ALREADY_ON.
CpuOnAlreadyOn(c) ==
  /\ pc[c] = "reset"
  /\ status[target[c]] # "Off"
  /\ Release(c)

\* AFFINITY_INFO looks at the state of the vCPU if it can lock it.
AffinityInfo(c, u) ==
  /\ InSecondary(c)
  /\ "AFFINITY_INFO" \in Psci
  /\ VmOf[u] = VmOf[current[c]]
  /\ try_lock(u)
  /\ lock' = [lock EXCEPT ![u] = c]
  /\ pc' = [pc EXCEPT ![c] = "affinity"]
  /\ target' = [target EXCEPT ![c] = u]
  /\ UNCHANGED <<status, cpu, regs, aborting, current, pending, vi, timer, mail, due, timed>>

AffinityInfoDone(c) ==
  /\ pc[c] = "affinity"
  /\ Release(c)

(***************************************************************************)
(* Interrupts, messages and timers.                                        *)
(***************************************************************************)

\* Interrupts::inject of an interrupt that counts only if it is enabled and
\* was not pending; first says that none was enabled and pending before.
inject(u, counts) == pending' = [pending EXCEPT ![u] = @ \/ counts]
first(u, counts) == counts /\ ~pending[u]

\* The primary injects an interrupt: 1 tells it to wake up or kick the vCPU.
PrimaryInjects(c, u) ==
  /\ InPrimary(c)
  /\ "interrupt" \in Events
  /\ \E counts \in BOOLEAN :
       /\ inject(u, counts)
       /\ Wake(IF first(u, counts) THEN {u} ELSE {})
  /\ UNCHANGED <<status, lock, cpu, regs, aborting, current, pc, target, vi, timer, mail,
                 timed>>

\* A vCPU injects an interrupt into another vCPU of its VM, which needs to be
\* woken up: WakeUp.
InjectWakes(c, u) ==
  /\ InSecondary(c)
  /\ "interrupt" \in Events
  /\ u # current[c] /\ VmOf[u] = VmOf[current[c]]
  /\ first(u, TRUE)
  /\ inject(u, TRUE)
  /\ switch_to_primary(c, "Ready")
  /\ Wake({u, current[c]})
  /\ UNCHANGED <<lock, cpu, regs, aborting, current, target, vi, timer, mail, timed>>

\* It injects an interrupt into itself, which needs no wake-up, or gets and
\* acknowledges its next one, or enables or disables one; update_vi.
OwnInterrupts(c) ==
  /\ InSecondary(c)
  /\ "interrupt" \in Events
  /\ \E p \in BOOLEAN : pending' = [pending EXCEPT ![current[c]] = p]
  /\ vi' = [vi EXCEPT ![current[c]] = pending'[current[c]]]
  /\ UNCHANGED <<status, lock, cpu, regs, aborting, current, pc, target, timer, mail, due,
                 timed>>

\* A message is delivered to VM v, by the primary, or by a vCPU of another
\* VM, which returns Message to the primary.
MessageFromPrimary(c, v) ==
  /\ InPrimary(c)
  /\ "message" \in Events
  /\ mail[v] = "Empty"
  /\ mail' = [mail EXCEPT ![v] = "Received"]
  /\ Wake(VCpusOf(v))
  /\ UNCHANGED <<status, lock, cpu, regs, aborting, current, pc, target, pending, vi,
                 timer, timed>>

MessageFromVCpu(c, v) ==
  /\ InSecondary(c)
  /\ "message" \in Events
  /\ VmOf[current[c]] # v
  /\ mail[v] = "Empty"
  /\ mail' = [mail EXCEPT ![v] = "Received"]
  /\ switch_to_primary(c, "Ready")
  /\ Wake(VCpusOf(v) \cup {current[c]})
  /\ UNCHANGED <<lock, cpu, regs, aborting, current, target, pending, vi, timer, timed>>

\* spci_msg_recv: a message is there, or the vCPU blocks unless interrupted.
MsgRecvReads(c) ==
  LET v == VmOf[current[c]] IN
  /\ InSecondary(c)
  /\ mail[v] = "Received"
  /\ mail' = [mail EXCEPT ![v] = "Read"]
  /\ vi' = [vi EXCEPT ![current[c]] = pending[current[c]]]
  /\ UNCHANGED <<status, lock, cpu, regs, aborting, current, pc, target, pending, timer,
                 due, timed>>

\* A mutant of MsgRecvBlocks: blocks without looking at the interrupts.
MsgRecvBlocksUnchecked(c) ==
  /\ InSecondary(c)
  /\ mail[VmOf[current[c]]] # "Received"
  /\ switch_to_primary(c, "BlockedMailbox")
  /\ Wait(current[c], timer[current[c]])
  /\ UNCHANGED <<lock, cpu, regs, aborting, current, target, pending, vi, timer, mail>>

MsgRecvBlocks(c) ==
  /\ InSecondary(c)
  /\ mail[VmOf[current[c]]] # "Received"
  /\ ~pending[current[c]]
  /\ switch_to_primary(c, "BlockedMailbox")
  /\ Wait(current[c], timer[current[c]])
  /\ UNCHANGED <<lock, cpu, regs, aborting, current, target, pending, vi, timer, mail>>

\* mailbox_clear, without and with waiters (waiter_result).
MailboxClear(c) ==
  LET v == VmOf[current[c]] IN
  /\ InSecondary(c)
  /\ mail[v] = "Read"
  /\ mail' = [mail EXCEPT ![v] = "Empty"]
  /\ vi' = [vi EXCEPT ![current[c]] = pending[current[c]]]
  /\ UNCHANGED <<status, lock, cpu, regs, aborting, current, pc, target, pending, timer,
                 due, timed>>

MailboxClearNotifies(c) ==
  LET v == VmOf[current[c]] IN
  /\ InSecondary(c)
  /\ mail[v] = "Read"
  /\ mail' = [mail EXCEPT ![v] = "Empty"]
  /\ switch_to_primary(c, "Ready")
  /\ Wake({current[c]})
  /\ UNCHANGED <<lock, cpu, regs, aborting, current, target, pending, vi, timer, timed>>

\* The vCPU sets its timer or turns it off.
SetTimer(c) ==
  /\ InSecondary(c)
  /\ "timer" \in Events
  /\ \E t \in {"off", "armed"} : timer' = [timer EXCEPT ![current[c]] = t]
  /\ UNCHANGED <<status, lock, cpu, regs, aborting, current, pc, target, pending, vi, mail,
                 due, timed>>

\* Time passes, and the scheduler runs a vCPU whose timer it waits for.
TimerFires(u) ==
  /\ timer[u] = "armed"
  /\ timer' = [timer EXCEPT ![u] = "fired"]
  /\ due' = [due EXCEPT ![u] = @ \/ timed[u]]
  /\ UNCHANGED <<status, lock, cpu, regs, aborting, current, pc, target, pending, vi, mail,
                 timed>>

\* The steps that CPU c takes by itself once it has started them.
Hypervisor(c) ==
  \/ PrepareRefuses(c) \/ PrepareRuns(c) \/ Enter(c)
  \/ SaveRegs(c) \/ RegsStateSaved(c)
  \/ CpuOnLock(c) \/ CpuOnStarts(c) \/ CpuOnAlreadyOn(c) \/ AffinityInfoDone(c)

Guest(c) ==
  \/ Preempt(c) \/ Wfi(c) \/ CpuSuspend(c) \/ CpuOff(c) \/ Abort(c)
  \/ OwnInterrupts(c) \/ MsgRecvReads(c) \/ MsgRecvBlocks(c) \/ MailboxClear(c)
  \/ MailboxClearNotifies(c) \/ SetTimer(c)
  \/ \E u \in VCpu : CpuOn(c, u) \/ AffinityInfo(c, u) \/ InjectWakes(c, u)
  \/ \E v \in VM : MessageFromVCpu(c, v)

Run(u) == \E c \in CPU : TryLock(c, u) \/ TryLockFails(c, u)

Next ==
  \/ \E c \in CPU : Hypervisor(c) \/ Guest(c)
  \/ \E u \in VCpu : Run(u) \/ TimerFires(u)
  \/ \E c \in CPU, u \in VCpu : PrimaryInjects(c, u)
  \/ \E c \in CPU, v \in VM : MessageFromPrimary(c, v)

Spec == Init /\ [][Next]_vars

\* The hypervisor's code makes progress, physical interrupts keep arriving,
\* and the scheduler runs the vCPUs it must run.
Fairness ==
  /\ \A c \in CPU : WF_vars(Hypervisor(c)) /\ WF_vars(Preempt(c))
  /\ \A c \in CPU : SF_vars(CpuOnLock(c))
  /\ \A u \in VCpu : SF_vars(Run(u)) /\ WF_vars(TimerFires(u))

FairSpec == Spec /\ Fairness

(***************************************************************************)
(* Properties.                                                             *)
(***************************************************************************)

\* Every variable has its type.
TypeOK ==
  /\ status \in [VCpu -> Status]
  /\ lock \in [VCpu -> CPU \cup {NoCPU}]
  /\ cpu \in [VCpu -> CPU \cup {NoCPU}]
  /\ regs \in [VCpu -> CPU \cup {NoCPU}]
  /\ aborting \in [VM -> BOOLEAN]
  /\ current \in [CPU -> CPU \cup VCpu]
  /\ pc \in [CPU -> {"guest", "prepare", "enter", "save", "saved", "on", "reset",
                     "affinity"}]
  /\ target \in [CPU -> VCpu \cup {NoVCpu}]
  /\ pending \in [VCpu -> BOOLEAN]
  /\ vi \in [VCpu -> BOOLEAN]
  /\ timer \in [VCpu -> {"off", "armed", "fired"}]
  /\ mail \in [VM -> {"Empty", "Received", "Read"}]
  /\ due \in [VCpu -> BOOLEAN]
  /\ timed \in [VCpu -> BOOLEAN]

\* No vCPU, of the primary or of a secondary VM, is on two CPUs at a time,
\* and a CPU always returns to its own vCPU of the primary ("the currently
\* running pCPU implicitly owns `next`").
OneCpuPerVCpu ==
  /\ \A c, d \in CPU : current[c] = current[d] => c = d
  /\ \A c \in CPU : current[c] \in CPU => current[c] = c
  /\ \A c \in CPU : current[c] \in VCpu => lock[current[c]] = c

\* A vCPU is started, reset or looked at only when its registers have been
\* saved, and they are on the CPU that runs it until that CPU saves them.
ContextIntact ==
  /\ \A c \in CPU : current[c] \in VCpu /\ pc[c] # "saved" => regs[current[c]] = c
  /\ \A c \in CPU : pc[c] \in {"prepare", "enter", "reset", "affinity"}
                      => regs[target[c]] = NoCPU

\* A vCPU that has aborted never runs again and never leaves that state.
AbortIsFinal ==
  [][\A u \in VCpu : status[u] = "Aborted" =>
       /\ status'[u] = "Aborted"
       /\ \A c \in CPU : current'[c] = u => current[c] = u]_vars

\* A vCPU that could run is running, or the scheduler has been told to run
\* it: no wake-up is lost between an injection, a message or a timer on one
\* CPU and the vCPU blocking or being refused on another.
NoLostWakeUp ==
  \A u \in VCpu :
    lock[u] = NoCPU /\ Runnable(u) /\ ~aborting[VmOf[u]] => due[u]

\* An interrupt that is enabled and pending is eventually signalled to its
\* vCPU, which must not have been switched off or be aborting.
InterruptDelivered ==
  \A u \in VCpu :
    pending[u] ~> \/ ~pending[u]
                  \/ vi[u] /\ \E c \in CPU : current[c] = u
                  \/ status[u] = "Off"
                  \/ aborting[VmOf[u]]

\* Once a vCPU of a VM aborts, all of them do.
AbortCompletes ==
  \A v \in VM : aborting[v] ~> \A u \in VCpusOf(v) : status[u] = "Aborted"

(***************************************************************************)
(* What comments in the code say, and the code does not keep to.           *)
(***************************************************************************)

\* "Returns true if the secondary was reset and started, or false if it was
\* already on and so nothing was done": vcpu_secondary_reset_and_start
\* returns.
CpuOnReturns == \A c \in CPU : pc[c] = "on" ~> pc[c] # "on"
=============================================================================
