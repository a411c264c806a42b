----------------------------- MODULE Interrupts -----------------------------
(***************************************************************************)
(* The virtual interrupts of one vCPU of a secondary VM (struct            *)
(* Interrupts), and what they are for: a vCPU that has stopped running is  *)
(* run again when an interrupt that it enabled becomes pending.            *)
(*                                                                         *)
(* enabled and pending are the two arrays of bits: bit intid % 32 of word  *)
(* intid / 32 is the element intid of a set.  Every operation runs under   *)
(* the lock on VCpu::interrupts, so it is one step.                        *)
(***************************************************************************)
EXTENDS Integers, FiniteSets

CONSTANTS
  NumIntIds,   \* HF_NUM_INTIDS
  TimerIntId   \* HF_VIRTUAL_TIMER_INTID

ASSUME InterruptsAssumption ==
  /\ NumIntIds \in Nat
  /\ TimerIntId \in 0 .. NumIntIds - 1

VARIABLES
  enabled,     \* Interrupts::enabled
  pending,     \* Interrupts::pending
  count,       \* Interrupts::enabled_and_pending_count
  vi,          \* the virtual interrupt bit of the vCPU
  state,       \* the vCPU is running, ready to, blocked, off or aborted
  told,        \* the scheduler has been told to run or kick the vCPU
  passed       \* an interrupt that can be taken has been passed over

vars == <<enabled, pending, count, vi, state, told, passed>>

IntId == 0 .. NumIntIds - 1

Init ==
  /\ enabled = {}
  /\ pending = {}
  /\ count = 0
  /\ vi = FALSE
  /\ state = "ready"
  /\ told = TRUE
  /\ passed = FALSE

\* The bits set in both words.
EnabledAndPending == enabled \cap pending

(***************************************************************************)
(* The operations of Interrupts.                                           *)
(***************************************************************************)

\* A mutant of Counts: an interrupt counts again while it is pending.
CountsAgain(intid) == intid \in enabled

\* An injected interrupt counts if it is enabled and was not pending.
Counts(intid) == intid \in enabled /\ intid \notin pending

\* inject makes the interrupt pending.
inject(intid) ==
  /\ pending' = pending \cup {intid}
  /\ count' = IF Counts(intid) THEN count + 1 ELSE count

\* A mutant of InjectOk: the count is looked at before it is incremented.
InjectOkEarly(intid) == Counts(intid) /\ count = 1

\* inject returns Ok only if the count has become one.
InjectOk(intid) == Counts(intid) /\ count + 1 = 1

enable(intid) ==
  /\ count' = IF intid \in pending \ enabled THEN count + 1 ELSE count
  /\ enabled' = enabled \cup {intid}

disable(intid) ==
  /\ count' = IF intid \in pending \cap enabled THEN count - 1 ELSE count
  /\ enabled' = enabled \ {intid}

is_interrupted == count > 0

\* get acknowledges the first interrupt, from the lowest word and bit, that
\* is enabled and pending, if there is one.
get ==
  \E intid \in EnabledAndPending :
    /\ \A other \in EnabledAndPending : intid <= other
    /\ pending' = pending \ {intid}
    /\ count' = count - 1

(***************************************************************************)
(* The calls that use them.                                                *)
(***************************************************************************)

\* The vCPU's calls return to it with its virtual interrupt bit up to date.
update_vi == vi' = (count' > 0) /\ passed' = FALSE

\* The scheduler is told to run or kick the vCPU.
Tell == told' = TRUE /\ passed' = FALSE

\* A step that does not look at the interrupts passes over those there are.
PassOver == passed' = (passed \/ is_interrupted)

\* Another CPU injects an interrupt into the vCPU.  The scheduler is told if
\* inject returns Ok: the primary's call returns 1, another vCPU's WakeUp.
Inject(intid) ==
  /\ inject(intid)
  /\ IF InjectOk(intid) THEN Tell ELSE UNCHANGED <<told, passed>>
  /\ UNCHANGED <<enabled, vi, state>>

\* The vCPU injects an interrupt into itself, and no one is told.
InjectSelf(intid) ==
  /\ state = "running"
  /\ inject(intid)
  /\ update_vi
  /\ UNCHANGED <<enabled, state, told>>

\* hf_interrupt_enable and hf_interrupt_get.
InterruptEnable(intid) ==
  /\ state = "running"
  /\ enable(intid) \/ disable(intid)
  /\ update_vi
  /\ UNCHANGED <<pending, state, told>>

InterruptGet ==
  /\ state = "running"
  /\ get
  /\ update_vi
  /\ UNCHANGED <<enabled, state, told>>

\* spci_msg_recv blocks unless interrupted.
MsgRecvBlocks ==
  /\ state = "running"
  /\ ~is_interrupted
  /\ state' = "blocked"
  /\ UNCHANGED <<enabled, pending, count, vi, told, passed>>

\* WFI traps, and blocks, unless the virtual interrupt bit is set.
Wfi ==
  /\ state = "running"
  /\ ~vi
  /\ state' = "blocked"
  /\ UNCHANGED <<enabled, pending, count, vi, told, passed>>

\* The vCPU is preempted or yields: the scheduler must run it again.
Preempt ==
  /\ state = "running"
  /\ state' = "ready"
  /\ Tell
  /\ UNCHANGED <<enabled, pending, count, vi>>

\* PSCI CPU_SUSPEND blocks the vCPU: api_wait_for_interrupt, without a look
\* at the interrupts.
CpuSuspend ==
  /\ state = "running"
  /\ state' = "blocked"
  /\ PassOver
  /\ UNCHANGED <<enabled, pending, count, vi, told>>

\* PSCI CPU_OFF, and the vCPU's VM aborting.
CpuOff ==
  /\ state = "running"
  /\ state' \in {"off", "aborted"}
  /\ UNCHANGED <<enabled, pending, count, vi, told, passed>>

\* Another vCPU starts it by CPU_ON, with fresh registers and its interrupts
\* as they were, and wake_up tells the scheduler.
CpuOn ==
  /\ state = "off"
  /\ state' = "ready"
  /\ vi' = FALSE
  /\ Tell
  /\ UNCHANGED <<enabled, pending, count>>

\* The scheduler calls hf_vcpu_run.  It runs a blocked vCPU if it has been
\* interrupted or its timer has expired (which makes an interrupt pending),
\* or if a message has arrived.
Run ==
  /\ told /\ state \in {"ready", "blocked"}
  /\ told' = FALSE
  /\ \E expired, message \in BOOLEAN :
       IF state = "ready" \/ is_interrupted \/ expired \/ message
         THEN /\ IF expired THEN inject(TimerIntId) ELSE UNCHANGED <<pending, count>>
              /\ state' = "running"
              /\ update_vi
         ELSE UNCHANGED <<pending, count, vi, state, passed>>
  /\ UNCHANGED enabled

\* It refuses a vCPU that is off or aborted, or whose VM is aborting.
RunRefused ==
  /\ told /\ state # "running"
  /\ told' = FALSE
  /\ state' \in IF state = "off" THEN {"off", "aborted"} ELSE {"aborted"}
  /\ UNCHANGED <<enabled, pending, count, vi, passed>>

\* It finds the execution lock taken and returns WaitForInterrupt: the vCPU
\* is running, or leaving its CPU, or AFFINITY_INFO or CPU_ON look at it.
RunLocked ==
  /\ told
  /\ told' = FALSE
  /\ PassOver
  /\ UNCHANGED <<enabled, pending, count, vi, state>>

\* A timer expires, a message arrives, or the scheduler has its own reasons.
Wake ==
  /\ Tell
  /\ UNCHANGED <<enabled, pending, count, vi, state>>

Next ==
  \/ \E intid \in IntId : Inject(intid) \/ InjectSelf(intid) \/ InterruptEnable(intid)
  \/ InterruptGet \/ MsgRecvBlocks \/ Wfi \/ Preempt \/ Run \/ Wake
  \/ CpuSuspend \/ CpuOff \/ CpuOn \/ RunRefused \/ RunLocked

Spec == Init /\ [][Next]_vars

(***************************************************************************)
(* Properties.                                                             *)
(***************************************************************************)

\* Every variable has its type; the u32 count stays between zero and the
\* number of interrupts, so that neither += 1 nor -= 1 wraps.
TypeOK ==
  /\ enabled \subseteq IntId
  /\ pending \subseteq IntId
  /\ count \in 0 .. NumIntIds
  /\ vi \in BOOLEAN
  /\ state \in {"running", "ready", "blocked", "off", "aborted"}
  /\ told \in BOOLEAN
  /\ passed \in BOOLEAN

\* enabled_and_pending_count is "the number of bits set in enabled & pending",
\* after any sequence of injections, acknowledgements and changes of mask.
CountExact == count = Cardinality(EnabledAndPending)

\* An interrupt of a vCPU that is on is enabled and pending, and neither has
\* the vCPU been signalled nor the scheduler been told to run or kick it.
Silent ==
  /\ EnabledAndPending # {}
  /\ state \in {"running", "ready", "blocked"}
  /\ ~told
  /\ ~(state = "running" /\ vi)

\* An interrupt is silent only after a call that passed over it, and only
\* until the vCPU is signalled or the scheduler told for another reason.  The
\* calls are CPU_SUSPEND, which blocks without looking (psci_handler.c:329), and
\* an hf_vcpu_run that finds the lock taken and has used up what the scheduler
\* was told (hypervisor.rs:247).  All others keep the promise of inject, that to
\* report the first interrupt is enough, in any order of injecting on one CPU
\* and looking, blocking, being run, stopped and started on another.
NoSilentInterrupt == Silent => passed
=============================================================================
