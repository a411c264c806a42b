------------------------------ MODULE CpuPower ------------------------------
(***************************************************************************)
(* The CPUs after boot: the primary VM turns them on and off and suspends  *)
(* them through psci_primary_vm_handler.  A CPU's power is known twice, to *)
(* the hypervisor (is_on, under its lock) and to the firmware at EL3, and  *)
(* the two are changed one after the other: CPU_OFF clears is_on and then  *)
(* asks the firmware; CPU_ON sets is_on, fills in the registers of the     *)
(* primary's vCPU and then asks the firmware until it stops answering that *)
(* the CPU is on.  What is done under a CPU's is_on lock is one step.      *)
(*                                                                         *)
(* The firmware is external.  It refuses to start a CPU that is on, may    *)
(* fail to start any CPU, and enters cpu_entry with the MMU off.  It does  *)
(* not refuse CPU_OFF (the code panics if it does).  AFFINITY_INFO only    *)
(* reads is_on, and a CPU_ON for an id that cpu_find does not know changes *)
(* nothing.                                                                *)
(***************************************************************************)
EXTENDS Naturals, FiniteSets

CONSTANTS CPU,     \* the CPUs
          First,   \* the one that boots
          Start,   \* where the primary begins on it
          Entry,   \* the entry points the primary passes to PSCI
          NoEntry

ASSUME PowerAssumption == First \in CPU /\ NoEntry \notin Entry

VARIABLES is_on,   \* Cpu::is_on
          el3,     \* "on" or "off": a CPU's power as the firmware has it
          regs,    \* regs.pc of the primary's vCPU of each CPU
          mmu,     \* whether the CPU's MMU is set up
          at       \* where the CPU is: its step, and the call it makes

powerVars == <<is_on, el3, regs, mmu, at>>

At(step, target, entry) == [step |-> step, target |-> target, entry |-> entry]

InGuest(i) == At("guest", i, NoEntry)

\* one_time_init is done and the boot CPU is in cpu_entry.
PowerInit ==
    /\ is_on = [i \in CPU |-> i = First]
    /\ el3 = [i \in CPU |-> IF i = First THEN "on" ELSE "off"]
    /\ regs = [i \in CPU |-> IF i = First THEN Start ELSE NoEntry]
    /\ mmu = [i \in CPU |-> i = First]
    /\ at = [i \in CPU |-> IF i = First THEN At("entry", i, Start) ELSE At("off", i, NoEntry)]

-----------------------------------------------------------------------------
(* cpu.rs and cpu_main.                                                    *)

\* A mistake in cpu_on: the vCPU is set up whether or not the CPU was on.
cpu_onSetsAnyway(j, entry) ==
    /\ is_on' = [is_on EXCEPT ![j] = TRUE]
    /\ regs' = [regs EXCEPT ![j] = entry]

\* cpu_on: what the call changes; it returns whether the CPU was on.
cpu_on(j, entry) ==
    /\ is_on' = [is_on EXCEPT ![j] = TRUE]
    /\ regs' = IF is_on[j] THEN regs ELSE [regs EXCEPT ![j] = entry]

cpu_off(j) == is_on' = [is_on EXCEPT ![j] = FALSE]

\* cpu_main: cpu_init, but for the CPU with index 0, whose cpu_init was in
\* one_time_init; regs.reset keeps the pc, at which the vCPU then runs.
cpu_main(i) ==
    /\ at[i].step = "entry"
    /\ mmu' = [mmu EXCEPT ![i] = @ \/ i # First]
    /\ at' = [at EXCEPT ![i] = InGuest(i)]
    /\ UNCHANGED <<is_on, el3, regs>>

-----------------------------------------------------------------------------
(* psci_primary_vm_handler.                                                *)

\* A mistake in PSCI_CPU_ON: what cpu_on returns is not looked at.
CpuOnUnchecked(i, j, entry) ==
    /\ at[i].step = "guest"
    /\ cpu_on(j, entry)
    /\ at' = [at EXCEPT ![i] = At("smc_on", j, entry)]
    /\ UNCHANGED <<el3, mmu>>

\* PSCI_CPU_ON up to the SMC; ALREADY_ON if the CPU is on.
CpuOn(i, j, entry) ==
    /\ at[i].step = "guest"
    /\ cpu_on(j, entry)
    /\ at' = IF is_on[j] THEN at ELSE [at EXCEPT ![i] = At("smc_on", j, entry)]
    /\ UNCHANGED <<el3, mmu>>

\* The loop of PSCI_CPU_ON ends: the firmware no longer answers ALREADY_ON.
SmcCpuOn(i) ==
    LET j == at[i].target
    IN  /\ at[i].step = "smc_on"
        /\ el3[j] = "off"
        /\ el3' = [el3 EXCEPT ![j] = "on"]
        /\ mmu' = [mmu EXCEPT ![j] = FALSE]
        /\ at' = [at EXCEPT ![i] = InGuest(i), ![j] = At("entry", j, at[i].entry)]
        /\ UNCHANGED <<is_on, regs>>

\* It ends with another error.
SmcCpuOnFails(i) ==
    /\ at[i].step = "smc_on"
    /\ at' = [at EXCEPT ![i].step = "failed"]
    /\ UNCHANGED <<is_on, el3, regs, mmu>>

\* A mistake in PSCI_CPU_ON: the CPU that could not be started stays on.
CpuOnFailedStaysOn(i) ==
    /\ at[i].step = "failed"
    /\ at' = [at EXCEPT ![i] = InGuest(i)]
    /\ UNCHANGED <<is_on, el3, regs, mmu>>

CpuOnFailed(i) ==
    /\ at[i].step = "failed"
    /\ cpu_off(at[i].target)
    /\ at' = [at EXCEPT ![i] = InGuest(i)]
    /\ UNCHANGED <<el3, regs, mmu>>

CpuOff(i) ==
    /\ at[i].step = "guest"
    /\ cpu_off(i)
    /\ at' = [at EXCEPT ![i] = At("smc_off", i, NoEntry)]
    /\ UNCHANGED <<el3, regs, mmu>>

SmcCpuOff(i) ==
    /\ at[i].step = "smc_off"
    /\ el3' = [el3 EXCEPT ![i] = "off"]
    /\ at' = [at EXCEPT ![i] = At("off", i, NoEntry)]
    /\ UNCHANGED <<is_on, regs, mmu>>

CpuSuspend(i, entry) ==
    /\ at[i].step = "guest"
    /\ regs' = [regs EXCEPT ![i] = entry]
    /\ at' = [at EXCEPT ![i] = At("smc_suspend", i, entry)]
    /\ UNCHANGED <<is_on, el3, mmu>>

\* A standby state or a failure: the SMC returns to the handler.
SuspendReturns(i) ==
    /\ at[i].step = "smc_suspend"
    /\ at' = [at EXCEPT ![i] = InGuest(i)]
    /\ UNCHANGED <<is_on, el3, regs, mmu>>

\* A power-down state: the CPU wakes up at cpu_entry.
SuspendWakes(i) ==
    /\ at[i].step = "smc_suspend"
    /\ mmu' = [mmu EXCEPT ![i] = FALSE]
    /\ at' = [at EXCEPT ![i].step = "entry"]
    /\ UNCHANGED <<is_on, el3, regs>>

\* What a CPU does by itself once it is in the hypervisor.
Continue(i) == cpu_main(i) \/ SmcCpuOn(i) \/ CpuOnFailed(i) \/ SmcCpuOff(i)

PowerStep(i) ==
    \/ Continue(i)
    \/ \E j \in CPU, entry \in Entry : CpuOn(i, j, entry)
    \/ SmcCpuOnFails(i)
    \/ CpuOff(i)
    \/ \E entry \in Entry : CpuSuspend(i, entry)
    \/ SuspendReturns(i) \/ SuspendWakes(i)

PowerNext == \E i \in CPU : PowerStep(i)

PowerSpec == PowerInit /\ [][PowerNext]_powerVars

-----------------------------------------------------------------------------
(* Properties.                                                             *)

\* From the time CPU_ON finds a CPU off (or CPU_SUSPEND is called) until the
\* CPU enters the primary, the vCPU's pc is the one that call passed, whatever
\* CPU_ON, CPU_OFF and CPU_SUSPEND calls other CPUs make in the meantime; and
\* a CPU other than the boot CPU has its MMU set up when it enters.  (cpu_main
\* never sets up the MMU of the CPU with index 0, also if it is started again.)
StartsAsAsked ==
    \A i \in CPU :
        /\ at[i].step \in {"smc_on", "entry", "smc_suspend"} =>
              regs[at[i].target] = at[i].entry
        /\ i # First /\ at[i].step \notin {"off", "entry"} => mmu[i]

\* The CPUs whose CPU_ON call found j off and has not returned.
Starting(j) == {i \in CPU : at[i].step \in {"smc_on", "failed"} /\ at[i].target = j}

\* is_on, which CPU_ON and AFFINITY_INFO answer from, differs from what the
\* firmware knows only while a call is about to make them equal: CPU_OFF on
\* the CPU itself, or one CPU_ON, never two, that found the CPU off.
PowerStateAgrees ==
    \A j \in CPU :
        /\ \A i, k \in Starting(j) : i = k
        /\ Starting(j) # {} => is_on[j]
        /\ is_on[j] /\ el3[j] = "off" => Starting(j) # {}
        /\ ~is_on[j] /\ el3[j] = "on" => at[j].step = "smc_off"

\* The loop of PSCI_CPU_ON ends: "We need to loop here while it is reported
\* that the CPU is on (because it's about to turn itself off)".
CpuOnLoopEnds ==
    \A i \in CPU : at[i].step = "smc_on" ~> at[i].step # "smc_on"
=============================================================================
