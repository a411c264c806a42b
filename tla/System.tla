------------------------------- MODULE System -------------------------------
(***************************************************************************)
(* A machine from reset on: the boot CPU runs one_time_init (Boot.tla),    *)
(* then the primary VM powers the CPUs that CpuManager::new found in the   *)
(* device tree up and down (CpuPower.tla).                                 *)
(***************************************************************************)
EXTENDS Boot, CpuPower

systemVars == <<vars, powerVars>>

SystemInit == Init /\ PowerInit

BootStep == Next /\ UNCHANGED powerVars

\* cpu_find knows only the CPUs that CpuManager::new set up.
lookup(i) == i \in DOMAIN cpus

CpuStep(i) ==
    /\ pc = "done" /\ input.psci
    /\ PowerStep(i)
    /\ lookup(at'[i].target)
    /\ UNCHANGED vars

SystemNext == BootStep \/ \E i \in CPU : CpuStep(i)

\* A CPU in the hypervisor is not preempted, and the firmware answers.
FairSystemSpec ==
    /\ SystemInit /\ [][SystemNext]_systemVars
    /\ \A i \in CPU : WF_systemVars(CpuStep(i) /\ Continue(i))
=============================================================================
