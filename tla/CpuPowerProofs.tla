---------------------------- MODULE CpuPowerProofs ----------------------------
(***************************************************************************)
(* Proofs about CpuPower.tla, for any CPUs and entry points: is_on and the *)
(* firmware agree but for calls under way, and a CPU starts where the call *)
(* that started it asked for.                                              *)
(***************************************************************************)
EXTENDS CpuPower, TLAPS

AnyEntry == Entry \cup {Start, NoEntry}
Steps == {"off", "entry", "guest", "smc_on", "failed", "smc_off", "smc_suspend"}

PowerTypeOK ==
    /\ is_on \in [CPU -> BOOLEAN]
    /\ el3 \in [CPU -> {"on", "off"}]
    /\ regs \in [CPU -> AnyEntry]
    /\ mmu \in [CPU -> BOOLEAN]
    /\ at \in [CPU -> [step : Steps, target : CPU, entry : AnyEntry]]

\* i's CPU_ON call found j off and has not returned.
Starts(i, j) == at[i].step \in {"smc_on", "failed"} /\ at[i].target = j

\* Where a CPU is, is_on and the firmware's state belong together.
Running(j) ==
    /\ el3[j] = "off" <=> at[j].step = "off"
    /\ at[j].step \notin {"off", "smc_off"} => is_on[j]
    /\ at[j].step \in {"off", "smc_off"} /\ is_on[j] => \E i \in CPU : Starts(i, j)
    /\ at[j].step \notin {"smc_on", "failed"} => at[j].target = j

\* Only a CPU that is off, or is about to be, is being started, by one other.
Started(i) ==
    \A j \in CPU : Starts(i, j) =>
        /\ is_on[j]
        /\ at[j].step \in {"off", "smc_off"}
        /\ \A k \in CPU : Starts(k, j) => k = i

Asked(i) ==
    /\ at[i].step \in {"smc_on", "entry", "smc_suspend"} => regs[at[i].target] = at[i].entry
    /\ i # First /\ at[i].step \notin {"off", "entry"} => mmu[i]

PowerInv ==
    /\ PowerTypeOK
    /\ \A i \in CPU : Running(i)
    /\ \A i \in CPU : Started(i)
    /\ \A i \in CPU : Asked(i)

-----------------------------------------------------------------------------

LEMMA PowerInitInv == PowerInit => PowerInv
<1> SUFFICES ASSUME PowerInit PROVE PowerInv
    OBVIOUS
<1> USE DEF PowerInit, At
<1>1. PowerTypeOK
    BY DEF PowerTypeOK, AnyEntry, Steps
<1>2. \A i, j \in CPU : ~Starts(i, j)
    BY DEF Starts
<1>3. \A i \in CPU : Running(i)
    BY ZenonT(180) DEF Running
<1>4. \A i \in CPU : Started(i)
    BY <1>2 DEF Started
<1>5. \A i \in CPU : Asked(i)
    BY DEF Asked
<1> QED BY <1>1, <1>3, <1>4, <1>5 DEF PowerInv

LEMMA cpu_mainInv ==
    ASSUME PowerInv, NEW i \in CPU, cpu_main(i)
    PROVE  PowerInv'
<1> USE DEF PowerInv, cpu_main, InGuest, At
<1>1. PowerTypeOK'
    BY DEF PowerTypeOK, AnyEntry, Steps
<1>2. \A k, j \in CPU : Starts(k, j)' <=> Starts(k, j)
    BY DEF Starts, PowerTypeOK
<1>3. \A k \in CPU : Running(k)'
    BY <1>2 DEF Running, PowerTypeOK
<1>4. \A k \in CPU : Started(k)'
    BY <1>2 DEF Started, Starts, PowerTypeOK
<1>5. \A k \in CPU : Asked(k)'
    BY ZenonT(180) DEF Asked, PowerTypeOK
<1> QED BY <1>1, <1>3, <1>4, <1>5

LEMMA CpuOnInv ==
    ASSUME PowerInv, NEW i \in CPU, NEW j \in CPU, NEW entry \in Entry, CpuOn(i, j, entry)
    PROVE  PowerInv'
<1> USE DEF PowerInv, CpuOn, cpu_on, At
<1>1. PowerTypeOK'
    BY DEF PowerTypeOK, AnyEntry, Steps
<1>2. CASE is_on[j]
    <2>1. is_on' = is_on /\ regs' = regs /\ at' = at
        BY <1>2 DEF PowerTypeOK
    <2>2. \A k, l \in CPU : Starts(k, l)' <=> Starts(k, l)
        BY <2>1 DEF Starts
    <2> QED BY <1>1, <2>1, <2>2 DEF Running, Started, Asked
<1>3. CASE ~is_on[j]
    <2>1. at[j].step \in {"off", "smc_off"} /\ i # j
        BY <1>3 DEF Running
    <2>2. \A k, l \in CPU : Starts(k, l)' <=> Starts(k, l) \/ (k = i /\ l = j)
        BY <1>3 DEF Starts, PowerTypeOK
    <2>3. \A k \in CPU : ~Starts(k, j)
        BY <1>3 DEF Started
    <2>4. \A k \in CPU : k # i => at'[k] = at[k]
        BY DEF PowerTypeOK
    <2>5. at'[i].step = "smc_on" /\ at'[i].target = j /\ at'[i].entry = entry
        BY <1>3 DEF PowerTypeOK
    <2>6. \A k \in CPU : is_on'[k] = (is_on[k] \/ k = j)
        BY ZenonT(180) DEF PowerTypeOK
    <2>7. \A k \in CPU : Running(k)'
        BY <2>1, <2>2, <2>4, <2>5, <2>6 DEF Running
    <2>8. \A k \in CPU : Started(k)'
        <3> SUFFICES ASSUME NEW k \in CPU, NEW l \in CPU, Starts(k, l)'
                     PROVE  /\ is_on'[l]
                            /\ at'[l].step \in {"off", "smc_off"}
                            /\ \A m \in CPU : Starts(m, l)' => m = k
            BY DEF Started
        <3>1. CASE l = j
            BY <3>1, <2>1, <2>2, <2>3, <2>4, <2>6, ZenonT(180)
        <3>2. CASE l # j
            <4>1. Starts(k, l)
                BY <3>2, <2>2
            <4>2. l # i
                BY <4>1 DEF Started
            <4> QED BY <3>2, <4>1, <4>2, <2>2, <2>4, <2>6 DEF Started
        <3> QED BY <3>1, <3>2
    <2>9. \A k \in CPU : Asked(k)'
        <3>1. regs' = [regs EXCEPT ![j] = entry]
            BY <1>3
        <3>2. \A k \in CPU : at[k].step \in {"smc_on", "entry", "smc_suspend"} => at[k].target # j
            BY <1>3 DEF Running, Started, Starts
        <3>3. Asked(i)'
            BY <2>5, <3>1 DEF Asked, PowerTypeOK
        <3>4. ASSUME NEW k \in CPU, k # i PROVE Asked(k)'
            <4>1. at'[k] = at[k] /\ mmu' = mmu
                BY <3>4, <2>4
            <4>2. at[k].target \in CPU
                BY DEF PowerTypeOK
            <4> QED BY <4>1, <4>2, <3>1, <3>2 DEF Asked, PowerTypeOK
        <3> QED BY <3>3, <3>4
    <2> QED BY <1>1, <2>7, <2>8, <2>9
<1> QED BY <1>2, <1>3

LEMMA SmcCpuOnInv ==
    ASSUME PowerInv, NEW i \in CPU, SmcCpuOn(i)
    PROVE  PowerInv'
<1> DEFINE j == at[i].target
<1>0. j \in CPU /\ at[i].step = "smc_on"
    BY DEF PowerInv, PowerTypeOK, SmcCpuOn
<1>1. PowerTypeOK'
    BY DEF PowerInv, SmcCpuOn, InGuest, At, PowerTypeOK, AnyEntry, Steps
<1>2. Starts(i, j) /\ is_on[j] /\ at[j].step = "off" /\ i # j /\ is_on[i]
    BY <1>0 DEF PowerInv, SmcCpuOn, Started, Starts, Running
<1>3. /\ \A k \in CPU \ {i, j} : at'[k] = at[k]
      /\ at'[i] = InGuest(i)
      /\ at'[j] = At("entry", j, at[i].entry)
    BY <1>0, <1>2 DEF PowerInv, PowerTypeOK, SmcCpuOn
<1>4. /\ el3' = [el3 EXCEPT ![j] = "on"]
      /\ mmu' = [mmu EXCEPT ![j] = FALSE]
      /\ is_on' = is_on /\ regs' = regs
    BY DEF SmcCpuOn
<1>5. \A k, l \in CPU : Starts(k, l)' <=> Starts(k, l) /\ k # i
    <2> SUFFICES ASSUME NEW k \in CPU, NEW l \in CPU
                 PROVE  Starts(k, l)' <=> Starts(k, l) /\ k # i
        OBVIOUS
    <2>1. CASE k = i
        BY <2>1, <1>3 DEF Starts, InGuest, At
    <2>2. CASE k = j
        BY <2>2, <1>0, <1>2, <1>3 DEF Starts, At
    <2>3. CASE k \notin {i, j}
        BY <2>3, <1>3 DEF Starts
    <2> QED BY <2>1, <2>2, <2>3
<1>6. \A l \in CPU : Starts(i, l) => l = j
    BY DEF Starts
<1> HIDE DEF j
<1>7. ASSUME NEW k \in CPU PROVE Running(k)'
    <2>1. CASE k = i
        BY <2>1, <1>0, <1>2, <1>3, <1>4 DEF Running, InGuest, At, PowerInv, PowerTypeOK
    <2>2. CASE k = j
        BY <2>2, <1>2, <1>3, <1>4 DEF Running, At, PowerInv, PowerTypeOK
    <2>3. CASE k \notin {i, j}
        BY <2>3, <1>0, <1>3, <1>4, <1>5, <1>6 DEF Running, PowerInv, PowerTypeOK
    <2> QED BY <2>1, <2>2, <2>3
<1>8. ASSUME NEW k \in CPU PROVE Started(k)'
    <2> SUFFICES ASSUME NEW l \in CPU, Starts(k, l)'
                 PROVE  /\ is_on'[l]
                        /\ at'[l].step \in {"off", "smc_off"}
                        /\ \A m \in CPU : Starts(m, l)' => m = k
        BY DEF Started
    <2>1. Starts(k, l) /\ k # i
        BY <1>5
    <2>2. is_on[l] /\ at[l].step \in {"off", "smc_off"} /\ \A m \in CPU : Starts(m, l) => m = k
        BY <2>1 DEF PowerInv, Started
    <2>3. l # i /\ l # j
        BY <2>1, <2>2, <1>0, <1>2
    <2> QED BY <2>2, <2>3, <1>3, <1>4, <1>5
<1>9. ASSUME NEW k \in CPU PROVE Asked(k)'
    <2>1. CASE k = i
        BY <2>1, <1>0, <1>2, <1>3, <1>4 DEF Asked, InGuest, At, PowerInv, PowerTypeOK
    <2>2. CASE k = j
        <3>1. regs[j] = at[i].entry
            BY <1>0 DEF PowerInv, Asked, j
        <3> QED BY <2>2, <3>1, <1>3, <1>4 DEF Asked, At
    <2>3. CASE k \notin {i, j}
        BY <2>3, <1>3, <1>4 DEF Asked, PowerInv, PowerTypeOK
    <2> QED BY <2>1, <2>2, <2>3
<1> QED BY <1>1, <1>7, <1>8, <1>9 DEF PowerInv

\* The firmware's refusal changes only the caller's step: it still holds is_on.
LEMMA SmcCpuOnFailsInv ==
    ASSUME PowerInv, NEW i \in CPU, SmcCpuOnFails(i)
    PROVE  PowerInv'
<1> USE DEF PowerInv, SmcCpuOnFails
<1>1. PowerTypeOK'
    BY DEF PowerTypeOK, AnyEntry, Steps
<1>2. \A k, j \in CPU : Starts(k, j)' <=> Starts(k, j)
    BY DEF Starts, PowerTypeOK
<1>3. \A k \in CPU : Running(k)'
    BY <1>2 DEF Running, PowerTypeOK
<1>4. \A k \in CPU : Started(k)'
    BY <1>2 DEF Started, PowerTypeOK
<1>5. \A k \in CPU : Asked(k)'
    BY DEF Asked, PowerTypeOK
<1> QED BY <1>1, <1>3, <1>4, <1>5

LEMMA CpuOnFailedInv ==
    ASSUME PowerInv, NEW i \in CPU, CpuOnFailed(i)
    PROVE  PowerInv'
<1> DEFINE j == at[i].target
<1>0. j \in CPU /\ at[i].step = "failed"
    BY DEF PowerInv, PowerTypeOK, CpuOnFailed
<1>1. PowerTypeOK'
    BY DEF PowerInv, CpuOnFailed, cpu_off, InGuest, At, PowerTypeOK, AnyEntry, Steps
<1>2. Starts(i, j) /\ at[j].step \in {"off", "smc_off"} /\ i # j
    BY <1>0 DEF PowerInv, Started, Starts
<1>3. /\ is_on' = [is_on EXCEPT ![j] = FALSE]
      /\ at' = [at EXCEPT ![i] = InGuest(i)]
      /\ el3' = el3 /\ regs' = regs /\ mmu' = mmu
    BY DEF CpuOnFailed, cpu_off
<1>4. \A k, l \in CPU : Starts(k, l)' <=> Starts(k, l) /\ k # i
    BY <1>3 DEF Starts, InGuest, At, PowerInv, PowerTypeOK
<1>5. \A l \in CPU : Starts(i, l) => l = j
    BY DEF Starts
<1> HIDE DEF j
<1>6. \A k \in CPU : Running(k)'
    BY <1>0, <1>2, <1>3, <1>4, <1>5 DEF Running, InGuest, At, PowerInv, PowerTypeOK
<1>7. ASSUME NEW k \in CPU PROVE Started(k)'
    <2> SUFFICES ASSUME NEW l \in CPU, Starts(k, l)'
                 PROVE  /\ is_on'[l]
                        /\ at'[l].step \in {"off", "smc_off"}
                        /\ \A m \in CPU : Starts(m, l)' => m = k
        BY DEF Started
    <2>1. Starts(k, l) /\ k # i
        BY <1>4
    <2>2. is_on[l] /\ at[l].step \in {"off", "smc_off"} /\ \A m \in CPU : Starts(m, l) => m = k
        BY <2>1 DEF PowerInv, Started
    <2>3. l # j /\ l # i
        BY <2>1, <2>2, <1>0, <1>2
    <2> QED BY <2>2, <2>3, <1>3, <1>4 DEF PowerInv, PowerTypeOK
<1>8. \A k \in CPU : Asked(k)'
    BY <1>0, <1>3 DEF Asked, InGuest, At, PowerInv, PowerTypeOK
<1> QED BY <1>1, <1>6, <1>7, <1>8 DEF PowerInv

LEMMA CpuOffInv ==
    ASSUME PowerInv, NEW i \in CPU, CpuOff(i)
    PROVE  PowerInv'
<1> USE DEF PowerInv, CpuOff, cpu_off, At
<1>1. PowerTypeOK'
    BY DEF PowerTypeOK, AnyEntry, Steps
<1>2. \A k, j \in CPU : Starts(k, j)' <=> Starts(k, j)
    BY DEF Starts, PowerTypeOK
<1>3. \A k \in CPU : ~Starts(k, i)
    BY DEF Started
<1>4. \A k \in CPU : Running(k)'
    BY <1>2 DEF Running, PowerTypeOK
<1>5. \A k \in CPU : Started(k)'
    BY <1>2, <1>3 DEF Started, PowerTypeOK
<1>6. \A k \in CPU : Asked(k)'
    BY DEF Asked, PowerTypeOK
<1> QED BY <1>1, <1>4, <1>5, <1>6

LEMMA SmcCpuOffInv ==
    ASSUME PowerInv, NEW i \in CPU, SmcCpuOff(i)
    PROVE  PowerInv'
<1> USE DEF PowerInv, SmcCpuOff, At
<1>1. PowerTypeOK'
    BY DEF PowerTypeOK, AnyEntry, Steps
<1>2. \A k, j \in CPU : Starts(k, j)' <=> Starts(k, j)
    BY DEF Starts, PowerTypeOK
<1>3. \A k \in CPU : Running(k)'
    BY <1>2 DEF Running, PowerTypeOK
<1>4. \A k \in CPU : Started(k)'
    BY <1>2 DEF Started, PowerTypeOK
<1>5. \A k \in CPU : Asked(k)'
    BY DEF Asked, PowerTypeOK
<1> QED BY <1>1, <1>3, <1>4, <1>5

LEMMA CpuSuspendInv ==
    ASSUME PowerInv, NEW i \in CPU, NEW entry \in Entry, CpuSuspend(i, entry)
    PROVE  PowerInv'
<1> USE DEF PowerInv, CpuSuspend, At
<1>1. PowerTypeOK'
    BY DEF PowerTypeOK, AnyEntry, Steps
<1>2. \A k, j \in CPU : Starts(k, j)' <=> Starts(k, j)
    BY DEF Starts, PowerTypeOK
<1>3. \A k \in CPU : Running(k)'
    BY <1>2 DEF Running, PowerTypeOK
<1>4. \A k \in CPU : Started(k)'
    BY <1>2 DEF Started, PowerTypeOK
<1>5. \A k \in CPU : k # i /\ at[k].step \in {"smc_on", "entry", "smc_suspend"} => at[k].target # i
    BY DEF Running, Started, Starts
<1>6. \A k \in CPU : Asked(k)'
    BY <1>5 DEF Asked, PowerTypeOK
<1> QED BY <1>1, <1>3, <1>4, <1>6

LEMMA SuspendReturnsInv ==
    ASSUME PowerInv, NEW i \in CPU, SuspendReturns(i)
    PROVE  PowerInv'
<1> USE DEF PowerInv, SuspendReturns, InGuest, At
<1>1. PowerTypeOK'
    BY DEF PowerTypeOK, AnyEntry, Steps
<1>2. \A k, j \in CPU : Starts(k, j)' <=> Starts(k, j)
    BY DEF Starts, PowerTypeOK
<1>3. \A k \in CPU : Running(k)'
    BY <1>2 DEF Running, PowerTypeOK
<1>4. \A k \in CPU : Started(k)'
    BY <1>2 DEF Started, PowerTypeOK
<1>5. \A k \in CPU : Asked(k)'
    BY DEF Asked, PowerTypeOK
<1> QED BY <1>1, <1>3, <1>4, <1>5

LEMMA SuspendWakesInv ==
    ASSUME PowerInv, NEW i \in CPU, SuspendWakes(i)
    PROVE  PowerInv'
<1> USE DEF PowerInv, SuspendWakes
<1>1. PowerTypeOK'
    BY DEF PowerTypeOK, AnyEntry, Steps
<1>2. \A k, j \in CPU : Starts(k, j)' <=> Starts(k, j)
    BY DEF Starts, PowerTypeOK
<1>3. \A k \in CPU : Running(k)'
    BY <1>2 DEF Running, PowerTypeOK
<1>4. \A k \in CPU : Started(k)'
    BY <1>2 DEF Started, PowerTypeOK
<1>5. \A k \in CPU : Asked(k)'
    BY DEF Asked, PowerTypeOK
<1> QED BY <1>1, <1>3, <1>4, <1>5

-----------------------------------------------------------------------------

\* Where each CPU is, is_on, the firmware's state and the calls that start a
\* CPU belong together after every step (psci_primary_vm_handler, cpu_main).
THEOREM PowerInvariant == PowerSpec => []PowerInv
<1>1. PowerInv /\ [PowerNext]_powerVars => PowerInv'
    <2> SUFFICES ASSUME PowerInv, [PowerNext]_powerVars PROVE PowerInv'
        OBVIOUS
    <2>1. CASE UNCHANGED powerVars
        BY <2>1 DEF powerVars, PowerInv, PowerTypeOK, Running, Started, Asked, Starts
    <2>2. ASSUME NEW i \in CPU, PowerStep(i) PROVE PowerInv'
        <3>1. CASE Continue(i)
            BY <3>1, cpu_mainInv, SmcCpuOnInv, CpuOnFailedInv, SmcCpuOffInv DEF Continue
        <3>2. CASE \E j \in CPU, entry \in Entry : CpuOn(i, j, entry)
            BY <3>2, CpuOnInv
        <3>3. CASE SmcCpuOnFails(i)
            BY <3>3, SmcCpuOnFailsInv
        <3>4. CASE CpuOff(i)
            BY <3>4, CpuOffInv
        <3>5. CASE \E entry \in Entry : CpuSuspend(i, entry)
            BY <3>5, CpuSuspendInv
        <3>6. CASE SuspendReturns(i) \/ SuspendWakes(i)
            BY <3>6, SuspendReturnsInv, SuspendWakesInv
        <3> QED BY <2>2, <3>1, <3>2, <3>3, <3>4, <3>5, <3>6 DEF PowerStep
    <2> QED BY <2>1, <2>2 DEF PowerNext
<1> QED BY <1>1, PowerInitInv, PTL DEF PowerSpec

\* A CPU enters the primary where the CPU_ON or CPU_SUSPEND call that brought
\* it there asked, with its MMU set up (cpu_on, cpu_main).
THEOREM CpusStartAsAsked == PowerSpec => []StartsAsAsked
<1>1. PowerInv => StartsAsAsked
    BY DEF PowerInv, Asked, StartsAsAsked
<1> QED BY <1>1, PowerInvariant, PTL

\* is_on and the firmware differ only while one call is about to make them
\* equal (cpu_on, cpu_off and psci_primary_vm_handler).
THEOREM PowerStatesAgree == PowerSpec => []PowerStateAgrees
<1>1. PowerInv => PowerStateAgrees
    <2> SUFFICES ASSUME PowerInv, NEW j \in CPU
                 PROVE  /\ \A i, k \in Starting(j) : i = k
                        /\ Starting(j) # {} => is_on[j]
                        /\ is_on[j] /\ el3[j] = "off" => Starting(j) # {}
                        /\ ~is_on[j] /\ el3[j] = "on" => at[j].step = "smc_off"
        BY DEF PowerStateAgrees
    <2>1. Starting(j) = {i \in CPU : Starts(i, j)}
        BY DEF Starting, Starts
    <2>2. Running(j) /\ \A i \in CPU : Started(i)
        BY DEF PowerInv
    <2> QED BY <2>1, <2>2 DEF Running, Started
<1> QED BY <1>1, PowerInvariant, PTL
===============================================================================
