------------------------- MODULE VCpuSchedulingProofs -------------------------
(***************************************************************************)
(* Proofs about VCpuScheduling.tla, for any CPUs, VMs and vCPUs.           *)
(***************************************************************************)
EXTENDS VCpuScheduling, TLAPS

\* The steps of a CPU at which it holds the lock of its target.
Holding == {"prepare", "enter", "reset", "affinity"}

Holds(c, u) == current[c] = u \/ (pc[c] \in Holding /\ target[c] = u)

\* What a CPU is doing determines what it runs and whom its call is about.
Place(c) ==
  /\ current[c] \in CPU => current[c] = c
  /\ pc[c] \in {"prepare", "enter"} => current[c] = c
  /\ pc[c] \in {"save", "saved", "on", "reset", "affinity"} => current[c] \in VCpu
  /\ pc[c] \in Holding \cup {"on"} => target[c] \in VCpu
  /\ pc[c] \in Holding => target[c] # current[c]

\* The CPU that runs a vCPU, or is in a call about it, has its lock, and no
\* other CPU has.
Locks(u) == \A c \in CPU : Holds(c, u) <=> lock[u] = c

\* The registers of a vCPU are on the CPU that runs it or in memory, and
\* VCpuInner::cpu is that CPU.
Context(u) ==
  /\ \A c \in CPU : current[c] = u => cpu[u] = c
  /\ \A c \in CPU : current[c] = u /\ pc[c] # "saved" => regs[u] = c
  /\ \A c \in CPU : pc[c] = "enter" /\ target[c] = u => cpu[u] = c
  /\ regs[u] # NoCPU => \E c \in CPU : current[c] = u /\ pc[c] # "saved"

\* A vCPU that has aborted is on its way out.
Alive(c) ==
  /\ current[c] \in VCpu /\ pc[c] \notin {"save", "saved"} => status[current[c]] # "Aborted"
  /\ pc[c] = "enter" => status[target[c]] # "Aborted"

Inv ==
  /\ TypeOK
  /\ \A c \in CPU : Place(c)
  /\ \A u \in VCpu : Locks(u)
  /\ \A u \in VCpu : Context(u)
  /\ \A c \in CPU : Alive(c)

-----------------------------------------------------------------------------
(* Every step keeps the invariant.                                         *)

LEMMA InvInit == Init => Inv
<1> SUFFICES ASSUME Init PROVE Inv
    OBVIOUS
<1> USE SchedulingAssumption DEF Init
<1>1. TypeOK
    BY DEF TypeOK, Status
<1>2. \A c \in CPU : Place(c) /\ Alive(c)
    BY DEF Place, Alive, Holding
<1>3. \A u \in VCpu : Locks(u) /\ Context(u)
    BY DEF Locks, Context, Holds, Holding
<1> QED BY <1>1, <1>2, <1>3 DEF Inv

\* What the steps of CPU c change of a vCPU that it does not hold and that
\* is not free: nothing.
LEMMA OneHolder ==
    ASSUME Inv, NEW c \in CPU, NEW d \in CPU, NEW u \in VCpu, Holds(c, u), Holds(d, u)
    PROVE  c = d /\ lock[u] = c
BY DEF Inv, Locks

\* Steps that leave all that the invariant is about alone.
LEMMA FrameInv ==
    ASSUME Inv, TypeOK', UNCHANGED <<status, lock, cpu, regs, current, pc, target>>
    PROVE  Inv'
BY DEF Inv, Place, Locks, Context, Alive, Holds

\* switch_to_primary.
LEMMA SwitchInv ==
    ASSUME Inv, TypeOK', NEW c \in CPU, NEW s, InSecondary(c), switch_to_primary(c, s),
           UNCHANGED <<lock, cpu, regs, current, target>>
    PROVE  Inv'
<1> USE DEF InSecondary, switch_to_primary
<1>1. \A d \in CPU : Place(d)'
    BY DEF Inv, Place, TypeOK, Holding
<1>2. \A d \in CPU, u \in VCpu : Holds(d, u)' <=> Holds(d, u)
    BY DEF Holds, Holding, TypeOK, Inv
<1>3. \A u \in VCpu : Locks(u)'
    BY <1>2 DEF Inv, Locks
<1>4. \A u \in VCpu : Context(u)'
    BY DEF Inv, Context, TypeOK
<1>5. ASSUME NEW d \in CPU, d # c PROVE Alive(d)'
    <2>1. pc'[d] = pc[d]
        BY <1>5 DEF Inv, TypeOK
    <2>2. \A u \in VCpu : Holds(d, u) => u # current[c]
        BY <1>5, OneHolder DEF Holds
    <2>3. current[d] \in VCpu => status'[current[d]] = status[current[d]]
        BY <2>2 DEF Holds, Inv, TypeOK
    <2>4. pc[d] = "enter" => status'[target[d]] = status[target[d]]
        BY <2>2 DEF Holds, Holding, Inv, TypeOK, Place
    <2> QED BY <2>1, <2>3, <2>4 DEF Inv, Alive
<1>6. Alive(c)'
    BY DEF Alive, Inv, TypeOK
<1> QED BY <1>1, <1>3, <1>4, <1>5, <1>6 DEF Inv

LEMMA TryLockInv ==
    ASSUME Inv, NEW c \in CPU, NEW u \in VCpu, TryLock(c, u)
    PROVE  Inv'
<1> USE SchedulingAssumption DEF TryLock, InPrimary, try_lock
<1>1. TypeOK'
    BY DEF Inv, TypeOK
<1>2. current[c] = c
    BY DEF Inv, Place
<1>3. \A d \in CPU : Place(d)'
    BY <1>2 DEF Inv, Place, TypeOK, Holding
<1>4. \A d \in CPU, w \in VCpu : Holds(d, w)' <=> Holds(d, w) \/ (d = c /\ w = u)
    BY <1>2 DEF Holds, Holding, TypeOK, Inv
<1>5. \A d \in CPU : ~Holds(d, u)
    BY DEF Inv, Locks
<1>6. \A w \in VCpu : Locks(w)'
    BY <1>4, <1>5 DEF Inv, Locks, TypeOK
<1>7. \A w \in VCpu : Context(w)'
    BY <1>2 DEF Inv, Context, TypeOK
<1>8. \A d \in CPU : Alive(d)'
    BY <1>2 DEF Inv, Alive, TypeOK
<1> QED BY <1>1, <1>3, <1>6, <1>7, <1>8 DEF Inv

LEMMA PrepareRefusesInv ==
    ASSUME Inv, NEW c \in CPU, PrepareRefuses(c)
    PROVE  Inv'
<1> DEFINE u == target[c]
<1>0. pc[c] = "prepare" /\ current[c] = c /\ u \in VCpu /\ Holds(c, u)
    BY SMTT(60) DEF PrepareRefuses, Inv, Place, Holds, Holding
<1>1. TypeOK'
    BY <1>0, SchedulingAssumption, SMTT(60) DEF Inv, TypeOK, Status, PrepareRefuses, Wait
<1>2. /\ status' = [status EXCEPT ![u] = IF aborting[VmOf[u]] THEN "Aborted" ELSE @]
      /\ lock' = [lock EXCEPT ![u] = NoCPU]
      /\ pc' = [pc EXCEPT ![c] = "guest"]
      /\ target' = [target EXCEPT ![c] = NoVCpu]
      /\ cpu' = cpu /\ regs' = regs /\ current' = current
    BY DEF PrepareRefuses
<1> HIDE DEF u
<1>3. \A d \in CPU : Place(d)'
    BY <1>0, <1>2 DEF Inv, Place, TypeOK, Holding
<1>4. \A d \in CPU, w \in VCpu : Holds(d, w)' <=> Holds(d, w) /\ (d # c \/ w # u)
    BY <1>0, <1>2, SchedulingAssumption DEF Holds, Holding, TypeOK, Inv, u
<1>5. \A d \in CPU : Holds(d, u) => d = c
    BY <1>0, OneHolder
<1>6. \A w \in VCpu : Locks(w)'
    BY <1>0, <1>2, <1>4, <1>5, SchedulingAssumption DEF Inv, Locks, TypeOK
<1>7. \A w \in VCpu : Context(w)'
    BY <1>0, <1>2, SchedulingAssumption DEF Inv, Context, TypeOK
<1>8. ASSUME NEW d \in CPU PROVE Alive(d)'
    <2>1. CASE d = c
        BY <2>1, <1>0, <1>2, SchedulingAssumption, SMTT(60) DEF Alive, Inv, TypeOK
    <2>2. CASE d # c
        <3>1. \A w \in VCpu : Holds(d, w) => w # u
            BY <2>2, <1>5, SMTT(60)
        <3>2. current[d] \in VCpu => status'[current[d]] = status[current[d]]
            BY <3>1, <1>2 DEF Holds, Inv, TypeOK
        <3>3. pc[d] = "enter" => status'[target[d]] = status[target[d]]
            BY <3>1, <1>2 DEF Holds, Holding, Inv, TypeOK, Place
        <3> QED BY <2>2, <3>2, <3>3, <1>2 DEF Inv, Alive, TypeOK
    <2> QED BY <2>1, <2>2
<1> QED BY <1>1, <1>3, <1>6, <1>7, <1>8 DEF Inv

LEMMA PrepareRunsInv ==
    ASSUME Inv, NEW c \in CPU, PrepareRuns(c)
    PROVE  Inv'
<1> DEFINE u == target[c]
<1>0. pc[c] = "prepare" /\ current[c] = c /\ u \in VCpu /\ Holds(c, u)
    BY DEF PrepareRuns, Inv, Place, Holds, Holding
<1>1. TypeOK'
    BY <1>0, SchedulingAssumption, ZenonT(180) DEF Inv, TypeOK, PrepareRuns, MessageArrived
<1>2. /\ cpu' = [cpu EXCEPT ![u] = c]
      /\ pc' = [pc EXCEPT ![c] = "enter"]
      /\ status' = status /\ lock' = lock /\ regs' = regs /\ current' = current
      /\ target' = target
    BY DEF PrepareRuns
<1>3. status[u] # "Aborted"
    BY DEF PrepareRuns, Runnable, MessageArrived
<1> HIDE DEF u
<1>4. \A d \in CPU : Place(d)'
    BY <1>0, <1>2 DEF Inv, Place, TypeOK, Holding, u
<1>5. \A d \in CPU, w \in VCpu : Holds(d, w)' <=> Holds(d, w)
    BY <1>0, <1>2 DEF Holds, Holding, TypeOK, Inv
<1>6. \A w \in VCpu : Locks(w)'
    BY <1>2, <1>5 DEF Inv, Locks
<1>7. \A d \in CPU : Holds(d, u) => d = c
    BY <1>0, OneHolder
<1>8. \A w \in VCpu : Context(w)'
    BY <1>0, <1>2, <1>7 DEF Inv, Context, TypeOK, Holds, Holding, u
<1>9. \A d \in CPU : Alive(d)'
    BY <1>0, <1>2, <1>3, SMTT(60) DEF Inv, Alive, TypeOK, u
<1> QED BY <1>1, <1>4, <1>6, <1>8, <1>9 DEF Inv

LEMMA EnterInv ==
    ASSUME Inv, NEW c \in CPU, Enter(c)
    PROVE  Inv'
<1> DEFINE u == target[c]
<1>0. pc[c] = "enter" /\ current[c] = c /\ u \in VCpu /\ Holds(c, u)
    BY SMTT(60) DEF Enter, Inv, Place, Holds, Holding
<1>1. TypeOK'
    <2>1. pending' \in [VCpu -> BOOLEAN]
        BY <1>0 DEF Inv, TypeOK, Enter
    <2>2. vi' \in [VCpu -> BOOLEAN]
        BY <1>0, <2>1 DEF Inv, TypeOK, Enter
    <2> QED BY <1>0, <2>1, <2>2 DEF Inv, TypeOK, Enter
<1>2. /\ regs' = [regs EXCEPT ![u] = c]
      /\ current' = [current EXCEPT ![c] = u]
      /\ pc' = [pc EXCEPT ![c] = "guest"]
      /\ target' = [target EXCEPT ![c] = NoVCpu]
      /\ status' = status /\ lock' = lock /\ cpu' = cpu
    BY DEF Enter
<1>3. status[u] # "Aborted" /\ cpu[u] = c
    BY <1>0 DEF Inv, Alive, Context
<1> HIDE DEF u
<1>4. \A d \in CPU : Place(d)'
    BY <1>0, <1>2, SchedulingAssumption DEF Inv, Place, TypeOK, Holding
<1>5. \A d \in CPU, w \in VCpu : Holds(d, w)' <=> Holds(d, w)
    BY <1>0, <1>2, SchedulingAssumption DEF Holds, Holding, TypeOK, Inv, u
<1>6. \A w \in VCpu : Locks(w)'
    BY <1>2, <1>5 DEF Inv, Locks
<1>7. \A d \in CPU : Holds(d, u) => d = c
    BY <1>0, OneHolder
<1>8. \A w \in VCpu : Context(w)'
    BY <1>0, <1>2, <1>3, <1>7, SchedulingAssumption DEF Inv, Context, TypeOK, Holds
<1>9. \A d \in CPU : Alive(d)'
    BY <1>0, <1>2, <1>3 DEF Inv, Alive, TypeOK
<1> QED BY <1>1, <1>4, <1>6, <1>8, <1>9 DEF Inv

LEMMA SaveRegsInv ==
    ASSUME Inv, NEW c \in CPU, SaveRegs(c)
    PROVE  Inv'
<1> USE DEF SaveRegs
<1>0. current[c] \in VCpu /\ Holds(c, current[c])
    BY DEF Inv, Place, Holds
<1>1. TypeOK'
    BY ZenonT(180) DEF Inv, TypeOK
<1>2. \A d \in CPU : Place(d)'
    BY <1>0 DEF Inv, Place, TypeOK, Holding
<1>3. \A d \in CPU, w \in VCpu : Holds(d, w)' <=> Holds(d, w)
    BY ZenonT(180) DEF Holds, Holding, TypeOK, Inv
<1>4. \A w \in VCpu : Locks(w)'
    BY <1>3 DEF Inv, Locks
<1>5. \A d \in CPU : Holds(d, current[c]) => d = c
    BY <1>0, OneHolder, SMTT(60)
<1>6. \A w \in VCpu : Context(w)'
    BY <1>0, <1>5 DEF Inv, Context, TypeOK, Holds
<1>7. \A d \in CPU : Alive(d)'
    BY SMTT(60) DEF Inv, Alive, TypeOK
<1> QED BY <1>1, <1>2, <1>4, <1>6, <1>7 DEF Inv

LEMMA RegsStateSavedInv ==
    ASSUME Inv, NEW c \in CPU, RegsStateSaved(c)
    PROVE  Inv'
<1> DEFINE u == current[c]
<1>0. pc[c] = "saved" /\ u \in VCpu /\ Holds(c, u) /\ cpu[u] = c
    BY DEF RegsStateSaved, Inv, Place, Holds, Context
<1>1. TypeOK'
    BY <1>0 DEF Inv, TypeOK, RegsStateSaved
<1>2. /\ lock' = [lock EXCEPT ![u] = NoCPU]
      /\ current' = [current EXCEPT ![c] = c]
      /\ pc' = [pc EXCEPT ![c] = "guest"]
      /\ status' = status /\ cpu' = cpu /\ regs' = regs /\ target' = target
    BY <1>0 DEF RegsStateSaved
<1> HIDE DEF u
<1>3. \A d \in CPU : Place(d)'
    BY <1>0, <1>2 DEF Inv, Place, TypeOK, Holding
<1>4. \A d \in CPU, w \in VCpu : Holds(d, w)' <=> Holds(d, w) /\ (d # c \/ w # u)
    BY <1>0, <1>2, SchedulingAssumption DEF Holds, Holding, TypeOK, Inv, u
<1>5. \A d \in CPU : Holds(d, u) => d = c
    BY <1>0, OneHolder
<1>6. \A w \in VCpu : Locks(w)'
    BY <1>0, <1>2, <1>4, <1>5, SchedulingAssumption, SMTT(60) DEF Inv, Locks, TypeOK
<1>7. \A w \in VCpu : Context(w)'
    BY <1>0, <1>2, <1>5, SchedulingAssumption DEF Inv, Context, TypeOK, Holds, u
<1>8. \A d \in CPU : Alive(d)'
    BY <1>0, <1>2, SchedulingAssumption, ZenonT(180) DEF Inv, Alive, TypeOK
<1> QED BY <1>1, <1>3, <1>6, <1>7, <1>8 DEF Inv

LEMMA CpuOnInv ==
    ASSUME Inv, NEW c \in CPU, NEW u \in VCpu, CpuOn(c, u)
    PROVE  Inv'
<1> USE DEF CpuOn, InSecondary
<1>1. TypeOK'
    BY ZenonT(180) DEF Inv, TypeOK
<1>2. \A d \in CPU : Place(d)'
    BY DEF Inv, Place, TypeOK, Holding
<1>3. \A d \in CPU, w \in VCpu : Holds(d, w)' <=> Holds(d, w)
    BY ZenonT(180) DEF Holds, Holding, TypeOK, Inv
<1>4. \A w \in VCpu : Locks(w)'
    BY <1>3, ZenonT(180) DEF Inv, Locks
<1>5. \A w \in VCpu : Context(w)'
    BY DEF Inv, Context, TypeOK
<1>6. \A d \in CPU : Alive(d)'
    BY ZenonT(180) DEF Inv, Alive, TypeOK
<1> QED BY <1>1, <1>2, <1>4, <1>5, <1>6, ZenonT(180) DEF Inv

\* Taking the lock of the vCPU that CPU_ON and AFFINITY_INFO are about.
LEMMA LockTargetInv ==
    ASSUME Inv, TypeOK', NEW c \in CPU, NEW u \in VCpu, NEW p \in {"reset", "affinity"},
           current[c] \in VCpu, pc[c] \in {"guest", "on"}, lock[u] = NoCPU,
           lock' = [lock EXCEPT ![u] = c], pc' = [pc EXCEPT ![c] = p], target'[c] = u,
           \A d \in CPU : d # c => target'[d] = target[d],
           UNCHANGED <<status, cpu, regs, current>>
    PROVE  Inv'
<1>0. \A d \in CPU : ~Holds(d, u)
    BY SchedulingAssumption, SMTT(60) DEF Inv, Locks
<1>1. u # current[c]
    BY <1>0, SMTT(60) DEF Holds
<1>2. \A d \in CPU : Place(d)'
    BY <1>1, SMTT(60) DEF Inv, Place, TypeOK, Holding
<1>3. \A d \in CPU, w \in VCpu : Holds(d, w)' <=> Holds(d, w) \/ (d = c /\ w = u)
    BY SMTT(60) DEF Holds, Holding, TypeOK, Inv
<1>4. \A w \in VCpu : Locks(w)'
    BY <1>0, <1>3, SchedulingAssumption, SMTT(60) DEF Inv, Locks, TypeOK
<1>5. \A w \in VCpu : Context(w)'
    BY SMTT(60) DEF Inv, Context, TypeOK
<1>6. \A d \in CPU : Alive(d)'
    BY DEF Inv, Alive, TypeOK
<1> QED BY <1>2, <1>4, <1>5, <1>6, SMTT(60) DEF Inv

LEMMA CpuOnLockInv ==
    ASSUME Inv, NEW c \in CPU, CpuOnLock(c)
    PROVE  Inv'
<1>1. current[c] \in VCpu /\ target[c] \in VCpu
    BY DEF CpuOnLock, Inv, Place
<1>2. TypeOK'
    BY <1>1 DEF Inv, TypeOK, CpuOnLock
<1> QED BY <1>1, <1>2, LockTargetInv, ZenonT(180) DEF CpuOnLock, try_lock

LEMMA AffinityInfoInv ==
    ASSUME Inv, NEW c \in CPU, NEW u \in VCpu, AffinityInfo(c, u)
    PROVE  Inv'
<1>1. TypeOK'
    BY DEF Inv, TypeOK, AffinityInfo
<1>2. target'[c] = u /\ \A d \in CPU : d # c => target'[d] = target[d]
    BY Zenon DEF Inv, TypeOK, AffinityInfo
<1> QED BY <1>1, <1>2, LockTargetInv, ZenonT(180) DEF AffinityInfo, try_lock, InSecondary

LEMMA CpuOnStartsInv ==
    ASSUME Inv, NEW c \in CPU, CpuOnStarts(c)
    PROVE  Inv'
<1> DEFINE u == target[c]
<1>0. /\ pc[c] = "reset" /\ current[c] \in VCpu /\ u \in VCpu /\ u # current[c]
      /\ Holds(c, u) /\ Holds(c, current[c])
    BY Zenon DEF CpuOnStarts, Inv, Place, Holds, Holding
<1>1. TypeOK'
    BY <1>0, SchedulingAssumption, ZenonT(180) DEF Inv, TypeOK, Status, CpuOnStarts, Wake
<1>2. /\ status' = [status EXCEPT ![u] = "Ready", ![current[c]] = "Ready"]
      /\ lock' = [lock EXCEPT ![u] = NoCPU]
      /\ pc' = [pc EXCEPT ![c] = "save"]
      /\ target' = [target EXCEPT ![c] = NoVCpu]
      /\ cpu' = cpu /\ regs' = regs /\ current' = current
    BY SMTT(60) DEF CpuOnStarts
<1> HIDE DEF u
<1>3. \A d \in CPU : Place(d)'
    BY <1>0, <1>2, SMTT(60) DEF Inv, Place, TypeOK, Holding
<1>4. \A d \in CPU, w \in VCpu : Holds(d, w)' <=> Holds(d, w) /\ (d # c \/ w # u)
    BY <1>0, <1>2 DEF Holds, Holding, TypeOK, Inv, u
<1>5. \A d \in CPU : Holds(d, u) => d = c
    BY <1>0, OneHolder, Zenon
<1>6. \A w \in VCpu : Locks(w)'
    BY <1>0, <1>2, <1>4, <1>5, SchedulingAssumption, SMTT(60) DEF Inv, Locks, TypeOK
<1>7. \A w \in VCpu : Context(w)'
    BY <1>0, <1>2 DEF Inv, Context, TypeOK
<1>8. \A w \in VCpu : status[w] # "Aborted" => status'[w] # "Aborted"
    BY <1>0, <1>2, Zenon DEF Inv, TypeOK
<1>9. \A d \in CPU : Alive(d)'
    BY <1>0, <1>2, <1>8 DEF Inv, Alive, TypeOK, Place, Holding
<1> QED BY <1>1, <1>3, <1>6, <1>7, <1>9 DEF Inv

LEMMA ReleaseInv ==
    ASSUME Inv, NEW c \in CPU, pc[c] \in {"reset", "affinity"}, Release(c)
    PROVE  Inv'
<1> DEFINE u == target[c]
<1>0. /\ current[c] \in VCpu /\ u \in VCpu /\ u # current[c] /\ Holds(c, u)
    BY SMTT(60) DEF Inv, Place, Holds, Holding
<1>1. TypeOK'
    BY <1>0 DEF Inv, TypeOK, Release
<1>2. /\ lock' = [lock EXCEPT ![u] = NoCPU]
      /\ pc' = [pc EXCEPT ![c] = "guest"]
      /\ target' = [target EXCEPT ![c] = NoVCpu]
      /\ status' = status /\ cpu' = cpu /\ regs' = regs /\ current' = current
    BY SMTT(60) DEF Release
<1> HIDE DEF u
<1>3. \A d \in CPU : Place(d)'
    BY <1>0, <1>2, SMTT(60) DEF Inv, Place, TypeOK, Holding
<1>4. \A d \in CPU, w \in VCpu : Holds(d, w)' <=> Holds(d, w) /\ (d # c \/ w # u)
    BY <1>0, <1>2, SMTT(60) DEF Holds, Holding, TypeOK, Inv, u
<1>5. \A d \in CPU : Holds(d, u) => d = c
    BY <1>0, OneHolder, SMTT(60)
<1>6. \A w \in VCpu : Locks(w)'
    BY <1>0, <1>2, <1>4, <1>5, SchedulingAssumption, SMTT(60) DEF Inv, Locks, TypeOK
<1>7. \A w \in VCpu : Context(w)'
    BY <1>0, <1>2, SMTT(60) DEF Inv, Context, TypeOK
<1>8. \A d \in CPU : Alive(d)'
    BY <1>0, <1>2 DEF Inv, Alive, TypeOK
<1> QED BY <1>1, <1>3, <1>6, <1>7, <1>8, ZenonT(180) DEF Inv

LEMMA HypervisorInv ==
    ASSUME Inv, NEW c \in CPU, Hypervisor(c)
    PROVE  Inv'
<1>1. CASE CpuOnAlreadyOn(c) \/ AffinityInfoDone(c)
    BY <1>1, ReleaseInv DEF CpuOnAlreadyOn, AffinityInfoDone
<1> QED BY <1>1, PrepareRefusesInv, PrepareRunsInv, EnterInv, SaveRegsInv, RegsStateSavedInv,
           CpuOnLockInv, CpuOnStartsInv, Zenon DEF Hypervisor

\* A vCPU's calls that return to the primary.
Leaves(c) ==
  \/ Preempt(c) \/ Wfi(c) \/ CpuSuspend(c) \/ CpuOff(c) \/ Abort(c)
  \/ MsgRecvBlocks(c) \/ MailboxClearNotifies(c)
  \/ \E u \in VCpu : InjectWakes(c, u)
  \/ \E v \in VM : MessageFromVCpu(c, v)

\* Its calls that do not.
Stays(c) == OwnInterrupts(c) \/ MsgRecvReads(c) \/ MailboxClear(c) \/ SetTimer(c)

LEMMA LeavesInv ==
    ASSUME Inv, NEW c \in CPU, Leaves(c)
    PROVE  Inv'
<1> USE SchedulingAssumption DEF InSecondary, switch_to_primary, Status
<1>1. CASE Preempt(c)
    <2>1. TypeOK'
        BY <1>1 DEF Preempt, Wake, Inv, TypeOK
    <2> QED BY <1>1, <2>1, SwitchInv, ZenonT(180) DEF Preempt
<1>2. CASE Wfi(c) \/ CpuSuspend(c)
    <2>1. TypeOK'
        BY <1>2, ZenonT(180) DEF Wfi, CpuSuspend, wait_for_interrupt, Wait, Inv, TypeOK
    <2> QED BY <1>2, <2>1, SwitchInv, ZenonT(180) DEF Wfi, CpuSuspend, wait_for_interrupt
<1>3. CASE CpuOff(c)
    <2>1. TypeOK'
        BY <1>3 DEF CpuOff, Wait, Inv, TypeOK
    <2> QED BY <1>3, <2>1, SwitchInv, ZenonT(180) DEF CpuOff
<1>4. CASE Abort(c)
    <2>1. TypeOK'
        BY <1>4 DEF Abort, Wake, Inv, TypeOK
    <2> QED BY <1>4, <2>1, SwitchInv, ZenonT(180) DEF Abort
<1>5. CASE MsgRecvBlocks(c)
    <2>1. TypeOK'
        BY <1>5, Zenon DEF MsgRecvBlocks, Wait, Inv, TypeOK
    <2> QED BY <1>5, <2>1, SwitchInv, ZenonT(180) DEF MsgRecvBlocks
<1>6. CASE MailboxClearNotifies(c)
    <2>1. TypeOK'
        BY <1>6 DEF MailboxClearNotifies, Wake, Inv, TypeOK
    <2> QED BY <1>6, <2>1, SwitchInv, ZenonT(180) DEF MailboxClearNotifies
<1>7. ASSUME NEW u \in VCpu, InjectWakes(c, u) PROVE Inv'
    <2>1. TypeOK'
        BY <1>7, Zenon DEF InjectWakes, inject, Wake, Inv, TypeOK
    <2> QED BY <1>7, <2>1, SwitchInv, ZenonT(180) DEF InjectWakes
<1>8. ASSUME NEW v \in VM, MessageFromVCpu(c, v) PROVE Inv'
    <2>1. TypeOK'
        BY <1>8, Zenon DEF MessageFromVCpu, Wake, Inv, TypeOK
    <2> QED BY <1>8, <2>1, SwitchInv, ZenonT(180) DEF MessageFromVCpu
<1> QED BY <1>1, <1>2, <1>3, <1>4, <1>5, <1>6, <1>7, <1>8 DEF Leaves

LEMMA StaysInv ==
    ASSUME Inv, NEW c \in CPU, Stays(c)
    PROVE  Inv'
<1>1. TypeOK'
    <2> USE SchedulingAssumption DEF InSecondary, Inv, TypeOK
    <2>1. CASE OwnInterrupts(c)
        BY <2>1, ZenonT(180) DEF OwnInterrupts
    <2>2. CASE MsgRecvReads(c)
        BY <2>2, Zenon DEF MsgRecvReads
    <2>3. CASE MailboxClear(c)
        BY <2>3, Zenon DEF MailboxClear
    <2>4. CASE SetTimer(c)
        BY <2>4 DEF SetTimer
    <2> QED BY <2>1, <2>2, <2>3, <2>4, Zenon DEF Stays
<1> QED BY <1>1, FrameInv, Zenon DEF Stays, OwnInterrupts, MsgRecvReads, MailboxClear, SetTimer

\* The steps of the primary and of time that change no vCPU's state.
Signals ==
  \/ \E u \in VCpu : TimerFires(u) \/ \E c \in CPU : TryLockFails(c, u) \/ PrimaryInjects(c, u)
  \/ \E c \in CPU, v \in VM : MessageFromPrimary(c, v)

LEMMA SignalsInv ==
    ASSUME Inv, Signals
    PROVE  Inv'
<1>1. TypeOK'
    <2> USE SchedulingAssumption DEF Inv, TypeOK
    <2>1. ASSUME NEW u \in VCpu, TimerFires(u) PROVE TypeOK'
        BY <2>1, Zenon DEF TimerFires
    <2>2. ASSUME NEW u \in VCpu, NEW c \in CPU, TryLockFails(c, u) PROVE TypeOK'
        BY <2>2, Zenon DEF TryLockFails
    <2>3. ASSUME NEW u \in VCpu, NEW c \in CPU, PrimaryInjects(c, u) PROVE TypeOK'
        BY <2>3, ZenonT(180) DEF PrimaryInjects, inject, Wake
    <2>4. ASSUME NEW c \in CPU, NEW v \in VM, MessageFromPrimary(c, v) PROVE TypeOK'
        BY <2>4 DEF MessageFromPrimary, Wake
    <2> QED BY <2>1, <2>2, <2>3, <2>4, Zenon DEF Signals
<1> QED BY <1>1, FrameInv, ZenonT(180) DEF Signals, TimerFires, TryLockFails, PrimaryInjects,
          MessageFromPrimary

\* Next, sorted by what a step does.
LEMMA NextCases ==
    ASSUME Next
    PROVE  \/ \E c \in CPU : Hypervisor(c) \/ Leaves(c) \/ Stays(c)
           \/ \E c \in CPU, u \in VCpu : TryLock(c, u) \/ CpuOn(c, u) \/ AffinityInfo(c, u)
           \/ Signals
BY DEF Next, Guest, Run, Leaves, Stays, Signals

\* What each CPU is doing, who holds each vCPU's lock, where its registers
\* are and whether it has aborted belong together after every step.
THEOREM SchedulingInvariant == Spec => []Inv
<1>1. Inv /\ [Next]_vars => Inv'
    <2> SUFFICES ASSUME Inv, [Next]_vars PROVE Inv'
        OBVIOUS
    <2>1. CASE Next
        BY <2>1, NextCases, HypervisorInv, LeavesInv, StaysInv, TryLockInv, CpuOnInv,
           AffinityInfoInv, SignalsInv
    <2>2. CASE UNCHANGED vars
        <3>1. TypeOK'
            BY <2>2 DEF vars, Inv, TypeOK
        <3> QED BY <2>2, <3>1, FrameInv, Zenon DEF vars
    <2> QED BY <2>1, <2>2
<1> QED BY <1>1, InvInit, PTL DEF Spec

\* Every variable of VCpuScheduling keeps its type.
THEOREM TypeCorrect == Spec => []TypeOK
<1>1. Inv => TypeOK
    BY Zenon DEF Inv
<1> QED BY <1>1, SchedulingInvariant, PTL

\* A vCPU is on one CPU at a time, whose lock on it no other call takes, and
\* a CPU returns to its own vCPU of the primary (vcpu_prepare_run,
\* switch_to_primary, complete_saving_state).
THEOREM VCpusRunOnce == Spec => []OneCpuPerVCpu
<1>1. Inv => OneCpuPerVCpu
    BY DEF Inv, OneCpuPerVCpu, Place, Locks, Holds, TypeOK
<1> QED BY <1>1, SchedulingInvariant, PTL

\* A vCPU is run, reset or looked at only with its registers in memory, and
\* until they are saved they are on the CPU that runs it (vcpu_switch).
THEOREM ContextsStayIntact == Spec => []ContextIntact
<1>1. Inv => ContextIntact
    <2> SUFFICES ASSUME Inv, NEW c \in CPU
                 PROVE  /\ current[c] \in VCpu /\ pc[c] # "saved" => regs[current[c]] = c
                        /\ pc[c] \in Holding => regs[target[c]] = NoCPU
        BY DEF ContextIntact, Holding
    <2>1. current[c] \in VCpu /\ pc[c] # "saved" => regs[current[c]] = c
        BY DEF Inv, Context
    <2>2. ASSUME pc[c] \in Holding, regs[target[c]] # NoCPU PROVE FALSE
        <3>1. target[c] \in VCpu /\ target[c] # current[c] /\ Holds(c, target[c])
            BY <2>2, Zenon DEF Inv, Place, Holds
        <3>2. PICK d \in CPU : current[d] = target[c]
            BY <2>2, <3>1, Zenon DEF Inv, Context
        <3>3. Holds(d, target[c])
            BY <3>2 DEF Holds
        <3> QED BY <3>1, <3>2, <3>3, OneHolder, Zenon
    <2> QED BY <2>1, <2>2
<1> QED BY <1>1, SchedulingInvariant, PTL

-----------------------------------------------------------------------------
(* abort is final.                                                         *)

Stuck(u) ==
  status[u] = "Aborted" =>
     /\ status'[u] = "Aborted"
     /\ \A c \in CPU : current'[c] = u => current[c] = u

LEMMA AbortedStays ==
    ASSUME Inv, Next, NEW u \in VCpu
    PROVE  Stuck(u)
<1>1. ASSUME NEW c \in CPU, Hypervisor(c) PROVE Stuck(u)
    <2>1. CASE PrepareRefuses(c)
        BY <2>1, Zenon DEF PrepareRefuses, Stuck, Inv, TypeOK
    <2>2. CASE PrepareRuns(c) \/ SaveRegs(c) \/ CpuOnLock(c) \/ CpuOnAlreadyOn(c)
                 \/ AffinityInfoDone(c)
        BY <2>2, ZenonT(180) DEF PrepareRuns, SaveRegs, CpuOnLock, CpuOnAlreadyOn, AffinityInfoDone,
                    Release, Stuck
    <2>3. CASE Enter(c)
        BY <2>3, Zenon DEF Enter, Stuck, Inv, Alive, TypeOK
    <2>4. CASE RegsStateSaved(c)
        <3>1. current[c] \in VCpu /\ cpu[current[c]] = c
            BY <2>4, ZenonT(180) DEF RegsStateSaved, Inv, Place, Context
        <3> QED BY <2>4, <3>1, SchedulingAssumption, ZenonT(180) DEF RegsStateSaved, Stuck, Inv, TypeOK
    <2>5. CASE CpuOnStarts(c)
        <3>1. current[c] \in VCpu /\ status[current[c]] # "Aborted"
            BY <2>5, ZenonT(180) DEF CpuOnStarts, Inv, Place, Alive
        <3> QED BY <2>5, <3>1, Zenon DEF CpuOnStarts, Stuck, Inv, TypeOK
    <2> QED BY <1>1, <2>1, <2>2, <2>3, <2>4, <2>5, Zenon DEF Hypervisor
<1>2. ASSUME NEW c \in CPU, Leaves(c) PROVE Stuck(u)
    <2>1. PICK s : InSecondary(c) /\ switch_to_primary(c, s) /\ current' = current
        BY <1>2, ZenonT(180) DEF Leaves, Preempt, Wfi, CpuSuspend, wait_for_interrupt, CpuOff, Abort,
                    MsgRecvBlocks, MailboxClearNotifies, InjectWakes, MessageFromVCpu
    <2>2. status[current[c]] # "Aborted"
        BY <2>1, ZenonT(180) DEF InSecondary, Inv, Alive
    <2> QED BY <2>1, <2>2, Zenon DEF switch_to_primary, Stuck, Inv, TypeOK
<1>3. ASSUME NEW c \in CPU, Stays(c) PROVE Stuck(u)
    BY <1>3, Zenon DEF Stays, OwnInterrupts, MsgRecvReads, MailboxClear, SetTimer, Stuck
<1>4. ASSUME NEW c \in CPU, NEW w \in VCpu, TryLock(c, w) \/ CpuOn(c, w) \/ AffinityInfo(c, w)
      PROVE  Stuck(u)
    BY <1>4, ZenonT(180) DEF TryLock, CpuOn, AffinityInfo, Stuck
<1>5. CASE Signals
    BY <1>5, ZenonT(180) DEF Signals, TimerFires, TryLockFails, PrimaryInjects,
       MessageFromPrimary, Stuck
<1> QED BY <1>1, <1>2, <1>3, <1>4, <1>5, NextCases

\* A vCPU that has aborted stays aborted and is never run again, whatever
\* CPU_ON calls and runs race with the abort (abort, vcpu_prepare_run).
THEOREM AbortsAreFinal == Spec => AbortIsFinal
<1>1. Inv /\ [Next]_vars =>
        [\A u \in VCpu : status[u] = "Aborted" =>
           /\ status'[u] = "Aborted"
           /\ \A c \in CPU : current'[c] = u => current[c] = u]_vars
    BY AbortedStays, Zenon DEF Stuck
<1> QED BY <1>1, SchedulingInvariant, PTL DEF Spec, AbortIsFinal

-----------------------------------------------------------------------------
(* No wake-up is lost under a scheduler that keeps to the contract, where  *)
(* only vcpu_run takes a vCPU's lock: a run that finds the lock taken is   *)
(* told to wait, which is right only if a run is under way.                *)

Blocked(u) == status[u] \in {"BlockedMailbox", "BlockedInterrupt"}

\* The lock is free, or the CPU that runs u has decided to leave it.
Settled(u) ==
  lock[u] = NoCPU \/ \E c \in CPU : current[c] = u /\ pc[c] \in {"save", "saved"}

\* The scheduler knows of a vCPU that has been left, or is about to be, all
\* that it must know to run it.
Woken(u) ==
  Settled(u) /\ ~aborting[VmOf[u]] =>
     /\ Runnable(u) => due[u]
     /\ Blocked(u) /\ timer[u] = "armed" => timed[u] \/ due[u]

\* A running vCPU sees its interrupt, or the scheduler will run it again.
Signalled(u) ==
  \A c \in CPU : current[c] = u /\ pc[c] = "guest" /\ pending[u] => vi[u] \/ due[u]

\* No CPU is in CPU_ON or AFFINITY_INFO.
NoPsci == \A c \in CPU : pc[c] \notin {"on", "reset", "affinity"}

WakeInv == NoPsci /\ \A u \in VCpu : Woken(u) /\ Signalled(u)

\* The scheduler of the theorem, and the PSCI call that its VMs make.
Contract == Orderly /\ Psci \subseteq {"CPU_OFF"}

LEMMA WakeInit == Init => WakeInv
BY SchedulingAssumption, ZenonT(180) DEF Init, WakeInv, NoPsci, Woken, Signalled, Runnable,
   MessageArrived,
   Interrupted, Blocked

LEMMA NotSettled ==
    ASSUME Inv, NEW c \in CPU, NEW u \in VCpu, Holds(c, u), pc[c] \notin {"save", "saved"}
    PROVE  ~Settled(u)
<1>1. lock[u] = c
    BY DEF Inv, Locks
<1>2. ASSUME NEW d \in CPU, current[d] = u PROVE d = c
    BY <1>2, OneHolder DEF Holds
<1> QED BY <1>1, <1>2, SchedulingAssumption, SMTT(60) DEF Settled

\* A step that tells the scheduler of what it makes runnable.
LEMMA WokenFrame ==
    ASSUME NEW u \in VCpu, Woken(u),
           Settled(u)' => Settled(u),
           aborting[VmOf[u]] => aborting'[VmOf[u]],
           Runnable(u)' => Runnable(u) \/ due'[u],
           Blocked(u)' /\ timer'[u] = "armed" => Blocked(u) /\ timer[u] = "armed",
           due[u] => due'[u],
           timed[u] => timed'[u]
    PROVE  Woken(u)'
BY ZenonT(180) DEF Woken

LEMMA TryLockWakes ==
    ASSUME Contract, Inv, WakeInv, NEW c \in CPU, NEW u \in VCpu, TryLock(c, u)
    PROVE  WakeInv'
<1> USE DEF TryLock, InPrimary, try_lock
<1>1. Inv'
    BY TryLockInv, ZenonT(180)
<1>2. \A d \in CPU : ~Holds(d, u)
    BY SchedulingAssumption, Zenon DEF Inv, Locks
<1>3. NoPsci'
    BY DEF WakeInv, NoPsci, Inv, TypeOK
<1>4. Woken(u)'
    <2>1. Holds(c, u)'
        BY Zenon DEF Holds, Holding, Inv, TypeOK
    <2>2. pc'[c] = "prepare"
        BY Zenon DEF Inv, TypeOK
    <2>3. \A d \in CPU : current'[d] # u
        BY <1>2, ZenonT(180) DEF Holds
    <2>4. lock'[u] # NoCPU
        BY SchedulingAssumption, Zenon DEF Inv, TypeOK
    <2> QED BY <2>3, <2>4, ZenonT(180) DEF Woken, Settled
<1>5. ASSUME NEW w \in VCpu, w # u PROVE Woken(w)'
    <2>1. lock'[w] = lock[w] /\ due'[w] = due[w] /\ timed'[w] = timed[w]
        BY <1>5, Zenon DEF Inv, TypeOK
    <2>2. Settled(w)' => Settled(w)
        BY <2>1, ZenonT(180) DEF Settled, Inv, TypeOK
    <2> QED BY <2>1, <2>2, ZenonT(180) DEF WakeInv, Woken, Runnable, MessageArrived,
              Interrupted, Blocked
<1>6. ASSUME NEW w \in VCpu PROVE Signalled(w)'
    <2>1. CASE w = u
        BY <2>1, <1>2, Zenon DEF Signalled, Holds
    <2>2. CASE w # u
        BY <2>2, Zenon DEF Signalled, WakeInv, Inv, TypeOK
    <2> QED BY <2>1, <2>2, Zenon
<1> QED BY <1>3, <1>4, <1>5, <1>6 DEF WakeInv

\* A run that finds the lock taken would be a second call about the vCPU.
LEMMA NoTryLockFails ==
    ASSUME Contract, Inv, WakeInv, NEW c \in CPU, NEW u \in VCpu, TryLockFails(c, u)
    PROVE  FALSE
<1>1. lock[u] \in CPU /\ ~InCall(u)
    BY DEF TryLockFails, try_lock, Contract, Inv, TypeOK
<1>2. Holds(lock[u], u)
    BY <1>1, ZenonT(180) DEF Inv, Locks
<1>3. pc[lock[u]] \in Holding => current[lock[u]] = lock[u]
    BY <1>1 DEF Inv, Place, WakeInv, NoPsci, Holding
<1> QED BY <1>1, <1>2, <1>3, Zenon DEF Holds, InCall

LEMMA PrepareRefusesWakes ==
    ASSUME Contract, Inv, WakeInv, NEW c \in CPU, PrepareRefuses(c)
    PROVE  WakeInv'
<1>0. PICK u \in VCpu : u = target[c] /\ pc[c] = "prepare" /\ current[c] = c /\ Holds(c, u)
    BY Zenon DEF PrepareRefuses, Inv, Place, Holds, Holding
<1>1. /\ status' = [status EXCEPT ![u] = IF aborting[VmOf[u]] THEN "Aborted" ELSE @]
      /\ lock' = [lock EXCEPT ![u] = NoCPU]
      /\ pc' = [pc EXCEPT ![c] = "guest"]
      /\ due' = [due EXCEPT ![u] =
                   @ \/ (IF aborting[VmOf[u]] \/ status[u] \in {"Off", "Aborted"} THEN "off"
                         ELSE timer[u]) = "fired"]
      /\ timed' = [timed EXCEPT ![u] =
                     (IF aborting[VmOf[u]] \/ status[u] \in {"Off", "Aborted"} THEN "off"
                      ELSE timer[u]) = "armed"]
      /\ aborting[VmOf[u]] \/ ~Runnable(u)
      /\ aborting' = aborting /\ current' = current /\ pending' = pending /\ vi' = vi
      /\ timer' = timer /\ mail' = mail
    BY <1>0, ZenonT(180) DEF PrepareRefuses, Wait
<1>2. NoPsci'
    BY <1>1, Zenon DEF WakeInv, NoPsci, Inv, TypeOK
<1>3. Woken(u)'
    <2> SUFFICES ASSUME ~aborting[VmOf[u]]
                 PROVE  /\ ~Runnable(u)'
                        /\ Blocked(u)' /\ timer'[u] = "armed" => timed'[u]
        BY <1>1, ZenonT(180) DEF Woken
    <2>1. status'[u] = status[u]
        BY <1>0, <1>1, ZenonT(180) DEF Inv, TypeOK
    <2>2. ~Runnable(u)'
        BY <2>1, <1>1 DEF Runnable, MessageArrived, Interrupted
    <2>3. Blocked(u)' /\ timer'[u] = "armed" => timed'[u]
        BY <2>1, <1>0, <1>1, ZenonT(180) DEF Blocked, Inv, TypeOK
    <2> QED BY <2>2, <2>3, Zenon
<1>4. ASSUME NEW w \in VCpu, w # u PROVE Woken(w)'
    <2>1. /\ lock'[w] = lock[w] /\ due'[w] = due[w] /\ timed'[w] = timed[w]
          /\ status'[w] = status[w]
        BY <1>0, <1>1, <1>4, Zenon DEF Inv, TypeOK
    <2>2. Settled(w)' => Settled(w)
        BY <2>1, <1>1, Zenon DEF Settled, Inv, TypeOK
    <2> QED BY <2>1, <2>2, <1>1, ZenonT(180) DEF WakeInv, Woken, Runnable, MessageArrived, Interrupted,
                                    Blocked
<1>5. ASSUME NEW w \in VCpu PROVE Signalled(w)'
    <2>1. due[w] => due'[w]
        BY <1>0, <1>1 DEF Inv, TypeOK
    <2>2. c \notin VCpu
        BY SchedulingAssumption
    <2> QED BY <2>1, <2>2, <1>0, <1>1, ZenonT(180) DEF Signalled, WakeInv, Inv, TypeOK
<1> QED BY <1>2, <1>3, <1>4, <1>5, Zenon DEF WakeInv

LEMMA PrepareRunsWakes ==
    ASSUME Contract, Inv, WakeInv, NEW c \in CPU, PrepareRuns(c)
    PROVE  WakeInv'
<1>1. /\ pc[c] = "prepare" /\ pc' = [pc EXCEPT ![c] = "enter"]
      /\ UNCHANGED <<status, lock, aborting, current, pending, vi, timer, due, timed>>
    BY ZenonT(180) DEF PrepareRuns
<1>2. \A v \in VM : mail'[v] = "Received" => mail[v] = "Received"
    BY SchedulingAssumption, Zenon DEF PrepareRuns, Inv, TypeOK
<1>3. NoPsci'
    BY <1>1, Zenon DEF WakeInv, NoPsci, Inv, TypeOK
<1>4. ASSUME NEW w \in VCpu PROVE Woken(w)'
    <2>1. Settled(w)' => Settled(w)
        BY <1>1 DEF Settled, Inv, TypeOK
    <2>2. VmOf[w] \in VM
        BY SchedulingAssumption, Zenon
    <2>3. Runnable(w)' => Runnable(w)
        BY <1>1, <1>2, <2>2, Zenon DEF Runnable, MessageArrived, Interrupted
    <2> QED BY <1>1, <2>1, <2>3, Zenon DEF WakeInv, Woken, Blocked
<1>5. \A w \in VCpu : Signalled(w)'
    BY <1>1, Zenon DEF Signalled, WakeInv, Inv, TypeOK
<1> QED BY <1>3, <1>4, <1>5, Zenon DEF WakeInv

LEMMA EnterWakes ==
    ASSUME Contract, Inv, WakeInv, NEW c \in CPU, Enter(c)
    PROVE  WakeInv'
<1>0. PICK u \in VCpu : u = target[c] /\ pc[c] = "enter" /\ current[c] = c /\ Holds(c, u)
    BY ZenonT(180) DEF Enter, Inv, Place, Holds, Holding
<1>1. /\ current' = [current EXCEPT ![c] = u]
      /\ pc' = [pc EXCEPT ![c] = "guest"]
      /\ vi' = [vi EXCEPT ![u] = pending'[u]]
      /\ \A w \in VCpu : w # u => pending'[w] = pending[w] /\ timer'[w] = timer[w]
      /\ UNCHANGED <<status, lock, aborting, mail, due, timed>>
    BY <1>0, ZenonT(180) DEF Enter, Inv, TypeOK
<1>2. \A d \in CPU : current[d] # u /\ (Holds(d, u) => d = c)
    BY <1>0, OneHolder, SchedulingAssumption, SMTT(60) DEF Holds
<1>3. lock[u] = c
    BY <1>0, ZenonT(180) DEF Inv, Locks
<1>4. NoPsci'
    BY <1>1, Zenon DEF WakeInv, NoPsci, Inv, TypeOK
<1>5. Woken(u)'
    BY <1>0, <1>1, <1>2, <1>3, SchedulingAssumption, SMTT(60) DEF Woken, Settled, Inv, TypeOK
<1>6. ASSUME NEW w \in VCpu, w # u PROVE Woken(w)'
    <2>1. Settled(w)' => Settled(w)
        BY <1>0, <1>1, <1>6 DEF Settled, Inv, TypeOK
    <2> QED BY <2>1, <1>1, <1>6, ZenonT(180) DEF WakeInv, Woken, Runnable, MessageArrived, Interrupted,
                                    Blocked
<1>7. ASSUME NEW w \in VCpu PROVE Signalled(w)'
    <2>1. CASE w = u
        BY <2>1, <1>0, <1>1, <1>2, Zenon DEF Signalled, Inv, TypeOK
    <2>2. CASE w # u
        BY <2>2, <1>0, <1>1, Zenon DEF Signalled, WakeInv, Inv, TypeOK
    <2> QED BY <2>1, <2>2, Zenon
<1> QED BY <1>4, <1>5, <1>6, <1>7 DEF WakeInv

LEMMA SaveRegsWakes ==
    ASSUME Contract, Inv, WakeInv, NEW c \in CPU, SaveRegs(c)
    PROVE  WakeInv'
<1> USE DEF SaveRegs
<1>1. NoPsci'
    BY Zenon DEF WakeInv, NoPsci, Inv, TypeOK
<1>2. \A w \in VCpu : Settled(w)' => Settled(w)
    BY Zenon DEF Settled, Inv, TypeOK
<1>3. \A w \in VCpu : Woken(w)'
    BY <1>2, ZenonT(180) DEF WakeInv, Woken, Runnable, MessageArrived, Interrupted, Blocked
<1>4. \A w \in VCpu : Signalled(w)'
    BY DEF Signalled, WakeInv, Inv, TypeOK
<1> QED BY <1>1, <1>3, <1>4, Zenon DEF WakeInv

LEMMA RegsStateSavedWakes ==
    ASSUME Contract, Inv, WakeInv, NEW c \in CPU, RegsStateSaved(c)
    PROVE  WakeInv'
<1>0. pc[c] = "saved" /\ current[c] \in VCpu /\ cpu[current[c]] = c
    BY Zenon DEF RegsStateSaved, Inv, Place, Context
<1>1. /\ lock' = [lock EXCEPT ![current[c]] = NoCPU]
      /\ current' = [current EXCEPT ![c] = c]
      /\ pc' = [pc EXCEPT ![c] = "guest"]
      /\ UNCHANGED <<status, aborting, pending, vi, timer, mail, due, timed>>
    BY <1>0, Zenon DEF RegsStateSaved
<1>2. NoPsci'
    BY <1>1, Zenon DEF WakeInv, NoPsci, Inv, TypeOK
<1>3. \A w \in VCpu : Settled(w)' => Settled(w)
    BY <1>0, <1>1, SchedulingAssumption, ZenonT(180) DEF Settled, Inv, TypeOK
<1>4. \A w \in VCpu : Woken(w)'
    BY <1>1, <1>3, ZenonT(180) DEF WakeInv, Woken, Runnable, MessageArrived, Interrupted, Blocked
<1>5. \A w \in VCpu : Signalled(w)'
    BY <1>1, SchedulingAssumption, ZenonT(180) DEF Signalled, WakeInv, Inv, TypeOK
<1> QED BY <1>2, <1>4, <1>5, Zenon DEF WakeInv

\* A vCPU leaves: it is enough to look at that vCPU, and that the others
\* whose interrupts or mailboxes change are made due.
LEMMA LeaveWakes ==
    ASSUME Inv, WakeInv, NEW c \in CPU, NEW u \in VCpu, u = current[c], NEW s,
           InSecondary(c), switch_to_primary(c, s), UNCHANGED <<lock, current, vi>>,
           \A w \in VCpu : due[w] => due'[w],
           \A w \in VCpu : w # u => timed'[w] = timed[w] /\ timer'[w] = timer[w],
           \A w \in VCpu : pending'[w] => pending[w] \/ due'[w],
           \A w \in VCpu : aborting[VmOf[w]] => aborting'[VmOf[w]],
           \A w \in VCpu : mail'[VmOf[w]] = "Received" => mail[VmOf[w]] = "Received" \/ due'[w],
           ~aborting'[VmOf[u]] =>
              /\ Runnable(u)' => due'[u]
              /\ Blocked(u)' /\ timer'[u] = "armed" => timed'[u] \/ due'[u]
    PROVE  WakeInv'
<1>1. \A w \in VCpu : w # u => status'[w] = status[w]
    BY ZenonT(180) DEF switch_to_primary, Inv, TypeOK
<1>2. pc' = [pc EXCEPT ![c] = "save"]
    BY Zenon DEF switch_to_primary
<1>3. NoPsci'
    BY <1>2, ZenonT(180) DEF WakeInv, NoPsci, Inv, TypeOK
<1>4. Woken(u)'
    BY Zenon DEF Woken
<1>5. ASSUME NEW w \in VCpu, w # u PROVE Woken(w)'
    <2>1. Settled(w)' => Settled(w)
        BY <1>2, <1>5, ZenonT(180) DEF Settled, Inv, TypeOK
    <2>2. Runnable(w)' => Runnable(w) \/ due'[w]
        BY <1>1, <1>5, ZenonT(180) DEF Runnable, MessageArrived, Interrupted
    <2>3. Blocked(w)' <=> Blocked(w)
        BY <1>1, <1>5, ZenonT(180) DEF Blocked
    <2>4. Woken(w)
        BY Zenon DEF WakeInv
    <2> QED BY <2>1, <2>2, <2>3, <2>4, <1>5, WokenFrame, ZenonT(180)
<1>6. Signalled(u)'
    <2>1. \A d \in CPU : current[d] = u => d = c
        BY OneHolder, Zenon DEF Holds
    <2> QED BY <2>1, <1>2, ZenonT(180) DEF Signalled, Inv, TypeOK
<1>7. ASSUME NEW w \in VCpu, w # u PROVE Signalled(w)'
    <2>1. \A d \in CPU : current[d] = w => pc'[d] = pc[d]
        BY <1>2, <1>7, ZenonT(180) DEF Inv, TypeOK
    <2>2. Signalled(w)
        BY Zenon DEF WakeInv
    <2> QED BY <2>1, <2>2, Zenon DEF Signalled
<1> QED BY <1>3, <1>4, <1>5, <1>6, <1>7, ZenonT(180) DEF WakeInv

LEMMA LeavesWakes ==
    ASSUME Contract, Inv, WakeInv, NEW c \in CPU, Leaves(c)
    PROVE  WakeInv'
<1>1. PICK u \in VCpu : u = current[c] /\ pc[c] = "guest"
    BY ZenonT(180) DEF Leaves, Preempt, Wfi, CpuSuspend, CpuOff, Abort, MsgRecvBlocks,
           MailboxClearNotifies, InjectWakes, MessageFromVCpu, InSecondary
<1>2. pending[u] => vi[u] \/ due[u]
    BY <1>1, Zenon DEF WakeInv, Signalled
<1> USE DEF Inv, TypeOK
<1>3. CASE Preempt(c)
    <2>1. \A w \in VCpu : due'[w] <=> due[w] \/ w = u
        BY <1>1, <1>3, ZenonT(180) DEF Preempt, Wake
    <2> QED BY <1>1, <1>3, <2>1, LeaveWakes, ZenonT(180) DEF Preempt
<1>4. CASE Wfi(c)
    <2>1. /\ status'[u] = "BlockedInterrupt" /\ ~vi[u]
          /\ UNCHANGED <<aborting, pending, timer, mail>>
          /\ due' = [due EXCEPT ![u] = @ \/ timer[u] = "fired"]
          /\ timed' = [timed EXCEPT ![u] = timer[u] = "armed"]
        BY <1>1, <1>4 DEF Wfi, wait_for_interrupt, switch_to_primary, Wait
    <2>2. /\ Runnable(u)' => due'[u]
          /\ Blocked(u)' /\ timer'[u] = "armed" => timed'[u] \/ due'[u]
        BY <1>2, <2>1, ZenonT(180) DEF Runnable, MessageArrived, Interrupted
    <2>3. \A w \in VCpu : (due[w] => due'[w]) /\ (w # u => timed'[w] = timed[w])
        BY <2>1, Zenon
    <2>4. /\ InSecondary(c) /\ switch_to_primary(c, "BlockedInterrupt")
          /\ UNCHANGED <<lock, current, vi>>
        BY <1>4, Zenon DEF Wfi, wait_for_interrupt
    <2>5. /\ \A w \in VCpu : due[w] => due'[w]
          /\ \A w \in VCpu : w # u => timed'[w] = timed[w] /\ timer'[w] = timer[w]
          /\ \A w \in VCpu : pending'[w] => pending[w] \/ due'[w]
          /\ \A w \in VCpu : aborting[VmOf[w]] => aborting'[VmOf[w]]
          /\ \A w \in VCpu : mail'[VmOf[w]] = "Received" => mail[VmOf[w]] = "Received" \/ due'[w]
        BY <2>1, <2>3, Zenon
    <2> QED BY <1>1, <2>2, <2>4, <2>5, LeaveWakes, ZenonT(180)
<1>5. CASE CpuSuspend(c)
    BY <1>5, Zenon DEF CpuSuspend, Contract
<1>6. CASE CpuOff(c)
    <2>1. /\ status'[u] = "Off"
          /\ UNCHANGED <<aborting, pending, mail>>
          /\ timer' = [timer EXCEPT ![u] = "off"]
          /\ due' = [due EXCEPT ![u] = @ \/ "off" = "fired"]
          /\ timed' = [timed EXCEPT ![u] = "off" = "armed"]
        BY <1>1, <1>6 DEF CpuOff, switch_to_primary, Wait
    <2>2. ~Runnable(u)' /\ ~Blocked(u)'
        BY <2>1, ZenonT(180) DEF Runnable, MessageArrived, Blocked
    <2>3. \A w \in VCpu : /\ due[w] => due'[w]
                          /\ w # u => timed'[w] = timed[w] /\ timer'[w] = timer[w]
        BY <2>1
    <2>4. /\ InSecondary(c) /\ switch_to_primary(c, "Off") /\ UNCHANGED <<lock, current, vi>>
        BY <1>6, Zenon DEF CpuOff
    <2>5. /\ \A w \in VCpu : due[w] => due'[w]
          /\ \A w \in VCpu : w # u => timed'[w] = timed[w] /\ timer'[w] = timer[w]
          /\ \A w \in VCpu : pending'[w] => pending[w] \/ due'[w]
          /\ \A w \in VCpu : aborting[VmOf[w]] => aborting'[VmOf[w]]
          /\ \A w \in VCpu : mail'[VmOf[w]] = "Received" => mail[VmOf[w]] = "Received" \/ due'[w]
        BY <2>1, <2>3, Zenon
    <2> QED BY <1>1, <2>2, <2>4, <2>5, LeaveWakes, ZenonT(180)
<1>7. CASE Abort(c)
    <2>1. \A w \in VCpu : due[w] => due'[w]
        BY <1>7, Zenon DEF Abort, Wake
    <2>2. /\ aborting'[VmOf[u]]
          /\ \A w \in VCpu : aborting[VmOf[w]] => aborting'[VmOf[w]]
        BY <1>1, <1>7, SchedulingAssumption, Zenon DEF Abort
    <2> QED BY <1>1, <1>7, <2>1, <2>2, LeaveWakes, ZenonT(180) DEF Abort
<1>8. CASE MsgRecvBlocks(c)
    <2>1. /\ status'[u] = "BlockedMailbox" /\ ~pending[u] /\ mail[VmOf[u]] # "Received"
          /\ UNCHANGED <<aborting, pending, timer, mail>>
          /\ due' = [due EXCEPT ![u] = @ \/ timer[u] = "fired"]
          /\ timed' = [timed EXCEPT ![u] = timer[u] = "armed"]
        BY <1>1, <1>8 DEF MsgRecvBlocks, switch_to_primary, Wait
    <2>2. /\ Runnable(u)' => due'[u]
          /\ Blocked(u)' /\ timer'[u] = "armed" => timed'[u] \/ due'[u]
        BY <2>1, ZenonT(180) DEF Runnable, MessageArrived, Interrupted
    <2>3. \A w \in VCpu : (due[w] => due'[w]) /\ (w # u => timed'[w] = timed[w])
        BY <2>1, ZenonT(180)
    <2>4. /\ InSecondary(c) /\ switch_to_primary(c, "BlockedMailbox")
          /\ UNCHANGED <<lock, current, vi>>
        BY <1>8, Zenon DEF MsgRecvBlocks
    <2>5. /\ \A w \in VCpu : due[w] => due'[w]
          /\ \A w \in VCpu : w # u => timed'[w] = timed[w] /\ timer'[w] = timer[w]
          /\ \A w \in VCpu : pending'[w] => pending[w] \/ due'[w]
          /\ \A w \in VCpu : aborting[VmOf[w]] => aborting'[VmOf[w]]
          /\ \A w \in VCpu : mail'[VmOf[w]] = "Received" => mail[VmOf[w]] = "Received" \/ due'[w]
        BY <2>1, <2>3, Zenon
    <2> QED BY <1>1, <2>2, <2>4, <2>5, LeaveWakes, ZenonT(180)
<1>9. CASE MailboxClearNotifies(c)
    <2>1. \A w \in VCpu : due'[w] <=> due[w] \/ w = u
        BY <1>1, <1>9, ZenonT(180) DEF MailboxClearNotifies, Wake
    <2>2. \A w \in VCpu : mail'[VmOf[w]] = "Received" => mail[VmOf[w]] = "Received"
        BY <1>1, <1>9, SchedulingAssumption DEF MailboxClearNotifies
    <2> QED BY <1>1, <1>9, <2>1, <2>2, LeaveWakes, ZenonT(180) DEF MailboxClearNotifies
<1>10. ASSUME NEW w \in VCpu, InjectWakes(c, w) PROVE WakeInv'
    <2>1. \A x \in VCpu : due'[x] <=> due[x] \/ x \in {w, u}
        BY <1>1, <1>10, ZenonT(180) DEF InjectWakes, Wake
    <2>2. \A x \in VCpu : x # w => pending'[x] = pending[x]
        BY <1>10 DEF InjectWakes, inject
    <2> QED BY <1>1, <1>10, <2>1, <2>2, LeaveWakes, ZenonT(180) DEF InjectWakes
<1>11. ASSUME NEW v \in VM, MessageFromVCpu(c, v) PROVE WakeInv'
    <2>1. \A x \in VCpu : due'[x] <=> due[x] \/ VmOf[x] = v \/ x = u
        BY <1>1, <1>11, ZenonT(180) DEF MessageFromVCpu, Wake, VCpusOf
    <2>2. \A x \in VCpu : VmOf[x] # v => mail'[VmOf[x]] = mail[VmOf[x]]
        BY <1>11, SchedulingAssumption DEF MessageFromVCpu
    <2> QED BY <1>1, <1>11, <2>1, <2>2, LeaveWakes, ZenonT(180) DEF MessageFromVCpu
<1> QED BY <1>3, <1>4, <1>5, <1>6, <1>7, <1>8, <1>9, <1>10, <1>11, Zenon DEF Leaves

LEMMA StaysWakes ==
    ASSUME Contract, Inv, WakeInv, NEW c \in CPU, Stays(c)
    PROVE  WakeInv'
<1>1. /\ UNCHANGED <<status, lock, aborting, current, pc, due, timed>>
      /\ InSecondary(c)
    BY Zenon DEF Stays, OwnInterrupts, MsgRecvReads, MailboxClear, SetTimer
<1>2. PICK u \in VCpu : u = current[c] /\ pc[c] = "guest"
    BY <1>1, Zenon DEF InSecondary
<1>3. ~Settled(u)
    BY <1>2, NotSettled, Zenon DEF Holds
<1>4. /\ \A w \in VCpu : w # u => pending'[w] = pending[w] /\ vi'[w] = vi[w] /\ timer'[w] = timer[w]
      /\ \A w \in VCpu : mail'[VmOf[w]] = "Received" => mail[VmOf[w]] = "Received"
    BY <1>2, SchedulingAssumption, ZenonT(180)
       DEF Stays, OwnInterrupts, MsgRecvReads, MailboxClear, SetTimer, Inv, TypeOK
<1>5. pending'[u] => vi'[u] \/ due[u]
    <2>1. pending[u] => vi[u] \/ due[u]
        BY <1>2 DEF WakeInv, Signalled
    <2> QED BY <1>2, <2>1, SMTT(60) DEF Stays, OwnInterrupts, MsgRecvReads, MailboxClear,
              SetTimer, Inv,
                              TypeOK
<1>6. \A w \in VCpu : Settled(w)' <=> Settled(w)
    BY <1>1, Zenon DEF Settled
<1>7. ASSUME NEW w \in VCpu PROVE Woken(w)'
    <2>1. CASE w = u
        BY <2>1, <1>3, <1>6, ZenonT(180) DEF Woken
    <2>2. CASE w # u
        <3>1. Runnable(w)' => Runnable(w)
            BY <2>2, <1>1, <1>4, ZenonT(180) DEF Runnable, MessageArrived, Interrupted
        <3> QED BY <2>2, <3>1, <1>1, <1>4, <1>6, ZenonT(180) DEF WakeInv, Woken, Blocked
    <2> QED BY <2>1, <2>2, Zenon
<1>8. \A w \in VCpu : Signalled(w)'
    BY <1>1, <1>4, <1>5, ZenonT(180) DEF WakeInv, Signalled
<1>9. NoPsci'
    BY <1>1 DEF WakeInv, NoPsci
<1> QED BY <1>7, <1>8, <1>9, Zenon DEF WakeInv

LEMMA SignalsWake ==
    ASSUME Contract, Inv, WakeInv, Signals
    PROVE  WakeInv'
<1>1. CASE \E u \in VCpu, c \in CPU : TryLockFails(c, u)
    BY <1>1, NoTryLockFails
<1>2. CASE ~\E u \in VCpu, c \in CPU : TryLockFails(c, u)
    <2>1. UNCHANGED <<status, lock, aborting, current, pc, vi, timed>>
        BY <1>2, ZenonT(180) DEF Signals, TimerFires, PrimaryInjects, MessageFromPrimary
    <2>2. \A w \in VCpu : Settled(w)' <=> Settled(w)
        BY <2>1 DEF Settled
    <2>3. ASSUME NEW w \in VCpu
          PROVE  /\ due[w] => due'[w]
                 /\ pending'[w] => pending[w] \/ due'[w]
                 /\ mail'[VmOf[w]] = "Received" => mail[VmOf[w]] = "Received" \/ due'[w]
                 /\ timer'[w] = timer[w] \/ (timer[w] = "armed" /\ timer'[w] = "fired"
                                              /\ (timed[w] => due'[w]))
        <3> USE DEF Inv, TypeOK
        <3>1. ASSUME NEW u \in VCpu, TimerFires(u) PROVE <2>3!2
            BY <3>1, Zenon DEF TimerFires
        <3>2. ASSUME NEW u \in VCpu, NEW c \in CPU, PrimaryInjects(c, u) PROVE <2>3!2
            BY <3>2, ZenonT(180) DEF PrimaryInjects, inject, first, Wake
        <3>3. ASSUME NEW c \in CPU, NEW v \in VM, MessageFromPrimary(c, v) PROVE <2>3!2
            BY <3>3, SchedulingAssumption, ZenonT(180) DEF MessageFromPrimary, Wake, VCpusOf
        <3> QED BY <1>2, <3>1, <3>2, <3>3, ZenonT(180) DEF Signals
    <2>4. ASSUME NEW w \in VCpu PROVE Woken(w)'
        <3>1. Woken(w)
            BY Zenon DEF WakeInv
        <3>2. CASE timer'[w] = timer[w]
            <4>1. Runnable(w)' => Runnable(w) \/ due'[w]
                BY <3>2, <2>1, <2>3, Zenon DEF Runnable, MessageArrived, Interrupted
            <4> QED BY <3>1, <3>2, <4>1, <2>1, <2>2, <2>3, ZenonT(180) DEF Woken, Blocked
        <3>3. CASE timer[w] = "armed" /\ timer'[w] = "fired" /\ (timed[w] => due'[w])
            BY <3>1, <3>3, <2>1, <2>2, <2>3, Zenon
               DEF Woken, Blocked, Runnable, MessageArrived, Interrupted
        <3> QED BY <3>2, <3>3, <2>3, ZenonT(180)
    <2>5. \A w \in VCpu : Signalled(w)'
        BY <2>1, <2>3, ZenonT(180) DEF WakeInv, Signalled
    <2>6. NoPsci'
        BY <2>1 DEF WakeInv, NoPsci
    <2> QED BY <2>4, <2>5, <2>6, Zenon DEF WakeInv
<1> QED BY <1>1, <1>2

\* Under a scheduler that runs a vCPU on one CPU at a time, and VMs that make
\* no PSCI call but CPU_OFF, a vCPU that can run is one that the scheduler
\* has been told to run: no interrupt, message or timer slips between a vCPU
\* that blocks or is refused and the one that wakes it (api_vcpu_run,
\* switch_to_primary, internal_interrupt_inject, api_spci_msg_send).
THEOREM WakeUpsAreKept == Contract => (Spec => []NoLostWakeUp)
<1> SUFFICES ASSUME Contract PROVE Spec => []NoLostWakeUp
    OBVIOUS
<1>1. Inv /\ WakeInv /\ [Next]_vars => WakeInv'
    <2> SUFFICES ASSUME Inv, WakeInv, [Next]_vars PROVE WakeInv'
        OBVIOUS
    <2>1. ASSUME NEW c \in CPU, Hypervisor(c) PROVE WakeInv'
        <3>1. ~(CpuOnLock(c) \/ CpuOnStarts(c) \/ CpuOnAlreadyOn(c) \/ AffinityInfoDone(c))
            BY DEF CpuOnLock, CpuOnStarts, CpuOnAlreadyOn, AffinityInfoDone, WakeInv, NoPsci
        <3> QED BY <2>1, <3>1, PrepareRefusesWakes, PrepareRunsWakes, EnterWakes,
                   SaveRegsWakes, RegsStateSavedWakes, Zenon DEF Hypervisor
    <2>2. ASSUME NEW c \in CPU, NEW u \in VCpu, TryLock(c, u) \/ CpuOn(c, u) \/ AffinityInfo(c, u)
          PROVE  WakeInv'
        <3>1. ~(CpuOn(c, u) \/ AffinityInfo(c, u))
            BY Zenon DEF CpuOn, AffinityInfo, Contract
        <3> QED BY <2>2, <3>1, TryLockWakes, Zenon
    <2>3. CASE UNCHANGED vars
        BY <2>3, ZenonT(180) DEF vars, WakeInv, NoPsci, Woken, Signalled, Settled, Runnable,
           MessageArrived,
                    Interrupted, Blocked
    <2> QED BY <2>1, <2>2, <2>3, NextCases, LeavesWakes, StaysWakes, SignalsWake
<1>2. WakeInv => NoLostWakeUp
    BY DEF WakeInv, Woken, Settled, NoLostWakeUp
<1> QED BY <1>1, <1>2, WakeInit, SchedulingInvariant, PTL DEF Spec
===============================================================================
