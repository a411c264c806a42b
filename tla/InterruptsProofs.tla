-------------------------- MODULE InterruptsProofs --------------------------
(***************************************************************************)
(* The count of Interrupts is exact and no interrupt is silent, for every  *)
(* number of interrupts.  The properties are inductive taken together: the *)
(* count tells whether an interrupt is enabled and pending only as long as *)
(* it is exact.                                                            *)
(***************************************************************************)
EXTENDS Interrupts, FiniteSetTheorems, TLAPS

\* What the operations of Interrupts keep.
Exact ==
  /\ enabled \subseteq IntId
  /\ pending \subseteq IntId
  /\ CountExact

\* What the calls that use them keep.
Rest ==
  /\ vi \in BOOLEAN
  /\ state \in {"running", "ready", "blocked", "off", "aborted"}
  /\ told \in BOOLEAN
  /\ passed \in BOOLEAN
  /\ NoSilentInterrupt

\* The inductive invariant.
IInv == Exact /\ Rest

\* A set of interrupts has a size between zero and NumIntIds, and zero only if
\* it is empty.
LEMMA SizeOfSet ==
  \A S \in SUBSET IntId :
    IsFiniteSet(S) /\ Cardinality(S) \in 0 .. NumIntIds /\ (Cardinality(S) = 0 <=> S = {})
<1>1. IsFiniteSet(IntId) /\ Cardinality(IntId) = NumIntIds
  <2>1. NumIntIds - 1 \in Int /\ (0 > NumIntIds - 1 <=> NumIntIds = 0)
    BY InterruptsAssumption
  <2>2. IsFiniteSet(0 .. NumIntIds - 1)
        /\ Cardinality(0 .. NumIntIds - 1) =
             IF 0 > NumIntIds - 1 THEN 0 ELSE NumIntIds - 1 - 0 + 1
    BY <2>1, FS_Interval
  <2> QED  BY <2>1, <2>2, InterruptsAssumption DEF IntId
<1> TAKE S \in SUBSET IntId
<1>2. IsFiniteSet(S) /\ Cardinality(S) <= Cardinality(IntId)
  BY <1>1, FS_Subset
<1>3. Cardinality(S) \in Nat
  BY <1>2, FS_CardinalityType
<1>4. Cardinality(S) = 0 <=> S = {}
  BY <1>2, FS_EmptySet
<1> QED  BY <1>1, <1>2, <1>3, <1>4, InterruptsAssumption

\* Adding or removing one element.
LEMMA OneMore ==
  ASSUME NEW S \in SUBSET IntId, NEW x \in IntId, x \notin S
  PROVE  Cardinality(S \cup {x}) = Cardinality(S) + 1
BY SizeOfSet, FS_AddElement

LEMMA OneLess ==
  ASSUME NEW S \in SUBSET IntId, NEW x \in S
  PROVE  Cardinality(S \ {x}) = Cardinality(S) - 1
BY SizeOfSet, FS_RemoveElement

\* The operations keep the count exact.
LEMMA InjectExact ==
  ASSUME Exact, NEW intid \in IntId, inject(intid), UNCHANGED enabled
  PROVE  Exact'
<1>1. CASE Counts(intid)
  <2>1. EnabledAndPending' = EnabledAndPending \cup {intid}
    BY <1>1 DEF inject, Counts, EnabledAndPending
  <2>2. intid \notin EnabledAndPending /\ EnabledAndPending \in SUBSET IntId
    BY <1>1 DEF Counts, EnabledAndPending, Exact
  <2>3. Cardinality(EnabledAndPending') = Cardinality(EnabledAndPending) + 1
    BY <2>1, <2>2, OneMore
  <2> QED  BY <1>1, <2>3 DEF Exact, CountExact, inject
<1>2. CASE ~Counts(intid)
  <2>1. EnabledAndPending' = EnabledAndPending
    BY <1>2 DEF inject, Counts, EnabledAndPending
  <2> QED  BY <1>2, <2>1 DEF Exact, CountExact, inject
<1> QED  BY <1>1, <1>2

LEMMA EnableExact ==
  ASSUME Exact, NEW intid \in IntId, enable(intid), UNCHANGED pending
  PROVE  Exact'
<1>1. CASE intid \in pending \ enabled
  <2>1. EnabledAndPending' = EnabledAndPending \cup {intid}
    BY <1>1 DEF enable, EnabledAndPending
  <2>2. intid \notin EnabledAndPending /\ EnabledAndPending \in SUBSET IntId
    BY <1>1 DEF EnabledAndPending, Exact
  <2>3. Cardinality(EnabledAndPending') = Cardinality(EnabledAndPending) + 1
    BY <2>1, <2>2, OneMore
  <2> QED  BY <1>1, <2>3 DEF Exact, CountExact, enable
<1>2. CASE intid \notin pending \ enabled
  <2>1. EnabledAndPending' = EnabledAndPending
    BY <1>2 DEF enable, EnabledAndPending
  <2> QED  BY <1>2, <2>1 DEF Exact, CountExact, enable
<1> QED  BY <1>1, <1>2

LEMMA DisableExact ==
  ASSUME Exact, NEW intid \in IntId, disable(intid), UNCHANGED pending
  PROVE  Exact'
<1>1. CASE intid \in pending \cap enabled
  <2>1. EnabledAndPending' = EnabledAndPending \ {intid}
    BY <1>1 DEF disable, EnabledAndPending
  <2>2. intid \in EnabledAndPending /\ EnabledAndPending \in SUBSET IntId
    BY <1>1 DEF EnabledAndPending, Exact
  <2>3. Cardinality(EnabledAndPending') = Cardinality(EnabledAndPending) - 1
    BY <2>1, <2>2, OneLess
  <2> QED  BY <1>1, <2>3 DEF Exact, CountExact, disable
<1>2. CASE intid \notin pending \cap enabled
  <2>1. EnabledAndPending' = EnabledAndPending
    BY <1>2 DEF disable, EnabledAndPending
  <2> QED  BY <1>2, <2>1 DEF Exact, CountExact, disable
<1> QED  BY <1>1, <1>2

LEMMA GetExact ==
  ASSUME Exact, get, UNCHANGED enabled
  PROVE  Exact'
<1>1. PICK intid \in EnabledAndPending : pending' = pending \ {intid} /\ count' = count - 1
  BY DEF get
<1>2. EnabledAndPending' = EnabledAndPending \ {intid} /\ EnabledAndPending \in SUBSET IntId
  BY <1>1 DEF EnabledAndPending, Exact
<1>3. Cardinality(EnabledAndPending') = Cardinality(EnabledAndPending) - 1
  BY <1>2, OneLess
<1> QED  BY <1>1, <1>3 DEF Exact, CountExact

\* An exact count is within bounds, and is zero only when nothing is enabled
\* and pending; now and after a step.
LEMMA CountTells ==
  /\ Exact => count \in 0 .. NumIntIds /\ (count > 0 <=> EnabledAndPending # {})
  /\ Exact' => (count' > 0 <=> EnabledAndPending' # {})
<1>1. ASSUME NEW S \in SUBSET IntId, NEW n, n = Cardinality(S)
      PROVE  n \in 0 .. NumIntIds /\ (n > 0 <=> S # {})
  BY <1>1, SizeOfSet, InterruptsAssumption
<1>2. Exact => EnabledAndPending \in SUBSET IntId /\ count = Cardinality(EnabledAndPending)
  BY DEF Exact, CountExact, EnabledAndPending
<1>3. Exact' => EnabledAndPending' \in SUBSET IntId /\ count' = Cardinality(EnabledAndPending')
  BY DEF Exact, CountExact, EnabledAndPending
<1> QED  BY <1>1, <1>2, <1>3

\* Every step keeps the count exact.
LEMMA StepExact ==
  ASSUME IInv, [Next]_vars
  PROVE  Exact'
<1>0. Exact
  BY DEF IInv
<1>1. ASSUME NEW intid \in IntId, Inject(intid) \/ InjectSelf(intid)
      PROVE  Exact'
  BY <1>0, <1>1, InjectExact DEF Inject, InjectSelf
<1>2. ASSUME NEW intid \in IntId, InterruptEnable(intid)
      PROVE  Exact'
  BY <1>0, <1>2, EnableExact, DisableExact DEF InterruptEnable
<1>3. CASE InterruptGet
  BY <1>0, <1>3, GetExact DEF InterruptGet
<1>4. CASE Run
  <2>1. TimerIntId \in IntId
    BY InterruptsAssumption DEF IntId
  <2>2. enabled' = enabled /\ (inject(TimerIntId) \/ UNCHANGED <<pending, count>>)
    BY <1>4 DEF Run
  <2>3. CASE UNCHANGED <<pending, count>>
    BY <1>0, <2>2, <2>3 DEF Exact, CountExact, EnabledAndPending
  <2> QED  BY <1>0, <2>1, <2>2, <2>3, InjectExact
<1>5. CASE MsgRecvBlocks \/ Wfi \/ Preempt \/ Wake \/ UNCHANGED vars
  BY <1>0, <1>5 DEF MsgRecvBlocks, Wfi, Preempt, Wake, vars, Exact, CountExact, EnabledAndPending
<1>6. CASE CpuSuspend \/ CpuOff \/ CpuOn \/ RunRefused \/ RunLocked
  BY <1>0, <1>6 DEF CpuSuspend, CpuOff, CpuOn, RunRefused, RunLocked, Exact, CountExact,
              EnabledAndPending
<1> QED  BY <1>1, <1>2, <1>3, <1>4, <1>5, <1>6 DEF Next

\* A running vCPU whose virtual interrupt bit is up to date has been signalled.
LEMMA Updated ==
  ASSUME Exact', state' = "running", update_vi, told' \in BOOLEAN
  PROVE  Rest'
<1>1. count' > 0 <=> EnabledAndPending' # {}
  BY CountTells
<1>2. (count' > 0) \in BOOLEAN
  OBVIOUS
<1>3. vi' \in BOOLEAN /\ (vi' <=> EnabledAndPending' # {}) /\ passed' = FALSE
  BY <1>1, <1>2, Zenon DEF update_vi
<1> QED  BY <1>3, Zenon DEF Rest, NoSilentInterrupt, Silent

\* After a step that tells the scheduler, nothing is silent.
LEMMA Told ==
  ASSUME Rest, Tell, UNCHANGED vi \/ vi' = FALSE,
         UNCHANGED state \/ state' = "ready"
  PROVE  Rest'
BY Zenon DEF Rest, Tell, NoSilentInterrupt, Silent

\* A step that leaves the interrupts alone makes none silent if it keeps told
\* and the vCPU is stopped for good, or signalled as before, or if there is
\* nothing to take.
LEMMA Quiet ==
  ASSUME IInv, UNCHANGED <<enabled, pending, vi, passed>>,
         state' \in {"running", "ready", "blocked", "off", "aborted"}, told' \in BOOLEAN,
         \/ state' \in {"off", "aborted"}
         \/ UNCHANGED told /\ (UNCHANGED state \/ (state = "running" /\ ~vi))
         \/ ~(count > 0)
  PROVE  Rest'
<1>1. EnabledAndPending' = EnabledAndPending
  BY DEF EnabledAndPending
<1>2. count > 0 <=> EnabledAndPending # {}
  BY CountTells DEF IInv
<1> QED  BY <1>1, <1>2, ZenonT(180) DEF IInv, Rest, NoSilentInterrupt, Silent

\* Every step keeps the whole invariant: whoever makes the first interrupt
\* pending tells the scheduler or is the vCPU itself, and a vCPU that stops
\* without being told to run again has nothing pending, or passes over it.
LEMMA StepRest ==
  ASSUME IInv, [Next]_vars
  PROVE  Rest'
<1>1. Exact /\ Exact' /\ (count > 0 <=> EnabledAndPending # {}) /\ count \in Nat /\ Rest
  BY StepExact, CountTells DEF IInv
<1>2. ASSUME NEW intid \in IntId, Inject(intid)
      PROVE  Rest'
  <2>1. CASE InjectOk(intid)
    BY <1>1, <1>2, <2>1, Told DEF Inject
  <2>2. CASE ~InjectOk(intid)
    <3>1. EnabledAndPending' # {} => EnabledAndPending # {} \/ Counts(intid)
      BY <1>2 DEF Inject, inject, Counts, EnabledAndPending
    <3>2. EnabledAndPending = {} => count + 1 = 1
      BY <1>1
    <3>3. EnabledAndPending' # {} => EnabledAndPending # {}
      BY <2>2, <3>1, <3>2 DEF InjectOk
    <3>4. UNCHANGED <<vi, state, told, passed>>
      BY <1>2, <2>2 DEF Inject
    <3> QED  BY <1>1, <3>3, <3>4, ZenonT(180) DEF Rest, NoSilentInterrupt, Silent
  <2> QED  BY <2>1, <2>2
<1>3. ASSUME NEW intid \in IntId, InjectSelf(intid) \/ InterruptEnable(intid)
      PROVE  Rest'
  BY <1>1, <1>3, Updated DEF InjectSelf, InterruptEnable, Rest
<1>4. CASE InterruptGet
  BY <1>1, <1>4, Updated DEF InterruptGet, Rest
<1>5. CASE Preempt \/ Wake \/ CpuOn
  BY <1>1, <1>5, Told DEF Preempt, Wake, CpuOn
<1>6. CASE MsgRecvBlocks \/ Wfi \/ CpuOff \/ RunRefused \/ UNCHANGED vars
  BY <1>1, <1>6, Quiet DEF MsgRecvBlocks, Wfi, CpuOff, RunRefused, vars, is_interrupted, Rest
<1>7. CASE CpuSuspend \/ RunLocked
  <2>1. EnabledAndPending' = EnabledAndPending /\ passed' = (passed \/ count > 0)
    BY <1>7 DEF CpuSuspend, RunLocked, PassOver, is_interrupted, EnabledAndPending
  <2>2. vi' = vi /\ (state' = state \/ state' = "blocked") /\ (told' = told \/ told' = FALSE)
    BY <1>7 DEF CpuSuspend, RunLocked
  <2>3. passed' \in BOOLEAN /\ (EnabledAndPending' # {} => passed')
    BY <1>1, <2>1, Zenon DEF Rest
  <2> QED  BY <1>1, <2>2, <2>3, ZenonT(180) DEF Rest, NoSilentInterrupt, Silent
<1>8. CASE Run
  <2>1. CASE state' = "running" /\ update_vi /\ told' = FALSE
    BY <1>1, <2>1, Updated
  <2>2. CASE ~(count > 0) /\ told' = FALSE /\ UNCHANGED <<enabled, pending, vi, state, passed>>
    BY <1>1, <2>2, Quiet DEF Rest
  <2> QED  BY <1>8, <2>1, <2>2, ZenonT(180) DEF Run, is_interrupted
<1> QED  BY <1>2, <1>3, <1>4, <1>5, <1>6, <1>7, <1>8 DEF Next

LEMMA StepIInv ==
  ASSUME IInv, [Next]_vars
  PROVE  IInv'
BY StepExact, StepRest DEF IInv

\* The invariant holds in every reachable state.
THEOREM Invariance == Spec => []IInv
<1>1. Init => IInv
  BY FS_EmptySet, ZenonT(180) DEF Init, IInv, Rest, Exact, CountExact, NoSilentInterrupt, Silent,
                                 EnabledAndPending
<1>2. IInv /\ [Next]_vars => IInv'
  BY StepIInv
<1> QED  BY <1>1, <1>2, PTL DEF Spec

\* Every variable has its type; in particular the u32 count never wraps.
THEOREM TypeCorrect == Spec => []TypeOK
<1>1. IInv => TypeOK
  BY CountTells DEF IInv, Rest, Exact, TypeOK
<1> QED  BY <1>1, Invariance, PTL

\* enabled_and_pending_count is the number of interrupts that are enabled and
\* pending.
THEOREM CountIsExact == Spec => []CountExact
<1>1. IInv => CountExact
  BY DEF IInv, Exact
<1> QED  BY <1>1, Invariance, PTL

\* An interrupt that can be taken is signalled or the scheduler told of it,
\* unless CPU_SUSPEND or a run that found the lock taken passed over it.
THEOREM InterruptsAreNotSilent == Spec => []NoSilentInterrupt
<1>1. IInv => NoSilentInterrupt
  BY DEF IInv, Rest
<1> QED  BY <1>1, Invariance, PTL
=============================================================================
