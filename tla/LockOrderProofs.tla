--------------------------- MODULE LockOrderProofs ---------------------------
(***************************************************************************)
(* Every call but a secondary's CPU_ON takes its locks in the documented   *)
(* order, for any number of CPUs, VMs and vCPUs.                           *)
(*                                                                         *)
(* Runs(H, s, K) says that the operations s, begun with the locks H held,  *)
(* take each lock in the order, release only what is held and end with the *)
(* locks K.  It holds of the sequence of every other call, by lemmas that  *)
(* follow the nesting of the guards in the code, and of what is left of a  *)
(* call in every reachable state.                                          *)
(***************************************************************************)
EXTENDS LockOrder, SequenceTheorems, WellFoundedInduction, TLAPS

Op == [op : {"acquire", "release"}, lock : Lock]

\* One operation takes the locks held from H to K.  It does not wait for the
\* execution lock of a secondary's vCPU.
Does(H, o, K) ==
    \/ /\ o.op = "acquire" /\ o.lock[1] # "execution"
       /\ \A l \in H : Before(l, o.lock)
       /\ K = H \cup {o.lock}
    \/ o.op = "release" /\ o.lock \in H /\ K = H \ {o.lock}

Passes(h, s) ==
    /\ h \in [1 .. Len(s) + 1 -> SUBSET Lock]
    /\ \A i \in 1 .. Len(s) : Does(h[i], s[i], h[i + 1])

Runs(H, s, K) ==
    /\ s \in Seq(Op)
    /\ \E h : Passes(h, s) /\ h[1] = H /\ h[Len(s) + 1] = K

LEMMA RunsNothing ==
    ASSUME NEW H \in SUBSET Lock
    PROVE  Runs(H, <<>>, H)
<1> DEFINE h == [i \in 1 .. 1 |-> H]
<1>1. <<>> \in Seq(Op) /\ Len(<<>>) = 0
  OBVIOUS
<1>2. Passes(h, <<>>) /\ h[1] = H
  BY <1>1 DEF Passes
<1> QED
  BY <1>1, <1>2 DEF Runs

LEMMA NothingRuns ==
    ASSUME NEW H, NEW K, Runs(H, <<>>, K)
    PROVE  H = K
BY DEF Runs

LEMMA RunsOne ==
    ASSUME NEW H \in SUBSET Lock, NEW K \in SUBSET Lock, NEW o \in Op, Does(H, o, K)
    PROVE  Runs(H, <<o>>, K)
<1> DEFINE h == [i \in 1 .. 2 |-> IF i = 1 THEN H ELSE K]
<1>1. <<o>> \in Seq(Op) /\ Len(<<o>>) = 1 /\ <<o>>[1] = o
  OBVIOUS
<1>2. Passes(h, <<o>>) /\ h[1] = H /\ h[2] = K
  BY <1>1 DEF Passes
<1> QED
  BY <1>1, <1>2 DEF Runs

\* One sequence after another.
LEMMA RunsBoth ==
    ASSUME NEW H, NEW J, NEW K, NEW s, NEW t, Runs(H, s, J), Runs(J, t, K)
    PROVE  Runs(H, s \o t, K)
<1>1. PICK h : Passes(h, s) /\ h[1] = H /\ h[Len(s) + 1] = J
  BY DEF Runs
<1>2. PICK g : Passes(g, t) /\ g[1] = J /\ g[Len(t) + 1] = K
  BY DEF Runs
<1>3. s \in Seq(Op) /\ t \in Seq(Op) /\ Len(s) \in Nat /\ Len(t) \in Nat
  BY LenProperties DEF Runs
<1>4. /\ s \o t \in Seq(Op)
      /\ Len(s \o t) = Len(s) + Len(t)
      /\ \A i \in 1 .. Len(s) + Len(t) :
           (s \o t)[i] = IF i <= Len(s) THEN s[i] ELSE t[i - Len(s)]
  BY <1>3, ConcatProperties, Zenon
<1> DEFINE f == [i \in 1 .. Len(s) + Len(t) + 1 |->
                   IF i <= Len(s) + 1 THEN h[i] ELSE g[i - Len(s)]]
<1>5. f \in [1 .. Len(s) + Len(t) + 1 -> SUBSET Lock]
  BY <1>1, <1>2, <1>3 DEF Passes
<1>6. f[1] = H /\ f[Len(s) + Len(t) + 1] = K
  BY <1>1, <1>2, <1>3
<1>7. \A i \in 1 .. Len(s) + Len(t) + 1 :
        f[i] = IF i <= Len(s) + 1 THEN h[i] ELSE g[i - Len(s)]
  OBVIOUS
<1> HIDE DEF f
<1>8. ASSUME NEW i \in 1 .. Len(s) + Len(t)
      PROVE  Does(f[i], (s \o t)[i], f[i + 1])
  <2>1. CASE i <= Len(s)
    <3>1. i \in 1 .. Len(s) /\ (s \o t)[i] = s[i]
      BY <1>3, <1>4, <2>1
    <3>2. f[i] = h[i] /\ f[i + 1] = h[i + 1]
      BY <1>3, <1>7, <2>1
    <3> QED
      BY <1>1, <3>1, <3>2 DEF Passes
  <2>2. CASE ~(i <= Len(s))
    <3>1. i - Len(s) \in 1 .. Len(t)
      BY <1>3, <2>2
    <3>2. PICK j \in 1 .. Len(t) : j = i - Len(s)
      BY <3>1, Zenon
    <3>3. f[i] = g[j] /\ f[i + 1] = g[j + 1] /\ (s \o t)[i] = t[j]
      <4>1. f[i] = g[j]
        BY <1>1, <1>2, <1>3, <1>7, <2>2, <3>2, SMTT(60)
      <4>2. f[i + 1] = g[j + 1]
        BY <1>3, <1>7, <2>2, <3>2
      <4> QED
        BY <1>3, <1>4, <2>2, <3>2, <4>1, <4>2
    <3> QED
      BY <1>2, <3>3 DEF Passes
  <2> QED
    BY <2>1, <2>2
<1>9. Passes(f, s \o t)
  BY <1>4, <1>5, <1>8 DEF Passes
<1> QED
  BY <1>4, <1>6, <1>9 DEF Runs

LEMMA ConcatOne ==
    ASSUME NEW a, NEW b
    PROVE  <<a>> \o <<b>> = <<a, b>>
<1>1. /\ <<a>> \in Seq({a, b}) /\ <<b>> \in Seq({a, b}) /\ <<a, b>> \in Seq({a, b})
      /\ Len(<<a>>) = 1 /\ Len(<<b>>) = 1 /\ Len(<<a, b>>) = 2
  OBVIOUS
<1>2. /\ <<a>> \o <<b>> \in Seq({a, b})
      /\ Len(<<a>> \o <<b>>) = Len(<<a>>) + Len(<<b>>)
      /\ \A i \in 1 .. Len(<<a>>) + Len(<<b>>) :
           (<<a>> \o <<b>>)[i] = IF i <= Len(<<a>>) THEN <<a>>[i] ELSE <<b>>[i - Len(<<a>>)]
  BY <1>1, ConcatProperties, ZenonT(180)
<1> DEFINE s == <<a>> \o <<b>>
<1>3. s \in Seq({a, b}) /\ Len(s) = 2 /\ s[1] = a /\ s[2] = b
  BY <1>1, <1>2
<1> HIDE DEF s
<1>4. \A i \in 1 .. Len(s) : s[i] = <<a, b>>[i]
  BY <1>3
<1>5. s = <<a, b>>
  BY <1>1, <1>3, <1>4, SeqEqual
<1> QED
  BY <1>5 DEF s

\* What is left of a sequence after its first operation.
LEMMA RunsTail ==
    ASSUME NEW H, NEW K, NEW s, Runs(H, s, K), s # <<>>
    PROVE  \E J \in SUBSET Lock : Does(H, Head(s), J) /\ Runs(J, Tail(s), K)
<1>1. PICK h : Passes(h, s) /\ h[1] = H /\ h[Len(s) + 1] = K
  BY DEF Runs
<1>2. /\ s \in Seq(Op) /\ Len(s) \in Nat /\ Len(s) >= 1
      /\ Tail(s) \in Seq(Op) /\ Len(Tail(s)) = Len(s) - 1 /\ Head(s) = s[1]
      /\ \A i \in 1 .. Len(Tail(s)) : Tail(s)[i] = s[i + 1]
  BY HeadTailProperties, EmptySeq DEF Runs
<1> DEFINE g == [i \in 1 .. Len(s) |-> h[i + 1]]
<1>3. Passes(g, Tail(s)) /\ g[1] = h[2] /\ g[Len(Tail(s)) + 1] = K
  BY <1>1, <1>2, SMTT(60) DEF Passes
<1>4. Runs(h[2], Tail(s), K)
  BY <1>2, <1>3 DEF Runs
<1>5. h[2] \in SUBSET Lock /\ Does(H, Head(s), h[2])
  BY <1>1, <1>2 DEF Passes
<1> QED
  BY <1>4, <1>5

-----------------------------------------------------------------------------
(* The order of the locks.                                                 *)

\* A lock of rank n that a call may wait for.
Ranked(l, n) == l \in Lock /\ Rank[l[1]] = n /\ l[1] # "execution"

\* The place of every lock in the order.
LEMMA Ranks ==
    /\ \A c \in CPU : Ranked(IsOn(c), 0) /\ Ranked(PrimaryExecution(c), 1)
    /\ \A u \in VCPU : Execution(u) \in Lock /\ Rank[Execution(u)[1]] = 1
    /\ \A v \in VM : Ranked(VmLock(v), 2)
    /\ \A u \in VCPU \cup CPU : Ranked(Interrupts(u), 3)
    /\ Ranked(Stage1, 4)
    /\ \A c \in CPU : Ranked(LocalPool(c), 5)
    /\ Ranked(Heap, 6) /\ Ranked(Dlog, 7)
BY DEF Ranked, Lock, Rank, IsOn, PrimaryExecution, Execution, VmLock, Interrupts, Stage1,
   LocalPool, Heap, Dlog

LEMMA RankIsNat == \A l \in Lock : Rank[l[1]] \in 0 .. 7
BY DEF Lock, Rank, IsOn, PrimaryExecution, Execution, VmLock, Interrupts, Stage1, LocalPool,
   Heap, Dlog

LEMMA NotBeforeItself == \A l \in Lock : ~Before(l, l)
<1> SUFFICES ASSUME NEW l \in Lock, Before(l, l) PROVE FALSE
  OBVIOUS
<1>1. ~(Rank[l[1]] < Rank[l[1]])
  BY RankIsNat
<1>2. l[1] = "vm" => l[2] \in Nat
  BY LockOrderAssumption DEF Lock, IsOn, PrimaryExecution, Execution, VmLock, Interrupts,
     Stage1, LocalPool, Heap, Dlog
<1> QED
  BY <1>1, <1>2 DEF Before

\* The locks H all come before those of rank n.
Under(H, n) == H \in SUBSET Lock /\ \A l \in H : Rank[l[1]] < n

LEMMA UnderMore ==
    ASSUME NEW n \in Nat, NEW m \in Nat, n <= m, NEW H, Under(H, n)
    PROVE  Under(H, m)
BY RankIsNat DEF Under

LEMMA UnderOne ==
    ASSUME NEW n \in Nat, NEW H, Under(H, n), NEW l, Ranked(l, n)
    PROVE  Under(H \cup {l}, n + 1) /\ (\A k \in H : Before(k, l))
BY RankIsNat DEF Under, Before, Ranked

\* What a guard protects runs with its lock added.
LEMMA RunsGuard ==
    ASSUME NEW H \in SUBSET Lock, NEW l \in Lock, l[1] # "execution",
           \A k \in H : Before(k, l), NEW s, Runs(H \cup {l}, s, H \cup {l})
    PROVE  Runs(H, Locked(l, s), H)
<1>1. l \notin H
  BY NotBeforeItself
<1>2. Acquire(l) \in Op /\ Release(l) \in Op
  BY DEF Op, Acquire, Release
<1>3. Does(H, Acquire(l), H \cup {l}) /\ Does(H \cup {l}, Release(l), H)
  BY <1>1 DEF Does, Acquire, Release
<1>4. Runs(H, <<Acquire(l)>>, H \cup {l}) /\ Runs(H \cup {l}, <<Release(l)>>, H)
  BY <1>2, <1>3, RunsOne
<1>5. Runs(H, <<Acquire(l)>> \o s, H \cup {l})
  BY <1>4, RunsBoth
<1>6. Runs(H, (<<Acquire(l)>> \o s) \o <<Release(l)>>, H)
  BY <1>4, <1>5, RunsBoth
<1> QED
  BY <1>6 DEF Locked

\* A guard of rank n, and one with nothing inside.
LEMMA RunsLocked ==
    ASSUME NEW n \in Nat, NEW H, Under(H, n), NEW l, Ranked(l, n),
           NEW s, Runs(H \cup {l}, s, H \cup {l})
    PROVE  Runs(H, Locked(l, s), H)
BY UnderOne, RunsGuard DEF Under, Ranked

LEMMA RunsBriefly ==
    ASSUME NEW n \in Nat, NEW H, Under(H, n), NEW l, Ranked(l, n)
    PROVE  Runs(H, Locked(l, <<>>), H)
<1>1. H \cup {l} \in SUBSET Lock
  BY DEF Under, Ranked
<1>2. Runs(H \cup {l}, <<>>, H \cup {l})
  BY <1>1, RunsNothing
<1> QED
  BY <1>2, RunsLocked

-----------------------------------------------------------------------------
(* The calls keep the order, and give back what they take.                 *)

LEMMA RunsPools ==
    ASSUME NEW c \in CPU, NEW H, Under(H, 5)
    PROVE  Runs(H, mpool_alloc(c), H) /\ Runs(H, mpool_drop(c), H)
<1>1. Ranked(LocalPool(c), 5) /\ Ranked(Heap, 6)
  BY Ranks
<1>2. Under(H, 6) /\ Under(H \cup {LocalPool(c)}, 6)
  BY <1>1, UnderMore, UnderOne
<1>3. Runs(H, Locked(LocalPool(c), <<>>), H) /\ Runs(H, Locked(Heap, <<>>), H)
  BY <1>1, <1>2, RunsBriefly
<1>4. Runs(H \cup {LocalPool(c)}, Locked(Heap, <<>>), H \cup {LocalPool(c)})
  BY <1>1, <1>2, RunsBriefly
<1>5. Runs(H, Locked(LocalPool(c), Locked(Heap, <<>>)), H)
  BY <1>1, <1>4, RunsLocked
<1> QED
  BY <1>3, <1>5, RunsBoth DEF mpool_alloc, mpool_drop

\* clear_memory and configure_stage1.
LEMMA RunsStage1 ==
    ASSUME NEW c \in CPU, NEW H, Under(H, 4)
    PROVE  Runs(H, Locked(Stage1, mpool_alloc(c)), H)
<1>1. Ranked(Stage1, 4)
  BY Ranks
<1>2. Under(H \cup {Stage1}, 5)
  BY <1>1, UnderOne
<1> QED
  BY <1>1, <1>2, RunsPools, RunsLocked

LEMMA RunsDlog ==
    ASSUME NEW H, Under(H, 7)
    PROVE  Runs(H, dlog, H)
BY Ranks, RunsBriefly DEF dlog

LEMMA RunsInterrupts ==
    ASSUME NEW u \in VCPU \cup CPU, NEW H, Under(H, 3)
    PROVE  Runs(H, Locked(Interrupts(u), <<>>), H)
BY Ranks, RunsBriefly, SMTT(60)

\* What a call does with the lock of one VM.
LEMMA RunsVm ==
    ASSUME NEW v \in VM, NEW H, Under(H, 2), NEW s,
           Under(H \cup {VmLock(v)}, 3) => Runs(H \cup {VmLock(v)}, s, H \cup {VmLock(v)})
    PROVE  Runs(H, Locked(VmLock(v), s), H)
BY Ranks, UnderOne, RunsLocked

LEMMA RunsVmBriefly ==
    ASSUME NEW v \in VM, NEW H, Under(H, 2)
    PROVE  Runs(H, Locked(VmLock(v), <<>>), H)
BY Ranks, RunsBriefly, ZenonT(180)

\* What a call does with the locks of two VMs, taken in the order of their
\* addresses and released in the opposite order of their declaration.
LEMMA RunsLockedBoth ==
    ASSUME NEW v \in VM, NEW w \in VM, v # w, NEW H, Under(H, 2), NEW s,
           Under(H \cup {VmLock(v), VmLock(w)}, 3) =>
             Runs(H \cup {VmLock(v), VmLock(w)}, s, H \cup {VmLock(v), VmLock(w)})
    PROVE  Runs(H, LockedBoth(v, w, s), H)
<1> DEFINE Both == H \cup {VmLock(v), VmLock(w)}
<1>1. \A x \in VM : /\ Ranked(VmLock(x), 2)
                    /\ VmLock(x) \notin H /\ \A k \in H : Before(k, VmLock(x))
                    /\ Acquire(VmLock(x)) \in Op /\ Release(VmLock(x)) \in Op
  <2> SUFFICES ASSUME NEW x \in VM
               PROVE  /\ Ranked(VmLock(x), 2)
                      /\ VmLock(x) \notin H /\ \A k \in H : Before(k, VmLock(x))
                      /\ Acquire(VmLock(x)) \in Op /\ Release(VmLock(x)) \in Op
    OBVIOUS
  <2>1. Ranked(VmLock(x), 2)
    BY Ranks
  <2>2. \A k \in H : Before(k, VmLock(x))
    BY <2>1, UnderOne, ZenonT(180)
  <2>3. VmLock(x) \notin H
    BY <2>1, <2>2, NotBeforeItself DEF Ranked
  <2> QED
    BY <2>1, <2>2, <2>3 DEF Op, Acquire, Release, Ranked
<1>2. Under(Both, 3) /\ H \in SUBSET Lock /\ Both \in SUBSET Lock
  BY <1>1, UnderMore DEF Under, Ranked
<1>3. VmLock(v) # VmLock(w)
  BY DEF VmLock
<1>4. ASSUME NEW x \in VM, NEW y \in VM, x < y, {x, y} = {v, w}
      PROVE  Runs(H, <<Acquire(VmLock(x)), Acquire(VmLock(y))>>, Both)
  <2>1. Both = (H \cup {VmLock(x)}) \cup {VmLock(y)}
    BY <1>4
  <2>2. Before(VmLock(x), VmLock(y))
    BY <1>4 DEF Before, VmLock
  <2>3. /\ Does(H, Acquire(VmLock(x)), H \cup {VmLock(x)})
        /\ Does(H \cup {VmLock(x)}, Acquire(VmLock(y)), Both)
    BY <1>1, <2>1, <2>2, ZenonT(180) DEF Does, Acquire, Ranked
  <2>4. H \cup {VmLock(x)} \in SUBSET Lock
    BY <1>1, <1>2, SMTT(60) DEF Ranked
  <2>5. /\ Runs(H, <<Acquire(VmLock(x))>>, H \cup {VmLock(x)})
        /\ Runs(H \cup {VmLock(x)}, <<Acquire(VmLock(y))>>, Both)
    BY <1>1, <1>2, <2>3, <2>4, RunsOne, SMTT(60)
  <2>6. Runs(H, <<Acquire(VmLock(x))>> \o <<Acquire(VmLock(y))>>, Both)
    BY <2>5, RunsBoth
  <2>7. <<Acquire(VmLock(x))>> \o <<Acquire(VmLock(y))>>
          = <<Acquire(VmLock(x)), Acquire(VmLock(y))>>
    BY ConcatOne
  <2> QED
    BY <2>6, <2>7, ZenonT(180)
<1>5. Runs(H, lock_both(v, w), Both)
  <2>1. v < w \/ w < v
    BY LockOrderAssumption
  <2>2. {w, v} = {v, w}
    OBVIOUS
  <2>3. v < w => ~(w < v)
    BY LockOrderAssumption
  <2> QED
    BY <1>4, <2>1, <2>2, <2>3 DEF lock_both
<1>6. Runs(Both, <<Release(VmLock(w)), Release(VmLock(v))>>, H)
  <2>1. /\ Does(Both, Release(VmLock(w)), H \cup {VmLock(v)})
        /\ Does(H \cup {VmLock(v)}, Release(VmLock(v)), H)
    <3>1. /\ VmLock(w) \notin H /\ VmLock(v) \notin H
      BY <1>1
    <3>2. /\ H \cup {VmLock(v)} = Both \ {VmLock(w)}
          /\ H = (H \cup {VmLock(v)}) \ {VmLock(v)}
      BY <1>3, <3>1
    <3>3. /\ Release(VmLock(w)).op = "release" /\ Release(VmLock(w)).lock = VmLock(w)
          /\ Release(VmLock(v)).op = "release" /\ Release(VmLock(v)).lock = VmLock(v)
      BY DEF Release
    <3> QED
      BY <3>2, <3>3, Zenon DEF Does
  <2>2. H \cup {VmLock(v)} \in SUBSET Lock
    BY <1>1, <1>2, SMTT(60) DEF Ranked
  <2>3. /\ Runs(Both, <<Release(VmLock(w))>>, H \cup {VmLock(v)})
        /\ Runs(H \cup {VmLock(v)}, <<Release(VmLock(v))>>, H)
    BY <1>1, <1>2, <2>1, <2>2, RunsOne, SMTT(60)
  <2>4. Runs(Both, <<Release(VmLock(w))>> \o <<Release(VmLock(v))>>, H)
    BY <2>3, RunsBoth
  <2>5. <<Release(VmLock(w))>> \o <<Release(VmLock(v))>>
          = <<Release(VmLock(w)), Release(VmLock(v))>>
    BY ConcatOne
  <2> QED
    BY <2>4, <2>5, ZenonT(180)
<1>7. Runs(Both, s, Both)
  BY <1>2
<1>8. Runs(H, (lock_both(v, w) \o s) \o <<Release(VmLock(w)), Release(VmLock(v))>>, H)
  BY <1>5, <1>6, <1>7, RunsBoth, SMTT(60)
<1> QED
  BY <1>8 DEF LockedBoth

LEMMA RunsVmCalls ==
    ASSUME NEW c \in CPU, NEW v \in VM, NEW H, Under(H, 2), NEW s \in VmCalls(c, v)
    PROVE  Runs(H, s, H)
<1>0. ASSUME NEW G, Under(G, 3)
      PROVE  /\ Runs(G, <<>>, G) /\ Runs(G, mpool_alloc(c), G) /\ Runs(G, mpool_drop(c), G)
             /\ Runs(G, clear_memory(c), G) /\ Runs(G, configure_stage1(c), G)
             /\ Runs(G, dlog, G)
  <2>1. Under(G, 4) /\ Under(G, 5) /\ Under(G, 7) /\ G \in SUBSET Lock
    BY <1>0, UnderMore DEF Under
  <2> QED
    BY <2>1, RunsNothing, RunsPools, RunsStage1, RunsDlog, SMTT(60) DEF clear_memory, configure_stage1
<1>1. Under(H, 3)
  BY UnderMore
<1>2. ASSUME s \in vm_configure(c, v) PROVE Runs(H, s, H)
  <2> DEFINE rest == mpool_alloc(c) \o configure_stage1(c) \o mpool_alloc(c) \o mpool_drop(c)
  <2>1. Under(H \cup {VmLock(v)}, 3) => Runs(H \cup {VmLock(v)}, rest, H \cup {VmLock(v)})
    BY <1>0, RunsBoth, ZenonT(180)
  <2> HIDE DEF rest
  <2>2. Runs(H, Locked(VmLock(v), rest), H)
    BY <2>1, RunsVm
  <2> QED
    BY <1>2, <2>2, RunsVmBriefly DEF vm_configure, rest
<1>3. ASSUME s \in own_vm(v) PROVE Runs(H, s, H)
  <2>1. Runs(H, Locked(VmLock(v), dlog), H)
    BY <1>0, RunsVm, ZenonT(180)
  <2> QED
    BY <1>3, <2>1, RunsVmBriefly DEF own_vm
<1>4. ASSUME NEW w \in VM \ {v}, s \in spci_msg_send(c, v, w) PROVE Runs(H, s, H)
  <2>1. PICK r \in {<<>>, mpool_alloc(c) \o mpool_drop(c)} :
          s = Locked(VmLock(v), <<>>) \o LockedBoth(w, v, r)
    BY <1>4, SMTT(60) DEF spci_msg_send
  <2>2. ASSUME NEW G, Under(G, 3) PROVE Runs(G, r, G)
    <3>1. Runs(G, <<>>, G) /\ Runs(G, mpool_alloc(c) \o mpool_drop(c), G)
      BY <1>0, <2>2, RunsBoth
    <3> QED
      BY <2>1, <3>1, Zenon
  <2>3. Runs(H, LockedBoth(w, v, r), H)
    BY <2>2, RunsLockedBoth, ZenonT(180)
  <2> QED
    BY <2>1, <2>3, RunsVmBriefly, RunsBoth, SMTT(60)
<1>5. ASSUME NEW w \in VM \ {v}, s \in share_memory(c, v, w) PROVE Runs(H, s, H)
  <2>1. PICK r \in {<<>>, mpool_alloc(c) \o clear_memory(c) \o mpool_alloc(c)} :
          s = LockedBoth(v, w, r) \o mpool_drop(c)
    BY <1>5, SMTT(60) DEF share_memory
  <2>2. ASSUME NEW G, Under(G, 3) PROVE Runs(G, r, G)
    <3>1. Runs(G, <<>>, G) /\ Runs(G, mpool_alloc(c) \o clear_memory(c) \o mpool_alloc(c), G)
      BY <1>0, <2>2, RunsBoth
    <3> QED
      BY <2>1, <3>1, Zenon
  <2>3. Runs(H, LockedBoth(v, w, r), H)
    BY <2>2, RunsLockedBoth, ZenonT(180)
  <2> QED
    BY <1>0, <1>1, <2>1, <2>3, RunsBoth, SMTT(60)
<1> QED
  BY <1>2, <1>3, <1>4, <1>5, SMTT(60) DEF VmCalls

LEMMA RunsPrimaryCalls ==
    ASSUME NEW c \in CPU, NEW H, Under(H, 2), NEW s \in PrimaryCalls(c)
    PROVE  Runs(H, s, H)
<1>1. Under(H, 3) /\ Under(H, 7)
  BY UnderMore
<1>2. ASSUME s \in VmCalls(c, HF_PRIMARY_VM_ID) PROVE Runs(H, s, H)
  BY <1>2, RunsVmCalls, LockOrderAssumption
<1>3. ASSUME s \in own_interrupts(c) PROVE Runs(H, s, H)
  BY <1>1, <1>3, RunsInterrupts DEF own_interrupts
<1>4. ASSUME NEW v \in VM, NEW w \in VM, s \in mailbox_waiter_get(v, w) PROVE Runs(H, s, H)
  BY <1>4, RunsVmBriefly, RunsBoth, ZenonT(180) DEF mailbox_waiter_get
<1>5. ASSUME NEW u \in VCPU \cup CPU, s \in interrupt_inject(u) PROVE Runs(H, s, H)
  BY <1>1, <1>5, RunsDlog, RunsInterrupts, RunsBoth, ZenonT(180) DEF interrupt_inject
<1> DEFINE waiters == UNION {mailbox_waiter_get(v, w) : v \in VM, w \in VM}
           injections == UNION {interrupt_inject(u) : u \in VCPU \cup CPU}
<1>6. s \in waiters => Runs(H, s, H)
  <2>1. s \in waiters => \E v \in VM, w \in VM : s \in mailbox_waiter_get(v, w)
    OBVIOUS
  <2> HIDE DEF waiters
  <2> QED
    BY <1>4, <2>1, Zenon
<1>7. s \in injections => Runs(H, s, H)
  <2>1. s \in injections => \E u \in VCPU \cup CPU : s \in interrupt_inject(u)
    OBVIOUS
  <2> HIDE DEF injections
  <2> QED
    BY <1>5, <2>1, Zenon
<1>8. PrimaryCalls(c) = VmCalls(c, HF_PRIMARY_VM_ID) \cup own_interrupts(c) \cup waiters
                          \cup injections
  BY DEF PrimaryCalls
<1> HIDE DEF waiters, injections
<1> QED
  BY <1>2, <1>3, <1>6, <1>7, <1>8

LEMMA RunsSecondaryCalls ==
    ASSUME NEW c \in CPU, NEW u \in VCPU, NEW H, Under(H, 2), NEW s \in SecondaryCalls(c, u)
    PROVE  Runs(H, s, H)
<1>0. vm_of[u] \in VM
  BY LockOrderAssumption
<1>1. Under(H, 3) /\ Under(H, 7)
  BY UnderMore
<1>2. ASSUME s \in VmCalls(c, vm_of[u]) PROVE Runs(H, s, H)
  BY <1>0, <1>2, RunsVmCalls
<1>3. ASSUME s \in own_interrupts(u) PROVE Runs(H, s, H)
  BY <1>1, <1>3, RunsInterrupts DEF own_interrupts
<1>4. ASSUME s \in spci_msg_recv(u) PROVE Runs(H, s, H)
  BY <1>0, <1>4, RunsVmBriefly, RunsVm, RunsInterrupts, ZenonT(180) DEF spci_msg_recv
<1>5. ASSUME NEW w \in VCPU, s \in interrupt_inject(w) PROVE Runs(H, s, H)
  BY <1>1, <1>5, RunsDlog, RunsInterrupts, RunsBoth, ZenonT(180) DEF interrupt_inject
<1> QED
  BY <1>2, <1>3, <1>4, <1>5 DEF SecondaryCalls

\* CPU_ON and CPU_OFF of a CPU that holds no lock: only the primary may ask.
LEMMA RunsPsciCalls ==
    ASSUME NEW c \in CPU, NEW s \in PsciCalls(c)
    PROVE  Runs({}, s, {})
<1>1. ASSUME NEW d \in CPU
      PROVE  /\ Runs({}, Locked(IsOn(d), <<>>), {})
             /\ Runs({}, Locked(IsOn(d), Locked(PrimaryExecution(d), <<>>)), {})
  <2>1. Ranked(IsOn(d), 0) /\ Ranked(PrimaryExecution(d), 1) /\ Under({}, 0)
    BY Ranks DEF Under
  <2>2. Under({} \cup {IsOn(d)}, 1)
    BY <2>1, UnderOne
  <2>3. Runs({} \cup {IsOn(d)}, Locked(PrimaryExecution(d), <<>>), {} \cup {IsOn(d)})
    BY <2>1, <2>2, RunsBriefly
  <2> QED
    BY <2>1, <2>3, RunsBriefly, RunsLocked, SMTT(60)
<1> QED
  BY <1>1 DEF PsciCalls, cpu_on, cpu_off

\* The execution locks that a CPU keeps between calls.
Kept(c) == {Execution(u) : u \in current[c]}

LEMMA RunsCalls ==
    ASSUME NEW c \in CPU, current[c] \in SUBSET VCPU, NEW s \in CallsOf(c)
    PROVE  Runs(Kept(c), s, Kept(c))
<1>1. Under(Kept(c), 2) /\ Under(Kept(c), 3)
  <2>1. Under(Kept(c), 2)
    BY Ranks DEF Under, Kept
  <2> QED
    BY <2>1, UnderMore
<1>2. \A u \in VCPU \cup CPU : Runs(Kept(c), update_vi(u), Kept(c))
  BY <1>1, RunsInterrupts DEF update_vi
<1>3. CASE current[c] = {}
  <2>1. Kept(c) = {}
    BY <1>3 DEF Kept
  <2>2. CASE s \in PsciCalls(c)
    BY <2>1, <2>2, RunsPsciCalls, SMTT(60)
  <2>3. ASSUME NEW r \in PrimaryCalls(c), s = r \o update_vi(c)
        PROVE  Runs(Kept(c), s, Kept(c))
    BY <1>1, <1>2, <2>3, RunsPrimaryCalls, RunsBoth, SMTT(60)
  <2> QED
    BY <1>3, <2>2, <2>3 DEF CallsOf
<1>4. CASE current[c] # {}
  <2>1. PICK u \in current[c] :
          s \in {r \o update_vi(next) : r \in SecondaryCalls(c, u), next \in {u, c}}
    BY <1>4, SMTT(60) DEF CallsOf
  <2>2. PICK r \in SecondaryCalls(c, u), next \in {u, c} : s = r \o update_vi(next)
    BY <2>1
  <2>3. Runs(Kept(c), r, Kept(c)) /\ Runs(Kept(c), update_vi(next), Kept(c))
    BY <1>1, <1>2, <2>1, <2>2, RunsSecondaryCalls
  <2> QED
    BY <2>2, <2>3, RunsBoth, SMTT(60)
<1> QED
  BY <1>3, <1>4

\* What vcpu_run does once it has the lock of the vCPU.
LEMMA RunsRun ==
    ASSUME NEW c \in CPU, NEW u \in VCPU
    PROVE  /\ \A s \in prepare_run(u) : Runs({Execution(u)}, s \o inject_timer(u) \o update_vi(u),
                                            {Execution(u)})
           /\ \A s \in prepare_run_err(u) :
                Runs({Execution(u)}, s \o <<Release(Execution(u))>> \o update_vi(c), {})
           /\ Runs({}, update_vi(c), {})
<1> DEFINE H == {Execution(u)}
<1>1. Under(H, 2) /\ Under(H, 3) /\ Under(H, 7) /\ Under({}, 3) /\ H \in SUBSET Lock
  <2>1. Execution(u) \in Lock /\ Rank[Execution(u)[1]] = 1
    BY Ranks
  <2>2. Under(H, 2)
    BY <2>1, 1 < 2 DEF Under
  <2>3. Under({}, 3)
    BY DEF Under
  <2>4. H \in SUBSET Lock
    BY <2>1
  <2> HIDE DEF H
  <2> QED
    BY <2>2, <2>3, <2>4, UnderMore, SMTT(60)
<1>2. vm_of[u] \in VM
  BY LockOrderAssumption
<1> DEFINE look == Locked(VmLock(vm_of[u]), <<>>)
           ask == Locked(Interrupts(u), <<>>)
<1>3. Runs(H, <<>>, H) /\ Runs(H, look, H) /\ Runs(H, ask, H) /\ Runs(H, dlog, H)
  BY <1>1, <1>2, RunsNothing, RunsVmBriefly, RunsInterrupts, RunsDlog, SMTT(60)
<1>4. Runs(H, look \o ask, H)
  BY <1>3, RunsBoth
<1>5. Runs(H, inject_timer(u), H) /\ Runs(H, update_vi(u), H) /\ Runs({}, update_vi(c), {})
  BY <1>1, RunsInterrupts DEF inject_timer, update_vi
<1>6. Runs(H, <<Release(Execution(u))>>, {})
  <2>1. Does(H, Release(Execution(u)), {})
    BY DEF Does, Release
  <2>2. Release(Execution(u)) \in Op
    BY Ranks DEF Op, Release
  <2> QED
    BY <1>1, <2>1, <2>2, RunsOne
<1>7. /\ prepare_run(u) = {<<>>, look, ask, look \o ask}
      /\ prepare_run_err(u) = {<<>>, dlog, ask, look \o ask}
  BY Zenon DEF prepare_run, prepare_run_err
<1> HIDE DEF look, ask, H
<1>8. ASSUME NEW s \in prepare_run(u) PROVE Runs(H, s \o inject_timer(u) \o update_vi(u), H)
  <2>1. Runs(H, s, H)
    BY <1>3, <1>4, <1>7, <1>8, Zenon
  <2> QED
    BY <1>5, <2>1, RunsBoth
<1>9. ASSUME NEW s \in prepare_run_err(u)
      PROVE  Runs(H, s \o <<Release(Execution(u))>> \o update_vi(c), {})
  <2>1. Runs(H, s, H)
    BY <1>3, <1>4, <1>7, <1>9, Zenon
  <2> QED
    BY <1>5, <1>6, <2>1, RunsBoth, ZenonT(180)
<1> QED
  BY <1>5, <1>8, <1>9, SMTT(60) DEF H

-----------------------------------------------------------------------------
(* What is left of every call keeps the order.                             *)

\* At most one execution lock of a secondary's vCPU.
One(H) == \A u \in VCPU, w \in VCPU : {Execution(u), Execution(w)} \subseteq H => u = w

\* CPU_ON of the vCPU t, before it has the second execution lock.
Waiting(H, s, K, t) == s = Locked(Execution(t), <<>>) /\ K # {} /\ H = K

\* CPU_ON or AFFINITY_INFO of the vCPU t, with the second execution lock.
Ending(H, s, K, t) ==
    s = <<Release(Execution(t))>> /\ Execution(t) \notin K /\ H = K \cup {Execution(t)}

\* What a CPU that holds H and will be left with K may have left to do.
Fits(H, s, K) ==
    /\ s \in Seq(Op)
    /\ \/ Runs(H, s, K) /\ One(H)
       \/ \E t \in VCPU : Waiting(H, s, K, t) \/ Ending(H, s, K, t)

LockInv ==
    /\ owner \in [Lock -> CPU \cup {NoCpu}]
    /\ current \in [CPU -> SUBSET VCPU]
    /\ todo \in [CPU -> Seq(Op)]
    /\ \A c \in CPU : Fits(Held(c), todo[c], Kept(c)) /\ One(Kept(c))

LEMMA OneOrNone == One({}) /\ \A u \in VCPU : One({Execution(u)})
BY DEF One, Execution

LEMMA FitsRuns ==
    ASSUME NEW H, NEW s, NEW K, Runs(H, s, K), One(H)
    PROVE  Fits(H, s, K)
BY DEF Fits, Runs

\* The lock operations of CPU_ON of the vCPU t.
LEMMA CpuOnOps ==
    ASSUME NEW t \in VCPU, NEW s, s = Locked(Execution(t), <<>>)
    PROVE  /\ s \in Seq(Op) /\ s # <<>>
           /\ Head(s) = Acquire(Execution(t)) /\ Tail(s) = <<Release(Execution(t))>>
<1> DEFINE a == Acquire(Execution(t))
           r == Release(Execution(t))
<1>1. a \in Op /\ r \in Op
  BY Ranks DEF Op, Acquire, Release
<1> HIDE DEF a, r
<1>2. <<a>> \o <<>> = <<a>>
  BY <1>1, ConcatEmptySeq
<1>3. s = <<a, r>>
  BY <1>2, ConcatOne, Zenon DEF Locked, a, r
<1>4. <<a, r>> \in Seq(Op) /\ <<a, r>> # <<>> /\ Head(<<a, r>>) = a /\ Tail(<<a, r>>) = <<r>>
  BY <1>1
<1> QED
  BY <1>3, <1>4 DEF a, r

\* The last operation of CPU_ON and AFFINITY_INFO.
LEMMA LastOp ==
    ASSUME NEW t \in VCPU, NEW s, s = <<Release(Execution(t))>>
    PROVE  /\ s \in Seq(Op) /\ s # <<>>
           /\ Head(s) = Release(Execution(t)) /\ Tail(s) = <<>>
<1>1. Release(Execution(t)) \in Op
  BY Ranks DEF Op, Release
<1> QED
  BY <1>1

LEMMA LockInit == Init => LockInv
<1> SUFFICES ASSUME Init PROVE LockInv
  OBVIOUS
<1>1. /\ owner \in [Lock -> CPU \cup {NoCpu}] /\ current \in [CPU -> SUBSET VCPU]
      /\ todo \in [CPU -> Seq(Op)]
  BY DEF Init
<1>2. ASSUME NEW c \in CPU PROVE Fits(Held(c), todo[c], Kept(c)) /\ One(Kept(c))
  <2>1. Held(c) = {} /\ Kept(c) = {} /\ todo[c] = <<>>
    BY LockOrderAssumption DEF Init, Held, Kept
  <2>2. Runs({}, <<>>, {})
    BY RunsNothing
  <2> QED
    BY <2>1, <2>2, OneOrNone, FitsRuns, SMTT(60)
<1> QED
  BY <1>1, <1>2 DEF LockInv

\* A step of c that leaves what the other CPUs hold.
LEMMA LockFrame ==
    ASSUME LockInv, NEW c \in CPU, owner' \in [Lock -> CPU \cup {NoCpu}],
           current' \in [CPU -> SUBSET VCPU],
           \A d \in CPU \ {c} : current'[d] = current[d],
           NEW s, todo' = [todo EXCEPT ![c] = s],
           \A d \in CPU \ {c}, l \in Lock : owner'[l] = d <=> owner[l] = d,
           Fits(Held(c)', s, Kept(c)'), One(Kept(c)')
    PROVE  LockInv'
<1>1. s \in Seq(Op) /\ todo' \in [CPU -> Seq(Op)]
  BY SMTT(60) DEF Fits, LockInv
<1>2. ASSUME NEW d \in CPU PROVE Fits(Held(d)', todo'[d], Kept(d)') /\ One(Kept(d)')
  <2>1. CASE d = c
    BY <2>1 DEF LockInv
  <2>2. CASE d # c
    <3>1. Held(d)' = Held(d) /\ Kept(d)' = Kept(d) /\ todo'[d] = todo[d]
      BY <2>2 DEF Held, Kept, LockInv
    <3> QED
      BY <3>1 DEF LockInv
  <2> QED
    BY <2>1, <2>2
<1> QED
  BY <1>1, <1>2, SMTT(60) DEF LockInv

\* Between calls a CPU holds the execution lock of the vCPU it runs, and no
\* other lock.
LEMMA IdleHolds ==
    ASSUME LockInv, NEW c \in CPU, Idle(c)
    PROVE  Held(c) = Kept(c)
<1>1. Fits(Held(c), <<>>, Kept(c))
  BY DEF LockInv, Idle
<1>2. ~\E t \in VCPU : Waiting(Held(c), <<>>, Kept(c), t) \/ Ending(Held(c), <<>>, Kept(c), t)
  BY CpuOnOps, LastOp, Zenon DEF Waiting, Ending
<1>3. Runs(Held(c), <<>>, Kept(c))
  BY <1>1, <1>2, Zenon DEF Fits
<1> QED
  BY <1>3, NothingRuns

LEMMA LockStep ==
    ASSUME LockInv, [Next]_vars
    PROVE  LockInv'
<1>0. /\ owner \in [Lock -> CPU \cup {NoCpu}] /\ current \in [CPU -> SUBSET VCPU]
      /\ todo \in [CPU -> Seq(Op)] /\ NoCpu \notin CPU
  BY LockOrderAssumption DEF LockInv
<1>1. CASE UNCHANGED vars
  BY <1>1 DEF vars, LockInv, Held, Kept
<1>2. ASSUME NEW c \in CPU, Call(c) PROVE LockInv'
  <2>1. PICK s \in CallsOf(c) : todo' = [todo EXCEPT ![c] = s]
    BY <1>2, ZenonT(180) DEF Call, Begin
  <2>2. UNCHANGED <<owner, current>> /\ Held(c) = Kept(c)
    BY <1>2, IdleHolds DEF Call
  <2>3. Held(c)' = Held(c) /\ Kept(c)' = Kept(c)
    BY <2>2 DEF Held, Kept
  <2>4. Runs(Held(c)', s, Kept(c)')
    BY <1>0, <2>2, <2>3, RunsCalls
  <2>5. One(Kept(c)') /\ One(Held(c)')
    BY <2>2, <2>3 DEF LockInv
  <2>6. Fits(Held(c)', s, Kept(c)')
    BY <2>4, <2>5, FitsRuns
  <2> QED
    BY <1>0, <2>1, <2>2, <2>5, <2>6, LockFrame, ZenonT(180)
<1>3. ASSUME NEW c \in CPU, NEW u \in VCPU, RunBusy(c, u) PROVE LockInv'
  <2>1. /\ todo' = [todo EXCEPT ![c] = update_vi(c)] /\ UNCHANGED <<owner, current>>
        /\ current[c] = {} /\ Held(c) = Kept(c)
    BY <1>3, IdleHolds DEF RunBusy, Begin
  <2>2. Held(c)' = {} /\ Kept(c)' = {}
    BY <2>1 DEF Held, Kept
  <2>3. Runs({}, update_vi(c), {})
    BY RunsRun, ZenonT(180)
  <2>4. Fits(Held(c)', update_vi(c), Kept(c)') /\ One(Kept(c)')
    BY <2>2, <2>3, OneOrNone, FitsRuns
  <2> QED
    BY <1>0, <2>1, <2>4, LockFrame, ZenonT(180)
<1>4. ASSUME NEW c \in CPU, NEW u \in VCPU, RunLocked(c, u) PROVE LockInv'
  <2>1. /\ current[c] = {} /\ Held(c) = {} /\ Execution(u) \in Lock
        /\ owner[Execution(u)] = NoCpu /\ owner' = [owner EXCEPT ![Execution(u)] = c]
    BY <1>4, IdleHolds, Ranks DEF RunLocked, Kept, Free
  <2>2. Held(c)' = {Execution(u)}
    BY <1>0, <2>1 DEF Held
  <2>3. /\ owner' \in [Lock -> CPU \cup {NoCpu}]
        /\ \A d \in CPU \ {c}, l \in Lock : owner'[l] = d <=> owner[l] = d
    BY <1>0, <2>1
  <2>4. ASSUME NEW s \in prepare_run(u), current' = [current EXCEPT ![c] = {u}],
               todo' = [todo EXCEPT ![c] = s \o inject_timer(u) \o update_vi(u)]
        PROVE  LockInv'
    <3>1. /\ current' \in [CPU -> SUBSET VCPU] /\ \A d \in CPU \ {c} : current'[d] = current[d]
          /\ current'[c] = {u}
      BY <1>0, <2>4
    <3>2. Kept(c)' = {Execution(u)}
      BY <3>1 DEF Kept
    <3>3. Runs({Execution(u)}, s \o inject_timer(u) \o update_vi(u), {Execution(u)})
      BY <2>4, RunsRun, ZenonT(180)
    <3>4. Fits(Held(c)', s \o inject_timer(u) \o update_vi(u), Kept(c)') /\ One(Kept(c)')
      BY <2>2, <3>2, <3>3, OneOrNone, FitsRuns, ZenonT(180)
    <3> QED
      BY <2>3, <2>4, <3>1, <3>4, LockFrame, ZenonT(180)
  <2>5. ASSUME NEW s \in prepare_run_err(u), UNCHANGED current,
               todo' = [todo EXCEPT ![c] = s \o <<Release(Execution(u))>> \o update_vi(c)]
        PROVE  LockInv'
    <3>1. Kept(c)' = {}
      BY <2>1, <2>5 DEF Kept
    <3>2. Runs({Execution(u)}, s \o <<Release(Execution(u))>> \o update_vi(c), {})
      BY <2>5, RunsRun, ZenonT(180)
    <3>3. /\ Fits(Held(c)', s \o <<Release(Execution(u))>> \o update_vi(c), Kept(c)')
          /\ One(Kept(c)')
      BY <2>2, <3>1, <3>2, OneOrNone, FitsRuns, ZenonT(180)
    <3> QED
      BY <1>0, <2>3, <2>5, <3>3, LockFrame, ZenonT(180)
  <2> QED
    BY <1>4, <2>4, <2>5, ZenonT(180) DEF RunLocked, Begin
<1>5. ASSUME NEW c \in CPU, SwitchedOut(c) PROVE LockInv'
  <2>1. /\ todo' = [todo EXCEPT ![c] = <<>>] /\ current' = [current EXCEPT ![c] = {}]
        /\ Held(c) = Kept(c)
        /\ owner' = [l \in Lock |-> IF l \in Kept(c) THEN NoCpu ELSE owner[l]]
    BY <1>0, <1>5, IdleHolds DEF SwitchedOut, Idle, Kept
  <2>2. \A l \in Lock : l \in Kept(c) <=> owner[l] = c
    BY <2>1 DEF Held
  <2>3. /\ owner' \in [Lock -> CPU \cup {NoCpu}] /\ current' \in [CPU -> SUBSET VCPU]
        /\ current'[c] = {} /\ \A d \in CPU \ {c} : current'[d] = current[d]
    BY <1>0, <2>1
  <2>4. \A d \in CPU \ {c}, l \in Lock : owner'[l] = d <=> owner[l] = d
    BY <1>0, <2>1, <2>2, SMTT(60)
  <2>5. Held(c)' = {} /\ Kept(c)' = {}
    BY <1>0, <2>1, <2>2, <2>3 DEF Held, Kept
  <2>6. Runs({}, <<>>, {})
    BY RunsNothing
  <2>7. Fits(Held(c)', <<>>, Kept(c)') /\ One(Kept(c)')
    BY <2>5, <2>6, OneOrNone, FitsRuns
  <2> QED
    BY <2>1, <2>3, <2>4, <2>7, LockFrame, ZenonT(180)
<1>6. ASSUME NEW c \in CPU, NEW t \in VCPU, SecondaryCpuOn(c, t) PROVE LockInv'
  <2>1. /\ todo' = [todo EXCEPT ![c] = Locked(Execution(t), <<>>)]
        /\ UNCHANGED <<owner, current>> /\ Held(c) = Kept(c) /\ current[c] # {}
    BY <1>6, IdleHolds, SMTT(60) DEF SecondaryCpuOn, Begin, Siblings
  <2>2. Kept(c) # {} /\ Held(c)' = Held(c) /\ Kept(c)' = Kept(c)
    BY <2>1 DEF Held, Kept
  <2>3. One(Kept(c))
    BY DEF LockInv
  <2>4. Fits(Held(c)', Locked(Execution(t), <<>>), Kept(c)') /\ One(Kept(c)')
    BY <2>1, <2>2, <2>3, CpuOnOps, ZenonT(180) DEF Fits, Waiting
  <2> QED
    BY <1>0, <2>1, <2>4, LockFrame, ZenonT(180)
<1>7. ASSUME NEW c \in CPU, NEW t \in VCPU, AffinityInfo(c, t) PROVE LockInv'
  <2>1. /\ UNCHANGED current /\ Held(c) = Kept(c) /\ One(Kept(c)) /\ Execution(t) \in Lock
        /\ Kept(c)' = Kept(c)
    BY <1>7, IdleHolds, Ranks DEF AffinityInfo, LockInv, Kept
  <2>2. ASSUME owner[Execution(t)] = NoCpu, owner' = [owner EXCEPT ![Execution(t)] = c],
               todo' = [todo EXCEPT ![c] = <<Release(Execution(t))>>]
        PROVE  LockInv'
    <3>1. Held(c)' = Held(c) \cup {Execution(t)} /\ Execution(t) \notin Held(c)
      BY <1>0, <2>1, <2>2 DEF Held
    <3>2. /\ owner' \in [Lock -> CPU \cup {NoCpu}]
          /\ \A d \in CPU \ {c}, l \in Lock : owner'[l] = d <=> owner[l] = d
      BY <1>0, <2>1, <2>2
    <3>3. Fits(Held(c)', <<Release(Execution(t))>>, Kept(c)')
      BY <2>1, <3>1, LastOp, ZenonT(180) DEF Fits, Ending
    <3>4. /\ current' \in [CPU -> SUBSET VCPU] /\ \A d \in CPU \ {c} : current'[d] = current[d]
          /\ One(Kept(c)')
      BY <1>0, <2>1
    <3> QED
      BY <2>2, <3>2, <3>3, <3>4, LockFrame, ZenonT(180)
  <2>3. ASSUME UNCHANGED owner, todo' = [todo EXCEPT ![c] = <<>>]
        PROVE  LockInv'
    <3>1. Held(c)' = Held(c) /\ Kept(c) \in SUBSET Lock
      BY <2>1, <2>3 DEF Held
    <3>2. Fits(Held(c)', <<>>, Kept(c)')
      BY <2>1, <3>1, RunsNothing, FitsRuns, ZenonT(180)
    <3> QED
      BY <1>0, <2>1, <2>3, <3>2, LockFrame, ZenonT(180)
  <2> QED
    BY <1>7, <2>2, <2>3, ZenonT(180) DEF AffinityInfo, Begin, Free
<1>8. ASSUME NEW c \in CPU, Take(c) PROVE LockInv'
  <2>1. PICK o : o = Head(todo[c])
    OBVIOUS
  <2>2. /\ todo[c] # <<>> /\ todo' = [todo EXCEPT ![c] = Tail(todo[c])] /\ UNCHANGED current
        /\ o.op = "acquire" /\ owner[o.lock] = NoCpu /\ owner' = [owner EXCEPT ![o.lock] = c]
    BY <1>8, <2>1, SMTT(60) DEF Take, Idle, Free
  <2>3. /\ Fits(Held(c), todo[c], Kept(c)) /\ One(Kept(c)) /\ Kept(c)' = Kept(c)
        /\ o \in Op /\ o.lock \in Lock
    <3>1. Fits(Held(c), todo[c], Kept(c)) /\ One(Kept(c))
      BY DEF LockInv
    <3>2. Kept(c)' = Kept(c)
      BY <2>2, SMTT(60) DEF Kept
    <3>3. o \in Op
      BY <1>0, <2>1, <2>2, HeadTailProperties, SMTT(60)
    <3> QED
      BY <3>1, <3>2, <3>3, SMTT(60) DEF Op
  <2>4. Held(c)' = Held(c) \cup {o.lock} /\ o.lock \notin Held(c)
    BY <1>0, <2>2, <2>3, SMTT(60) DEF Held
  <2>5. /\ owner' \in [Lock -> CPU \cup {NoCpu}]
        /\ \A d \in CPU \ {c}, l \in Lock : owner'[l] = d <=> owner[l] = d
    BY <1>0, <2>2, <2>3, SMTT(60)
  <2>6. ASSUME Runs(Held(c), todo[c], Kept(c)), One(Held(c))
        PROVE  Fits(Held(c)', Tail(todo[c]), Kept(c)')
    <3>1. PICK J \in SUBSET Lock : Does(Held(c), o, J) /\ Runs(J, Tail(todo[c]), Kept(c))
      BY <2>1, <2>2, <2>6, RunsTail, SMTT(60)
    <3>2. J = Held(c) \cup {o.lock} /\ o.lock[1] # "execution"
      BY <2>2, <3>1, SMTT(60) DEF Does
    <3>3. One(J)
      BY <2>6, <3>2 DEF One, Execution
    <3> QED
      BY <2>3, <2>4, <3>1, <3>2, <3>3, FitsRuns, SMTT(60)
  <2>7. ASSUME NEW t \in VCPU, Waiting(Held(c), todo[c], Kept(c), t)
        PROVE  Fits(Held(c)', Tail(todo[c]), Kept(c)')
    <3>1. /\ Held(c) = Kept(c) /\ o = Acquire(Execution(t))
          /\ Tail(todo[c]) = <<Release(Execution(t))>>
      BY <2>1, <2>7, CpuOnOps, ZenonT(180) DEF Waiting
    <3>2. o.lock = Execution(t)
      BY <3>1, SMTT(60) DEF Acquire
    <3> QED
      BY <2>3, <2>4, <3>1, <3>2, LastOp, ZenonT(180) DEF Fits, Ending
  <2>8. ASSUME NEW t \in VCPU, Ending(Held(c), todo[c], Kept(c), t) PROVE FALSE
    <3>1. o = Release(Execution(t))
      BY <2>1, <2>8, LastOp, ZenonT(180) DEF Ending
    <3> QED
      BY <2>2, <3>1 DEF Release
  <2>9. Fits(Held(c)', Tail(todo[c]), Kept(c)') /\ One(Kept(c)')
    BY <2>3, <2>6, <2>7, <2>8, ZenonT(180) DEF Fits
  <2> QED
    BY <1>0, <2>2, <2>5, <2>9, LockFrame, ZenonT(180)
<1>9. ASSUME NEW c \in CPU, Unlock(c) PROVE LockInv'
  <2>1. PICK o : o = Head(todo[c])
    OBVIOUS
  <2>2. /\ todo[c] # <<>> /\ todo' = [todo EXCEPT ![c] = Tail(todo[c])] /\ UNCHANGED current
        /\ o.op = "release" /\ owner' = [owner EXCEPT ![o.lock] = NoCpu]
    BY <1>9, <2>1, SMTT(60) DEF Unlock, Idle
  <2>3. /\ Fits(Held(c), todo[c], Kept(c)) /\ One(Kept(c)) /\ Kept(c)' = Kept(c)
        /\ o \in Op /\ o.lock \in Lock
    <3>1. Fits(Held(c), todo[c], Kept(c)) /\ One(Kept(c))
      BY DEF LockInv
    <3>2. Kept(c)' = Kept(c)
      BY <2>2, SMTT(60) DEF Kept
    <3>3. o \in Op
      BY <1>0, <2>1, <2>2, HeadTailProperties, SMTT(60)
    <3> QED
      BY <3>1, <3>2, <3>3 DEF Op
  <2>4. Held(c)' = Held(c) \ {o.lock}
    BY <1>0, <2>2, <2>3, SMTT(60) DEF Held
  <2>5. ASSUME Runs(Held(c), todo[c], Kept(c)), One(Held(c))
        PROVE  o.lock \in Held(c) /\ Fits(Held(c)', Tail(todo[c]), Kept(c)')
    <3>1. PICK J \in SUBSET Lock : Does(Held(c), o, J) /\ Runs(J, Tail(todo[c]), Kept(c))
      BY <2>1, <2>2, <2>5, RunsTail, SMTT(60)
    <3>2. J = Held(c) \ {o.lock} /\ o.lock \in Held(c)
      BY <2>2, <3>1, SMTT(60) DEF Does
    <3>3. One(J)
      BY <2>5, <3>2, SMTT(60) DEF One
    <3> QED
      BY <2>3, <2>4, <3>1, <3>2, <3>3, FitsRuns, SMTT(60)
  <2>6. ASSUME NEW t \in VCPU, Waiting(Held(c), todo[c], Kept(c), t) PROVE FALSE
    <3>1. o = Acquire(Execution(t))
      BY <2>1, <2>6, CpuOnOps, ZenonT(180) DEF Waiting
    <3> QED
      BY <2>2, <3>1 DEF Acquire
  <2>7. ASSUME NEW t \in VCPU, Ending(Held(c), todo[c], Kept(c), t)
        PROVE  o.lock \in Held(c) /\ Fits(Held(c)', Tail(todo[c]), Kept(c)')
    <3>1. /\ Held(c) = Kept(c) \cup {Execution(t)} /\ Execution(t) \notin Kept(c)
          /\ o = Release(Execution(t)) /\ Tail(todo[c]) = <<>>
      BY <2>1, <2>7, LastOp, ZenonT(180) DEF Ending
    <3>2. o.lock = Execution(t)
      BY <3>1 DEF Release
    <3>3. Held(c)' = Kept(c) /\ Kept(c) \in SUBSET Lock
      BY <2>4, <3>1, <3>2 DEF Held
    <3>4. Fits(Kept(c), <<>>, Kept(c))
      BY <2>3, <3>3, RunsNothing, FitsRuns
    <3> QED
      BY <2>3, <3>1, <3>2, <3>3, <3>4
  <2>8. o.lock \in Held(c) /\ Fits(Held(c)', Tail(todo[c]), Kept(c)') /\ One(Kept(c)')
    BY <2>3, <2>5, <2>6, <2>7, ZenonT(180) DEF Fits
  <2>9. /\ owner' \in [Lock -> CPU \cup {NoCpu}]
        /\ \A d \in CPU \ {c}, l \in Lock : owner'[l] = d <=> owner[l] = d
    BY <1>0, <2>2, <2>3, <2>8, SMTT(60) DEF Held
  <2> QED
    BY <1>0, <2>2, <2>8, <2>9, LockFrame, ZenonT(180)
<1> QED
  BY <1>1, <1>2, <1>3, <1>4, <1>5, <1>6, <1>7, <1>8, <1>9, SMTT(60) DEF Next

\* A CPU that waits for a lock holds only locks that come before it, or makes
\* a CPU_ON and holds only what it keeps.
LEMMA WaitsInOrder ==
    ASSUME LockInv, NEW c \in CPU, Waits(c)
    PROVE  /\ Head(todo[c]) \in Op /\ One(Held(c))
           /\ \/ /\ Head(todo[c]).lock[1] # "execution"
                 /\ \A l \in Held(c) : Before(l, Head(todo[c]).lock)
              \/ Starting(c) /\ Held(c) = Kept(c)
<1>1. /\ todo[c] # <<>> /\ todo[c] \in Seq(Op) /\ Fits(Held(c), todo[c], Kept(c))
      /\ One(Kept(c)) /\ Head(todo[c]).op = "acquire"
  BY DEF Waits, Idle, LockInv
<1>2. Head(todo[c]) \in Op
  BY <1>1, HeadTailProperties, SMTT(60)
<1>3. CASE Runs(Held(c), todo[c], Kept(c)) /\ One(Held(c))
  <2>1. PICK J \in SUBSET Lock : Does(Held(c), Head(todo[c]), J)
    BY <1>1, <1>3, RunsTail, SMTT(60)
  <2> QED
    BY <1>1, <1>2, <1>3, <2>1, SMTT(60) DEF Does
<1>4. ASSUME NEW t \in VCPU, Waiting(Held(c), todo[c], Kept(c), t)
      PROVE  Starting(c) /\ Held(c) = Kept(c) /\ One(Held(c))
  <2>1. Head(todo[c]) = Acquire(Execution(t)) /\ Held(c) = Kept(c) /\ current[c] # {}
    BY <1>4, CpuOnOps, SMTT(60) DEF Waiting, Kept
  <2>2. Starting(c)
    BY <2>1, SMTT(60) DEF Starting, Acquire, Execution
  <2> QED
    BY <1>1, <2>1, <2>2, Zenon
<1>5. ASSUME NEW t \in VCPU, Ending(Held(c), todo[c], Kept(c), t) PROVE FALSE
  <2>1. Head(todo[c]) = Release(Execution(t))
    BY <1>5, LastOp DEF Ending
  <2> QED
    BY <1>1, <2>1, SMTT(60) DEF Release
<1>6. \/ Runs(Held(c), todo[c], Kept(c)) /\ One(Held(c))
      \/ \E t \in VCPU : \/ Waiting(Held(c), todo[c], Kept(c), t)
                         \/ Ending(Held(c), todo[c], Kept(c), t)
  BY <1>1, Zenon DEF Fits
<1> QED
  BY <1>2, <1>3, <1>4, <1>5, <1>6, ZenonT(180)

\* In every reachable state what is left of each call takes its locks in the
\* order, unless it is a secondary's CPU_ON, and leaves its CPU with the
\* execution lock of the vCPU it runs.
THEOREM LockInvariant == Spec => []LockInv
BY LockInit, LockStep, PTL DEF Spec

\* Every lock that a CPU waits for comes after every lock it holds, in the
\* order that api.rs documents, whatever the calls of the other CPUs: lock_both
\* sorts by address, the pools are inside the page tables, and an execution
\* lock kept by vcpu_run is outside all that the vCPU's calls take.  A
\* secondary's CPU_ON, which waits for an execution lock in no order, holds its
\* own vCPU's and nothing else; and no CPU with two execution locks waits.
THEOREM LocksStayInOrder == Spec => []LocksInOrder
<1>1. LockInv => LocksInOrder
  BY WaitsInOrder, ZenonT(180) DEF LocksInOrder, Kept, One
<1> QED
  BY <1>1, LockInvariant, PTL

-----------------------------------------------------------------------------
(* No CPUs wait for each other, but in CPU_ON.                             *)

\* A CPU serves a call, and does not wait in CPU_ON for the target's lock.
Serving(c) == ~Idle(c) /\ ~Starting(c)

\* As long as such a call is under way, one of them can go on: it does not
\* wait, or the lock that it waits for is free.
SomeCallGoesOn ==
    (\E c \in CPU : Serving(c)) =>
        \E c \in CPU : Serving(c) /\ (Waits(c) => Free(Head(todo[c]).lock))

\* The order of the locks as an order of numbers, when no VM has an id above n.
Height(l, n) == IF l[1] = "vm" THEN 2 + l[2]
                ELSE IF Rank[l[1]] < 2 THEN Rank[l[1]] ELSE Rank[l[1]] + n

LEMMA HeightGrows ==
    ASSUME NEW n \in Nat, VM \subseteq 0 .. n, NEW l \in Lock, NEW k \in Lock, Before(l, k)
    PROVE  /\ Height(l, n) \in 0 .. n + 7 /\ Height(k, n) \in 0 .. n + 7
           /\ Height(l, n) < Height(k, n)
<1>1. \A x \in Lock : /\ Rank[x[1]] \in 0 .. 7
                      /\ x[1] = "vm" => Rank[x[1]] = 2 /\ x[2] \in 0 .. n
                      /\ x[1] # "vm" => Rank[x[1]] # 2
  BY DEF Lock, Rank, IsOn, PrimaryExecution, Execution, VmLock, Interrupts, Stage1, LocalPool,
     Heap, Dlog
<1> QED
  BY <1>1, SMTT(60) DEF Before, Height

LEMMA LeastNat ==
    ASSUME NEW T \in SUBSET Nat, T # {}
    PROVE  \E x \in T : \A y \in T : ~(y < x)
<1>1. \E x \in T : \A y \in T : ~(<<y, x>> \in OpToRel(<, Nat))
  BY NatLessThanWellFounded, WFMin, Zenon
<1> QED
  BY <1>1, Zenon DEF OpToRel

LEMMA SomeoneGoesOn ==
    ASSUME LockInv, NEW n \in Nat, VM \subseteq 0 .. n
    PROVE  SomeCallGoesOn
<1> SUFFICES ASSUME NEW a \in CPU, Serving(a),
                    \A c \in CPU : Serving(c) => Waits(c) /\ ~Free(Head(todo[c]).lock)
             PROVE  FALSE
  BY SMTT(60) DEF SomeCallGoesOn
<1> DEFINE want(c) == Head(todo[c]).lock
           depth(c) == n + 7 - Height(want(c), n)
           T == {depth(c) : c \in {c \in CPU : Serving(c)}}
\* The lock that c waits for is held by a CPU that waits for a later one.
<1>1. ASSUME NEW c \in CPU, Serving(c)
      PROVE  \E d \in CPU : Serving(d) /\ want(c) \in Lock /\ want(d) \in Lock
                            /\ Before(want(c), want(d))
  <2>1. want(c) \in Lock /\ want(c)[1] # "execution" /\ owner[want(c)] # NoCpu
    BY <1>1, WaitsInOrder, SMTT(60) DEF Op, Free, Serving
  <2>2. PICK d \in CPU : owner[want(c)] = d
    BY <2>1, SMTT(60) DEF LockInv
  <2>3. want(c) \in Held(d)
    BY <2>1, <2>2, SMTT(60) DEF Held
  <2>4. want(c) \notin Kept(d)
    BY <2>1 DEF Kept, Execution
  <2>5. Serving(d)
    <3>1. ~Idle(d)
      BY <2>3, <2>4, IdleHolds, SMTT(60)
    <3>2. ASSUME Starting(d) PROVE FALSE
      <4>1. Waits(d) /\ Head(todo[d]).lock[1] = "execution"
        BY <3>2, SMTT(60) DEF Starting
      <4>2. Held(d) = Kept(d)
        BY <4>1, WaitsInOrder, SMTT(60)
      <4> QED
        BY <2>3, <2>4, <4>2, SMTT(60)
    <3> QED
      BY <3>1, <3>2, SMTT(60) DEF Serving
  <2>6. want(d) \in Lock /\ Before(want(c), want(d))
    BY <2>3, <2>5, WaitsInOrder, SMTT(60) DEF Op, Serving
  <2> QED
    BY <2>1, <2>5, <2>6, SMTT(60)
<1>2. ASSUME NEW c \in CPU, Serving(c)
      PROVE  depth(c) \in Nat /\ \E d \in CPU : Serving(d) /\ depth(d) < depth(c)
  <2>1. PICK d \in CPU : Serving(d) /\ want(c) \in Lock /\ want(d) \in Lock
                         /\ Before(want(c), want(d))
    BY <1>1, <1>2, SMTT(60)
  <2>2. /\ Height(want(c), n) \in 0 .. n + 7 /\ Height(want(d), n) \in 0 .. n + 7
        /\ Height(want(c), n) < Height(want(d), n)
    BY <2>1, HeightGrows, SMTT(60)
  <2>3. depth(c) \in Nat /\ depth(d) < depth(c)
    BY <2>2
  <2> HIDE DEF depth
  <2> QED
    BY <2>1, <2>3, SMTT(60)
<1> HIDE DEF depth
<1>3. T \in SUBSET Nat /\ depth(a) \in T
  BY <1>2
<1>4. PICK x \in T : \A y \in T : ~(y < x)
  BY <1>3, LeastNat, ZenonT(180)
<1> QED
  BY <1>2, <1>4, SMTT(60)

\* The calls never wait for each other in a circle, but for CPU_ON between the
\* vCPUs of a VM: while any other call is under way, one of them can take its
\* next step, whoever waits in CPU_ON, for any number of CPUs, VMs and vCPUs.
THEOREM NoDeadlock == (\E n \in Nat : VM \subseteq 0 .. n) => (Spec => []SomeCallGoesOn)
<1> SUFFICES ASSUME NEW n \in Nat, VM \subseteq 0 .. n
             PROVE  Spec => []SomeCallGoesOn
  OBVIOUS
<1>1. LockInv => SomeCallGoesOn
  BY SomeoneGoesOn
<1> QED
  BY <1>1, LockInvariant, PTL
=============================================================================
