---------------------------- MODULE MailboxProofs ---------------------------
(***************************************************************************)
(* The notifications, for any number of VMs and CPUs: waiters are never    *)
(* left on a writable mailbox without the primary knowing, a request to be *)
(* notified is never lost between the lists, and no entry is linked twice; *)
(* and the messages: none is overwritten before it is cleared.             *)
(***************************************************************************)
EXTENDS Mailbox, TLAPS

\* An element is on the list at most once.
Once(list) == \A i, j \in 1 .. Len(list) : list[i] = list[j] => i = j

LEMMA Appended ==
  ASSUME NEW list \in Seq(VM), NEW v \in VM
  PROVE  /\ Append(list, v) \in Seq(VM)
         /\ \A u : is_in(u, Append(list, v)) <=> is_in(u, list) \/ u = v
         /\ Once(list) /\ ~is_in(v, list) => Once(Append(list, v))
<1> DEFINE longer == Append(list, v)
<1>1. /\ longer \in Seq(VM) /\ Len(longer) = Len(list) + 1 /\ Len(list) \in Nat
      /\ \A i \in 1 .. Len(list) : longer[i] = list[i]
      /\ longer[Len(list) + 1] = v
  OBVIOUS
<1> HIDE DEF longer
<1>2. \A u : is_in(u, longer) <=> is_in(u, list) \/ u = v
  <2>1. 1 .. Len(longer) = 1 .. Len(list) \cup {Len(list) + 1}
    BY <1>1
  <2> QED  BY <1>1, <2>1 DEF is_in
<1>3. ASSUME Once(list), ~is_in(v, list) PROVE Once(longer)
  <2> SUFFICES ASSUME NEW i \in 1 .. Len(longer), NEW j \in 1 .. Len(longer),
                      longer[i] = longer[j]
               PROVE  i = j
    BY DEF Once
  <2>1. CASE i <= Len(list) /\ j <= Len(list)
    BY <1>1, <1>3, <2>1 DEF Once
  <2>2. CASE i = Len(list) + 1 /\ j <= Len(list)
    BY <1>1, <1>3, <2>2 DEF is_in
  <2>3. CASE i <= Len(list) /\ j = Len(list) + 1
    BY <1>1, <1>3, <2>3 DEF is_in
  <2> QED  BY <1>1, <2>1, <2>2, <2>3
<1> QED  BY <1>1, <1>2, <1>3 DEF longer

LEMMA Popped ==
  ASSUME NEW list \in Seq(VM), list # <<>>
  PROVE  /\ Head(list) \in VM /\ Tail(list) \in Seq(VM)
         /\ \A u : is_in(u, list) <=> u = Head(list) \/ is_in(u, Tail(list))
         /\ Once(list) => Once(Tail(list))
<1> DEFINE rest == Tail(list)
<1>1. /\ Head(list) \in VM /\ rest \in Seq(VM) /\ Len(list) \in Nat \ {0}
      /\ Len(rest) = Len(list) - 1 /\ list[1] = Head(list)
      /\ \A i \in 1 .. Len(rest) : rest[i] = list[i + 1]
  OBVIOUS
<1> HIDE DEF rest
<1>2. ASSUME NEW u PROVE is_in(u, list) <=> u = Head(list) \/ is_in(u, rest)
  <2>1. ASSUME NEW i \in 1 .. Len(list), list[i] = u PROVE u = Head(list) \/ is_in(u, rest)
    <3>1. CASE i = 1
      BY <1>1, <2>1, <3>1
    <3>2. CASE i # 1
      <4>1. i - 1 \in 1 .. Len(rest) /\ rest[i - 1] = list[i]
        BY <1>1, <3>2
      <4> QED  BY <2>1, <4>1 DEF is_in
    <3> QED  BY <3>1, <3>2
  <2>2. ASSUME NEW i \in 1 .. Len(rest), rest[i] = u PROVE is_in(u, list)
    <3>1. i + 1 \in 1 .. Len(list) /\ list[i + 1] = u
      BY <1>1, <2>2
    <3> QED  BY <3>1 DEF is_in
  <2>3. u = Head(list) => is_in(u, list)
    BY <1>1 DEF is_in
  <2> QED  BY <2>1, <2>2, <2>3 DEF is_in
<1>3. ASSUME Once(list) PROVE Once(rest)
  <2> SUFFICES ASSUME NEW i \in 1 .. Len(rest), NEW j \in 1 .. Len(rest), rest[i] = rest[j]
               PROVE  i = j
    BY DEF Once
  <2>1. i + 1 \in 1 .. Len(list) /\ j + 1 \in 1 .. Len(list) /\ list[i + 1] = list[j + 1]
    BY <1>1
  <2> QED  BY <1>3, <2>1 DEF Once
<1> QED  BY <1>1, <1>2, <1>3 DEF rest

(***************************************************************************)
(* The invariant is inductive as it stands.                                *)
(***************************************************************************)

Linked == \A v \in VM : Once(waiter_list[v]) /\ Once(ready_list[v])

IInv == TypeOK /\ WaitersAreOwed /\ NotForgotten /\ Linked

LEMMA InitInv == Init => IInv
<1> SUFFICES ASSUME Init PROVE IInv
  OBVIOUS
<1>1. TypeOK
  BY DEF Init, TypeOK, MailboxState
<1>2. WaitersAreOwed /\ NotForgotten
  BY DEF Init, WaitersAreOwed, NotForgotten
<1>3. Linked
  BY DEF Init, Linked, Once
<1> QED  BY <1>1, <1>2, <1>3 DEF IInv

\* A step that changes no list and no request.
LEMMA SameLists ==
  ASSUME IInv, TypeOK', UNCHANGED <<waiter_list, ready_list, fetched, asked>>, WaitersAreOwed'
  PROVE  IInv'
BY DEF IInv, NotForgotten, Linked

\* A mailbox that has become writable.
LEMMA BecomesWritable ==
  ASSUME IInv, NEW v \in VM, waiter_result(v), TypeOK',
         UNCHANGED <<waiter_list, ready_list, fetched, asked>>,
         \A t \in VM \ {v} : Writable(t)' => Writable(t)
  PROVE  IInv'
<1>1. owed \subseteq owed' /\ (waiter_list[v] # <<>> => v \in owed')
  BY DEF waiter_result
<1>2. WaitersAreOwed'
  BY <1>1 DEF IInv, WaitersAreOwed
<1> QED  BY <1>2, SameLists

LEMMA ConfigureStep == ASSUME IInv, NEW v \in VM, Configure(v) PROVE IInv'
<1>1. TypeOK'
  BY Zenon DEF IInv, TypeOK, Configure, waiter_result
<1> QED  BY <1>1, BecomesWritable DEF Configure, Writable

LEMMA ClearStep == ASSUME IInv, NEW v \in VM, MailboxClear(v) PROVE IInv'
<1>1. TypeOK'
  <2>1. inbox' \in [VM -> Seq(VM)]
    BY DEF IInv, TypeOK, MailboxClear
  <2> QED  BY <2>1, Zenon DEF IInv, TypeOK, MailboxClear, waiter_result, MailboxState
<1>2. \A t \in VM \ {v} : Writable(t)' => Writable(t)
  BY DEF IInv, TypeOK, MailboxClear, Writable
<1> QED  BY <1>1, <1>2, BecomesWritable DEF MailboxClear

LEMMA SendStep ==
  ASSUME IInv, NEW f \in VM, NEW t \in VM,
         SendSucceeds(f, t) \/ SendRefused(f, t) \/ SendPanics(f, t)
  PROVE  IInv'
<1>1. TypeOK'
  <2>1. TypeOK
    BY DEF IInv
  <2>2. CASE SendSucceeds(f, t)
    <3>1. inbox' \in [VM -> Seq(VM)]
      BY <2>1, <2>2 DEF TypeOK, SendSucceeds
    <3> QED  BY <2>1, <2>2, <3>1, Zenon DEF TypeOK, SendSucceeds, MailboxState
  <2>3. CASE SendRefused(f, t)
    BY <2>1, <2>3, Zenon DEF TypeOK, SendRefused, vars
  <2>4. CASE SendPanics(f, t)
    BY <2>1, <2>4, Zenon DEF TypeOK, SendPanics
  <2> QED  BY <2>2, <2>3, <2>4
<1>2. UNCHANGED <<waiter_list, ready_list, fetched, asked, owed, configured>>
  BY DEF SendSucceeds, SendRefused, SendPanics
<1>3. \A u \in VM : state'[u] = "Empty" => state[u] = "Empty"
  BY DEF IInv, TypeOK, SendSucceeds, SendRefused, SendPanics
<1>4. WaitersAreOwed'
  BY <1>2, <1>3 DEF IInv, WaitersAreOwed, Writable
<1> QED  BY <1>1, <1>2, <1>4, SameLists

LEMMA ReadStep == ASSUME IInv, NEW v \in VM, Read(v) PROVE IInv'
<1>1. TypeOK'
  BY Zenon DEF IInv, TypeOK, Read, MailboxState
<1>2. WaitersAreOwed'
  BY DEF IInv, TypeOK, WaitersAreOwed, Writable, Read
<1> QED  BY <1>1, <1>2, SameLists DEF Read

LEMMA FetchNoneStep == ASSUME IInv, NEW c \in CPU, NEW t \in VM, FetchNone(c, t) PROVE IInv'
<1>1. TypeOK'
  BY Zenon DEF IInv, TypeOK, FetchNone
<1>2. WaitersAreOwed'
  BY DEF IInv, WaitersAreOwed, Writable, FetchNone
<1> QED  BY <1>1, <1>2, SameLists DEF FetchNone

LEMMA WaitStep == ASSUME IInv, NEW f \in VM, NEW t \in VM, SendWaits(f, t) PROVE IInv'
<1>1. waiter_list[t] \in Seq(VM) /\ waiter_list \in [VM -> Seq(VM)] /\ Once(waiter_list[t])
  BY DEF IInv, TypeOK, Linked
<1>2. PICK longer \in Seq(VM) :
        /\ waiter_list' = [waiter_list EXCEPT ![t] = longer]
        /\ \A u : is_in(u, longer) <=> is_in(u, waiter_list[t]) \/ u = f
        /\ Once(longer)
  <2>1. CASE is_in(f, waiter_list[t])
    <3>1. waiter_list' = [waiter_list EXCEPT ![t] = waiter_list[t]]
      BY <1>1, <2>1 DEF SendWaits, wait_for
    <3> QED  BY <1>1, <2>1, <3>1, Zenon
  <2>2. CASE ~is_in(f, waiter_list[t])
    <3>1. waiter_list' = [waiter_list EXCEPT ![t] = Append(waiter_list[t], f)]
      BY <2>2 DEF SendWaits, wait_for
    <3>2. PICK list : list = waiter_list[t]
      OBVIOUS
    <3>3. list \in Seq(VM)
      BY <1>1, <3>2
    <3>4. /\ Append(list, f) \in Seq(VM)
          /\ \A u : is_in(u, Append(list, f)) <=> is_in(u, list) \/ u = f
          /\ Once(list) /\ ~is_in(f, list) => Once(Append(list, f))
      BY <3>3, Appended
    <3> QED  BY <1>1, <2>2, <3>1, <3>2, <3>4, Zenon
  <2> QED  BY <2>1, <2>2
<1>3. /\ waiter_list' \in [VM -> Seq(VM)] /\ waiter_list'[t] = longer
      /\ \A v \in VM \ {t} : waiter_list'[v] = waiter_list[v]
  BY <1>1, <1>2
<1>4. TypeOK'
  <2>1. asked' \subseteq VM \X VM
    BY DEF IInv, TypeOK, SendWaits
  <2> QED  BY <1>3, <2>1, Zenon DEF IInv, TypeOK, SendWaits
<1>5. WaitersAreOwed'
  <2>1. ~Writable(t) /\ UNCHANGED <<state, configured, owed>>
    BY DEF SendWaits, MaySend, Writable
  <2> QED  BY <1>3, <2>1, Zenon DEF IInv, WaitersAreOwed, Writable
<1>6. NotForgotten'
  <2> SUFFICES ASSUME NEW p \in asked'
               PROVE  \/ is_in(p[1], waiter_list'[p[2]])
                      \/ \E c \in CPU : p \in fetched[c]
                      \/ is_in(p[2], ready_list[p[1]])
    BY DEF NotForgotten, SendWaits, is_in
  <2>1. p \in asked \/ p = <<f, t>>
    BY DEF SendWaits
  <2>2. CASE p = <<f, t>>
    BY <1>2, <1>3, <2>2
  <2>3. CASE p \in asked
    <3>1. p[1] \in VM /\ p[2] \in VM
      BY <2>3, SMTT(60) DEF IInv, TypeOK
    <3>2. is_in(p[1], waiter_list[p[2]]) => is_in(p[1], waiter_list'[p[2]])
      BY <1>2, <1>3, <3>1
    <3> QED  BY <2>3, <3>2 DEF IInv, NotForgotten
  <2> QED  BY <2>1, <2>2, <2>3
<1>7. Linked'
  BY <1>2, <1>3 DEF IInv, Linked, SendWaits
<1> QED  BY <1>4, <1>5, <1>6, <1>7 DEF IInv

LEMMA FetchStep == ASSUME IInv, NEW c \in CPU, NEW t \in VM, FetchWaiter(c, t) PROVE IInv'
<1>1. waiter_list[t] \in Seq(VM) /\ waiter_list \in [VM -> Seq(VM)] /\ Once(waiter_list[t])
      /\ waiter_list[t] # <<>> /\ fetched[c] = {}
      /\ fetched \in [CPU -> {{}} \cup {{e} : e \in VM \X VM}]
  BY Zenon DEF IInv, TypeOK, Linked, FetchWaiter
<1>2. PICK rest \in Seq(VM), first \in VM :
        /\ rest = Tail(waiter_list[t]) /\ first = Head(waiter_list[t])
        /\ \A u : is_in(u, waiter_list[t]) <=> u = first \/ is_in(u, rest)
        /\ Once(rest)
  <2>1. PICK list : list = waiter_list[t]
    OBVIOUS
  <2>2. list \in Seq(VM) /\ list # <<>>
    BY <1>1, <2>1
  <2>3. /\ Head(list) \in VM /\ Tail(list) \in Seq(VM)
        /\ \A u : is_in(u, list) <=> u = Head(list) \/ is_in(u, Tail(list))
        /\ Once(list) => Once(Tail(list))
    BY <2>2, Popped
  <2> QED  BY <1>1, <2>1, <2>3, Zenon
<1>3. /\ waiter_list' \in [VM -> Seq(VM)] /\ waiter_list'[t] = rest
      /\ \A v \in VM \ {t} : waiter_list'[v] = waiter_list[v]
  BY <1>1, <1>2 DEF FetchWaiter
<1>4. /\ fetched' = [fetched EXCEPT ![c] = {<<first, t>>}]
      /\ UNCHANGED <<state, configured, recv, inbox, ready_list, owed, asked, stuck>>
  BY <1>2 DEF FetchWaiter
<1>5. TypeOK'
  BY <1>3, <1>4, Zenon DEF IInv, TypeOK
<1>6. WaitersAreOwed'
  <2>1. Writable(t) /\ t \in owed
    BY DEF IInv, WaitersAreOwed, FetchWaiter
  <2> QED  BY <1>3, <1>4, <2>1, Zenon DEF IInv, WaitersAreOwed, Writable
<1>7. NotForgotten'
  <2> SUFFICES ASSUME NEW p \in asked
               PROVE  \/ is_in(p[1], waiter_list'[p[2]])
                      \/ \E d \in CPU : p \in fetched'[d]
                      \/ is_in(p[2], ready_list[p[1]])
    BY <1>4 DEF NotForgotten
  <2>1. p = <<p[1], p[2]>> /\ p[1] \in VM /\ p[2] \in VM
    BY SMTT(60) DEF IInv, TypeOK
  <2>2. CASE is_in(p[1], waiter_list[p[2]])
    <3>1. is_in(p[1], waiter_list'[p[2]]) \/ p = <<first, t>>
      BY <1>2, <1>3, <2>1, <2>2, Zenon
    <3>2. <<first, t>> \in fetched'[c]
      BY <1>1, <1>4
    <3> QED  BY <3>1, <3>2
  <2>3. ASSUME NEW d \in CPU, p \in fetched[d] PROVE p \in fetched'[d]
    BY <1>1, <1>4, <2>3
  <2> QED  BY <2>2, <2>3 DEF IInv, NotForgotten
<1>8. Linked'
  BY <1>2, <1>3, <1>4, Zenon DEF IInv, Linked
<1> QED  BY <1>5, <1>6, <1>7, <1>8 DEF IInv

LEMMA EnqueueStep == ASSUME IInv, NEW c \in CPU, Enqueue(c) PROVE IInv'
<1>1. PICK e \in fetched[c] :
        /\ enqueue_ready_list(e[1], e[2])
        /\ fetched' = [fetched EXCEPT ![c] = {}]
        /\ UNCHANGED <<state, configured, recv, inbox, waiter_list, owed, asked, stuck>>
  BY DEF Enqueue
<1>2. fetched[c] = {e} /\ e \in VM \X VM /\ e = <<e[1], e[2]>>
      /\ fetched \in [CPU -> {{}} \cup {{x} : x \in VM \X VM}]
  <2>1. fetched \in [CPU -> {{}} \cup {{x} : x \in VM \X VM}]
    BY DEF IInv, TypeOK
  <2>2. fetched[c] \in {{}} \cup {{x} : x \in VM \X VM}
    BY <2>1
  <2>3. PICK x \in VM \X VM : fetched[c] = {x}
    BY <2>2
  <2> QED  BY <2>1, <2>3
<1>3. PICK w \in VM, t \in VM : w = e[1] /\ t = e[2]
  BY <1>2
<1>4. ready_list[w] \in Seq(VM) /\ ready_list \in [VM -> Seq(VM)] /\ Once(ready_list[w])
  BY DEF IInv, TypeOK, Linked
<1>5. PICK longer \in Seq(VM) :
        /\ ready_list' = [ready_list EXCEPT ![w] = longer]
        /\ \A u : is_in(u, longer) <=> is_in(u, ready_list[w]) \/ u = t
        /\ Once(longer)
  <2>1. CASE is_in(t, ready_list[w])
    <3>1. ready_list' = [ready_list EXCEPT ![w] = ready_list[w]]
      BY <1>1, <1>3, <1>4, <2>1 DEF enqueue_ready_list
    <3> QED  BY <1>4, <2>1, <3>1, Zenon
  <2>2. CASE ~is_in(t, ready_list[w])
    <3>1. ready_list' = [ready_list EXCEPT ![w] = Append(ready_list[w], t)]
      BY <1>1, <1>3, <2>2 DEF enqueue_ready_list
    <3>2. PICK list : list = ready_list[w]
      OBVIOUS
    <3>3. list \in Seq(VM)
      BY <1>4, <3>2
    <3>4. /\ Append(list, t) \in Seq(VM)
          /\ \A u : is_in(u, Append(list, t)) <=> is_in(u, list) \/ u = t
          /\ Once(list) /\ ~is_in(t, list) => Once(Append(list, t))
      BY <3>3, Appended
    <3> QED  BY <1>4, <2>2, <3>1, <3>2, <3>4, Zenon
  <2> QED  BY <2>1, <2>2
<1>6. /\ ready_list' \in [VM -> Seq(VM)] /\ ready_list'[w] = longer
      /\ \A v \in VM \ {w} : ready_list'[v] = ready_list[v]
  BY <1>4, <1>5
<1>7. TypeOK'
  BY <1>1, <1>6, Zenon DEF IInv, TypeOK
<1>8. WaitersAreOwed'
  BY <1>1 DEF IInv, WaitersAreOwed, Writable
<1>9. NotForgotten'
  <2> SUFFICES ASSUME NEW p \in asked
               PROVE  \/ is_in(p[1], waiter_list[p[2]])
                      \/ \E d \in CPU : p \in fetched'[d]
                      \/ is_in(p[2], ready_list'[p[1]])
    BY <1>1 DEF NotForgotten
  <2>1. p[1] \in VM /\ p[2] \in VM
    BY SMTT(60) DEF IInv, TypeOK
  <2>2. ASSUME NEW d \in CPU, p \in fetched[d]
        PROVE  p \in fetched'[d] \/ is_in(p[2], ready_list'[p[1]])
    <3>1. CASE d = c
      <4>1. p[1] = w /\ p[2] = t
        BY <1>2, <1>3, <2>2, <3>1
      <4> QED  BY <1>5, <1>6, <4>1
    <3>2. CASE d # c
      BY <1>1, <1>2, <2>2, <3>2
    <3> QED  BY <3>1, <3>2
  <2>3. is_in(p[2], ready_list[p[1]]) => is_in(p[2], ready_list'[p[1]])
    BY <1>5, <1>6, <2>1
  <2> QED  BY <2>2, <2>3 DEF IInv, NotForgotten
<1>10. Linked'
  BY <1>1, <1>5, <1>6 DEF IInv, Linked
<1> QED  BY <1>7, <1>8, <1>9, <1>10 DEF IInv

LEMMA WritableGetStep == ASSUME IInv, NEW w \in VM, WritableGet(w) PROVE IInv'
<1>1. ready_list[w] \in Seq(VM) /\ ready_list \in [VM -> Seq(VM)] /\ Once(ready_list[w])
      /\ ready_list[w] # <<>>
  BY DEF IInv, TypeOK, Linked, WritableGet
<1>2. PICK rest \in Seq(VM), first \in VM :
        /\ rest = Tail(ready_list[w]) /\ first = Head(ready_list[w])
        /\ \A u : is_in(u, ready_list[w]) <=> u = first \/ is_in(u, rest)
        /\ Once(rest)
  <2>1. PICK list : list = ready_list[w]
    OBVIOUS
  <2>2. list \in Seq(VM) /\ list # <<>>
    BY <1>1, <2>1
  <2>3. /\ Head(list) \in VM /\ Tail(list) \in Seq(VM)
        /\ \A u : is_in(u, list) <=> u = Head(list) \/ is_in(u, Tail(list))
        /\ Once(list) => Once(Tail(list))
    BY <2>2, Popped
  <2> QED  BY <1>1, <2>1, <2>3, Zenon
<1>3. /\ ready_list' \in [VM -> Seq(VM)] /\ ready_list'[w] = rest
      /\ \A v \in VM \ {w} : ready_list'[v] = ready_list[v]
  BY <1>1, <1>2 DEF WritableGet
<1>4. /\ asked' = asked \ {<<w, first>>}
      /\ UNCHANGED <<state, configured, recv, inbox, waiter_list, fetched, owed, stuck>>
  BY <1>2 DEF WritableGet
<1>5. TypeOK'
  BY <1>3, <1>4, Zenon DEF IInv, TypeOK
<1>6. WaitersAreOwed'
  BY <1>4 DEF IInv, WaitersAreOwed, Writable
<1>7. NotForgotten'
  <2> SUFFICES ASSUME NEW p \in asked, p # <<w, first>>
               PROVE  \/ is_in(p[1], waiter_list[p[2]])
                      \/ \E d \in CPU : p \in fetched[d]
                      \/ is_in(p[2], ready_list'[p[1]])
    BY <1>4 DEF NotForgotten
  <2>1. p = <<p[1], p[2]>> /\ p[1] \in VM /\ p[2] \in VM
    BY SMTT(60) DEF IInv, TypeOK
  <2>2. is_in(p[2], ready_list[p[1]]) => is_in(p[2], ready_list'[p[1]])
    BY <1>2, <1>3, <2>1, Zenon
  <2> QED  BY <2>2 DEF IInv, NotForgotten
<1>8. Linked'
  BY <1>2, <1>3, <1>4, Zenon DEF IInv, Linked
<1> QED  BY <1>5, <1>6, <1>7, <1>8 DEF IInv

LEMMA StepInv == IInv /\ [Next]_vars => IInv'
<1> SUFFICES ASSUME IInv, [Next]_vars PROVE IInv'
  OBVIOUS
<1>1. CASE UNCHANGED vars
  BY <1>1 DEF vars, IInv, TypeOK, WaitersAreOwed, Writable, NotForgotten, Linked
<1>2. ASSUME NEW v \in VM, VMStep(v) PROVE IInv'
  BY <1>2, ConfigureStep, SendStep, WaitStep, ReadStep, ClearStep, WritableGetStep DEF VMStep
<1>3. ASSUME NEW c \in CPU, WaiterGet(c) PROVE IInv'
  BY <1>3, EnqueueStep, FetchStep, FetchNoneStep DEF WaiterGet
<1> QED  BY <1>1, <1>2, <1>3 DEF Next

THEOREM Invariance == Spec => []IInv
BY InitInv, StepInv, PTL DEF Spec

\* Type correctness.
THEOREM TypeCorrect == Spec => []TypeOK
<1>1. IInv => TypeOK
  BY DEF IInv
<1> QED  BY <1>1, Invariance, PTL

\* Nobody waits for a writable mailbox without the primary having been told.
THEOREM NobodyWaitsInVain == Spec => []WaitersAreOwed
<1>1. IInv => WaitersAreOwed
  BY DEF IInv
<1> QED  BY <1>1, Invariance, PTL

\* A request to be notified is on one of the lists, or on its way between
\* them, until the VM has been notified.
THEOREM RequestsAreKept == Spec => []NotForgotten
<1>1. IInv => NotForgotten
  BY DEF IInv
<1> QED  BY <1>1, Invariance, PTL

\* No wait entry is linked into a list that it is on.
THEOREM EntriesAreLinkedOnce == Spec => []LinkedOnce
<1>1. IInv => LinkedOnce
  BY DEF IInv, Linked, LinkedOnce, Once
<1> QED  BY <1>1, Invariance, PTL

(***************************************************************************)
(* Messages.  A mailbox that says it is empty has been cleared.            *)
(***************************************************************************)

Cleared == \A v \in VM : state[v] = "Empty" => inbox[v] = <<>>

MessageInv == Cleared /\ MessageKept

\* Senders find the inbox empty.
LEMMA SendKeeps ==
  ASSUME IInv, MessageInv, NEW f \in VM, NEW t \in VM, SendSucceeds(f, t) \/ SendRefused(f, t)
  PROVE  MessageInv'
<1>1. /\ inbox[t] = <<>> /\ recv' = [recv EXCEPT ![t] = f]
      /\ state \in [VM -> MailboxState] /\ recv \in [VM -> VM \cup {0}] /\ inbox \in [VM -> Seq(VM)]
  BY Zenon DEF IInv, TypeOK, MessageInv, Cleared, SendSucceeds, SendRefused, MaySend
<1>2. recv'[t] = f /\ \A v \in VM \ {t} : recv'[v] = recv[v]
  BY <1>1
<1>3. CASE SendSucceeds(f, t)
  <2>1. inbox'[t] = <<f>> /\ \A v \in VM \ {t} : inbox'[v] = inbox[v]
    BY <1>1, <1>3 DEF SendSucceeds
  <2>2. state'[t] # "Empty" /\ \A v \in VM \ {t} : state'[v] = state[v]
    BY <1>1, <1>3 DEF SendSucceeds
  <2> QED  BY <1>2, <2>1, <2>2, Zenon DEF MessageInv, Cleared, MessageKept
<1>4. CASE SendRefused(f, t)
  BY <1>1, <1>2, <1>4, Zenon DEF SendRefused, MessageInv, Cleared, MessageKept
<1> QED  BY <1>3, <1>4

\* The receiver empties the inbox together with the mailbox, and reading does
\* not make the mailbox empty.
LEMMA ReceiverKeeps ==
  ASSUME IInv, MessageInv, NEW v \in VM, Read(v) \/ MailboxClear(v)
  PROVE  MessageInv'
<1>1. state \in [VM -> MailboxState] /\ inbox \in [VM -> Seq(VM)] /\ recv' = recv
  BY Zenon DEF IInv, TypeOK, Read, MailboxClear
<1>2. CASE Read(v)
  <2>1. state'[v] # "Empty" /\ inbox' = inbox /\ \A u \in VM \ {v} : state'[u] = state[u]
    BY <1>1, <1>2 DEF Read
  <2> QED  BY <1>1, <2>1, Zenon DEF MessageInv, Cleared, MessageKept
<1>3. CASE MailboxClear(v)
  <2>1. inbox'[v] = <<>> /\ \A u \in VM \ {v} : inbox'[u] = inbox[u] /\ state'[u] = state[u]
    BY <1>1, <1>3 DEF MailboxClear
  <2> QED  BY <1>1, <2>1, Zenon DEF MessageInv, Cleared, MessageKept
<1> QED  BY <1>2, <1>3

\* A delivered message stays in the receive page, alone, until the receiver
\* clears its mailbox.
THEOREM MessagesAreKept == Spec => []MessageKept
<1>1. Init => MessageInv
  BY DEF Init, MessageInv, Cleared, MessageKept
<1>2. IInv /\ MessageInv /\ [Next]_vars => MessageInv'
  <2> SUFFICES ASSUME IInv, MessageInv, [Next]_vars PROVE MessageInv'
    OBVIOUS
  <2>1. CASE UNCHANGED <<state, recv, inbox>>
    BY <2>1, SMTT(60) DEF MessageInv, Cleared, MessageKept
  <2>2. ASSUME NEW v \in VM, VMStep(v), ~UNCHANGED <<state, recv, inbox>>
        PROVE  Read(v) \/ MailboxClear(v)
               \/ \E t \in VM : SendSucceeds(v, t) \/ SendRefused(v, t)
    BY <2>2 DEF VMStep, Configure, SendWaits, SendPanics, WritableGet
  <2>3. ASSUME NEW c \in CPU, WaiterGet(c) PROVE UNCHANGED <<state, recv, inbox>>
    BY <2>3 DEF WaiterGet, Enqueue, FetchWaiter, FetchNone
  <2>4. UNCHANGED vars => UNCHANGED <<state, recv, inbox>>
    BY DEF vars
  <2> QED  BY <2>1, <2>2, <2>3, <2>4, SendKeeps, ReceiverKeeps DEF Next
<1>3. MessageInv => MessageKept
  BY DEF MessageInv
<1> QED  BY <1>1, <1>2, <1>3, Invariance, PTL DEF Spec
=============================================================================
