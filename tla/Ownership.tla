------------------------------ MODULE Ownership ------------------------------
(***************************************************************************)
(* What memory sharing promises, without page tables, locks or failures:   *)
(* every page has one owner, which is a VM or the hypervisor, and a set of *)
(* VMs that may access it.  The comment on Mode in hfo2/src/mm.rs names    *)
(* these states; each action here is the net effect of one successful      *)
(* hypercall, over all the pages it names at once.                         *)
(***************************************************************************)
CONSTANTS VM, Page, Region, Buffers, Hypervisor, InitOwner

VARIABLES
  owner,  \* owner[p]: the VM, or the hypervisor, that owns page p
  access  \* access[p]: the VMs that have access to page p

vars == <<owner, access>>

Init ==
  /\ owner = InitOwner
  /\ access = [p \in Page |-> {InitOwner[p]} \cap VM]

\* The pages of S belong to v and to nobody else.
ExclusiveTo(v, S) == \A p \in S : owner[p] = v /\ access[p] = {v}

\* The pages of S belong to v, and w has borrowed or shares them.
BorrowedFrom(v, w, S) == \A p \in S : owner[p] = v /\ w \in access[p]

SetOwner(S, v)  == owner'  = [p \in Page |-> IF p \in S THEN v ELSE owner[p]]
SetAccess(S, A) == access' = [p \in Page |-> IF p \in S THEN A ELSE access[p]]

\* What a VM can do with pages that are its own and nobody else's.
Give(to, S)            == SetOwner(S, to) /\ SetAccess(S, {to})
Lend(to, S)            == SetAccess(S, {to}) /\ UNCHANGED owner
ShareWith(from, to, S) == SetAccess(S, {from, to}) /\ UNCHANGED owner

\* The borrower gives the pages back to their owner.
Return(to, S) == SetAccess(S, {to}) /\ UNCHANGED owner

\* The owner donates the pages to the VM that has borrowed them.
DonateToBorrower(to, S) == SetOwner(S, to) /\ SetAccess(S, {to})

\* A VM hands its two buffer pages to the hypervisor and keeps access.
Configure(S) == SetOwner(S, Hypervisor) /\ UNCHANGED access

Next ==
  \/ \E from \in VM, S \in Region :
       /\ ExclusiveTo(from, S)
       /\ \E to \in VM \ {from} : Give(to, S) \/ Lend(to, S) \/ ShareWith(from, to, S)
  \/ \E v \in VM, S \in Region : \E w \in VM \ {v} :
       /\ BorrowedFrom(v, w, S)
       /\ Return(v, S) \/ DonateToBorrower(w, S)
  \/ \E v \in VM, b \in Buffers :
       /\ ExclusiveTo(v, {b[1], b[2]})
       /\ Configure({b[1], b[2]})

Spec == Init /\ [][Next]_vars
=============================================================================
