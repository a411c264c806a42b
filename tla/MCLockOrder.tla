----------------------------- MODULE MCLockOrder -----------------------------
(***************************************************************************)
(* LockOrder.tla with the primary, a secondary VM of two vCPUs and one     *)
(* whose vCPUs do not run, to which the others send messages and memory.   *)
(***************************************************************************)
EXTENDS LockOrder, TLC

CONSTANTS u2, w2

vm_ofDef == (u2 :> 2) @@ (w2 :> 2)
=============================================================================
