---------------------------- MODULE MCTableWalk ----------------------------
(***************************************************************************)
(* TableWalk.tla with two entries of two pages.  The second entry starts   *)
(* out as a block the VM has for itself, the first as one it has shared,   *)
(* one it may only read or one it does not have; the first update of the   *)
(* call leaves tables for the second.                                      *)
(***************************************************************************)
EXTENDS TableWalk

TablesDef == {(0 :> Block(a)) @@ (1 :> Block("rw")) : a \in {"shared", "ro", "none"}}
=============================================================================
