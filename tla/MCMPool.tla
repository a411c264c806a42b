------------------------------ MODULE MCMPool -------------------------------
(***************************************************************************)
(* Two CPUs and a heap of five pages that is not aligned: single pages and *)
(* an aligned pair, so that chunks are split on either side.               *)
(***************************************************************************)
EXTENDS MPool, TLC

CONSTANTS c1, c2

MCCPU == {c1, c2}
MCRequests == {[size |-> 1, align |-> 1], [size |-> 2, align |-> 2]}
Symmetry == Permutations(MCCPU)
=============================================================================
