--------------------------- MODULE MCMemorySharing ---------------------------
(***************************************************************************)
(* Instances of MemorySharing for TLC.                                     *)
(***************************************************************************)
EXTENDS MemorySharing, Integers, TLC

CONSTANTS v1, v2, v3

\* Page 1 passes between the VMs; pages 2 to 5 can become the mailbox
\* buffers of v1 and v2, and page 2 can be transferred as well; page 6 is
\* the hypervisor's.
MCPage == 1..6
MCRegion == {{1}, {1, 2}, {6}}
MCBuffers == {<<2, 3>>, <<4, 5>>, <<2, 1>>}
MCAccess == {{"R"}, RWX}
MCInitOwner ==
  [p \in MCPage |-> CASE p \in {1, 2, 3} -> v1 [] p \in {4, 5} -> v2
                      [] p = 6 -> Hypervisor]

\* The CPUs are interchangeable: no action or property names one.
CpuSymmetry == Permutations(CPU)
=============================================================================
