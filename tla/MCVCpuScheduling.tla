-------------------------- MODULE MCVCpuScheduling --------------------------
(***************************************************************************)
(* Instances of VCpuScheduling for TLC.                                    *)
(***************************************************************************)
EXTENDS VCpuScheduling

CONSTANTS u1, u2, v1, v2

\* One VM of two vCPUs, and two VMs of one vCPU.
OneVm == [u \in {u1, u2} |-> v1]
TwoVms == [u \in {u1, u2} |-> IF u = u1 THEN v1 ELSE v2]
=============================================================================
