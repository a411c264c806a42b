SPECIFICATION FairSpec
CONSTANTS
  u1 = u1
  u2 = u2
  v1 = v1
  v2 = v2
  CPU = {c1, c2}
  VM = {v1}
  VCpu = {u1, u2}
  VmOf <- OneVm
  Started = {u1, u2}
  Psci = {"CPU_OFF"}
  Events = {"interrupt"}
  Orderly = TRUE
  NoCPU = NoCPU
  NoVCpu = NoVCpu

PROPERTIES InterruptDelivered AbortCompletes
