SPECIFICATION Spec
CONSTANTS
  u1 = u1
  u2 = u2
  v1 = v1
  v2 = v2
  CPU = {c1, c2}
  VM = {v1}
  VCpu = {u1, u2}
  VmOf <- OneVm
  Started = {u1}
  Psci = {"CPU_ON", "CPU_OFF", "CPU_SUSPEND", "AFFINITY_INFO"}
  Events = {"interrupt", "message"}
  Orderly = FALSE
  NoCPU = NoCPU
  NoVCpu = NoVCpu
INVARIANTS OneCpuPerVCpu ContextIntact
PROPERTY AbortIsFinal
CHECK_DEADLOCK FALSE
