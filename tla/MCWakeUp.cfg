SPECIFICATION Spec
CONSTANTS
  u1 = u1
  u2 = u2
  v1 = v1
  v2 = v2
  CPU = {c1, c2}
  VM = {v1, v2}
  VCpu = {u1, u2}
  VmOf <- TwoVms
  Started = {u1, u2}
  Psci = {"CPU_OFF"}
  Events = {"interrupt", "message", "timer"}
  Orderly = TRUE
  NoCPU = NoCPU
  NoVCpu = NoVCpu
INVARIANTS NoLostWakeUp
