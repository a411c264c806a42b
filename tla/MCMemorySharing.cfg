CONSTANTS
  v1 = v1
  v2 = v2
  v3 = v3
  VM = {v1, v2, v3}
  CPU = {c1, c2}
  Page <- MCPage
  Region <- MCRegion
  Buffers <- MCBuffers
  Access <- MCAccess
  Tracked = {1}
  InitOwner <- MCInitOwner
  Hypervisor = Hypervisor
  NoCPU = NoCPU
  NoPage = NoPage
  Zero = Zero
SYMMETRY CpuSymmetry
SPECIFICATION Spec
INVARIANTS
  PagesConsistent
  Isolation
  OwnerAgreesWithBorrower
  NoPageLost
  MailboxStaysMapped
  NoStaleHypervisorMapping
PROPERTIES
  GainedMemoryIsClear
  ImplementsOwnership
CHECK_DEADLOCK FALSE
