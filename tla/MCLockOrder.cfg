SPECIFICATION FairSpec
CONSTANTS
    CPU = {c0, c1}
    VM = {1, 2, 3}
    HF_PRIMARY_VM_ID = 1
    u2 = u2
    w2 = w2
    VCPU = {u2, w2}
    vm_of <- vm_ofDef
    NoCpu = NoCpu
    MaxCalls = 4
INVARIANT LocksInOrder
PROPERTY CallsReturn
CHECK_DEADLOCK FALSE
