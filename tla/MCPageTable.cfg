SPECIFICATION Spec
CONSTANTS
    rw = rw
    lent = lent
    no = no
    PerTable = 2
    MaxLevel = 2
    RootCount = 2
    BlockLevel = 1
    Valid <- MCValid
    Owned <- MCOwned
    Unowned <- MCUnowned
    PoolPages = 4
    MaxOthers = 1
    MaxLength = 5
INVARIANTS
    PagesAccounted
    CommitNeedsNoPages
    MappingIsExact
    RollbackNeedsNoPages
