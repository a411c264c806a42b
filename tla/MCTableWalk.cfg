SPECIFICATION FairSpec
CONSTANTS
    CPU = {c0, c1}
    Other = other
    Nobody = nobody
    BlockCount = 2
    PerTable = 2
    Attrs = {"rw", "shared", "ro", "none"}
    Tables <- TablesDef
    Touched = {1}
    MaxUpdates = 2
INVARIANTS
    OneValidTranslation
    NoStaleTranslation
    SpuriousFaultsResume
PROPERTY AccessCompletes
CHECK_DEADLOCK FALSE
