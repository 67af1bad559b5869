CONSTANTS
    c1 = c1
    c2 = c2
    Clients = {c1, c2}
    Keys = {"k1", "k2"}
    Images = {"img"}
    Refs <- OneRef
    Moves <- WriterMoves
    Fenced = TRUE
    Engine = "postgres"
    Window = 0
    MaxVersion = 2
    MaxNow = 1
    None = None
SPECIFICATION Spec
SYMMETRY Callers
INVARIANTS
    TypeOK
    EventLogIsHistory
    SubChainsHold
    OneRowPerKey
    ChainVerifies
    ArchiveIsWhole
    LockedRowIsFresh
PROPERTIES
    FencedWriteExtendsWhatWasRead
