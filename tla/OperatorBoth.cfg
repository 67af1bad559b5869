CONSTANTS
    Owners <- Both
    SpecsOf <- BothSpecs
    Tampered <- TamperService
    Rendered <- ServiceOnly
    MaxDisruptions = 1
    MaxBackups = 1
    Lagging = {}
    None = None
SPECIFICATION Spec
CHECK_DEADLOCK FALSE
INVARIANTS
    LastRestoreDidRestore
PROPERTIES
    ForeignIsNeverRewritten
    Converges
