CONSTANTS
    Owners <- OnlyW
    SpecsOf <- WorkloadSpecs
    Tampered <- TamperService
    Rendered <- WorkloadKinds
    MaxDisruptions = 1
    MaxBackups = 0
    Lagging = {"GeneratedSecret", "Ingress"}
    None = None
SPECIFICATION Spec
CHECK_DEADLOCK FALSE
INVARIANTS
    MountsExist
PROPERTIES
    GeneratedValuesAreKept
    Converges
    Settles
