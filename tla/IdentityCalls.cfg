CONSTANTS
    c1 = c1
    c2 = c2
    acme = acme
    globex = globex
    pw1 = pw1
    pw2 = pw2
    panel = panel
    other = other
    Engines = {"sqlite", "postgres"}
    TenantIds = {1, 2, 3}
    AccountIds = {1, 2, 3}
    Slugs = {acme, globex}
    Roles = {"viewer"}
    Hosts = {panel, other}
    Boots = {1, 2}
    Logins = {"l1"}
    Requests = {"r1"}
    Changes = {c1, c2}
    Passwords = {pw1, pw2}
    EmailOf <- Addresses
    Fold <- Lower
    TTL = 1
    MaxNow = 1
    MaxAdmin = 2
    MaxCrashes = 1
    None = None
SPECIFICATION Spec
SYMMETRY Names
INVARIANTS
    BootstrapIsWhole
    
    AdmittedWasGranted
PROPERTY ImplementsMemory
CHECK_DEADLOCK FALSE
