CONSTANTS
    c1 = c1
    c2 = c2
    Clients = {c1, c2}
    Places <- Contended
    Engines = {"sqlite", "postgres"}
    None = None
SPECIFICATION Spec
SYMMETRY Callers
INVARIANTS
    ClaimsHoldOnSqlite
    NoIdleClaimOnSqlite
    OneLandingSite
