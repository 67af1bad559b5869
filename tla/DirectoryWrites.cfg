CONSTANTS
    r1 = r1
    r2 = r2
    r3 = r3
    Requests = {r1, r2, r3}
    None = None
    Clean <- MCClean
    MaxName = 2
    MaxVolumes = 1
    MaxSecrets = 1
    Asks <- MCAsks
    Registries <- MCRegistries
    App <- MCApp
    Starts <- MCStarts
SPECIFICATION Spec
INVARIANT InstallIsWhole
INVARIANT SharedValuesAreNeverMintedTwice
PROPERTY ChangesItsPartOnly
CHECK_DEADLOCK FALSE
