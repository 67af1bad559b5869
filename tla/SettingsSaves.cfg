CONSTANTS
    c1 = c1
    c2 = c2
    Clients = {c1, c2}
    Forms <- AllForms
    Images = {"v1", "v2"}
    MaxEnv = 2
    Concurrency = {1, 2}
    MaxCommits = 4
    None = None
SPECIFICATION Spec
SYMMETRY Savers
INVARIANTS
    NamedHasValue
    CommittedIsSound
PROPERTIES
    SettingsAndImageApart
CHECK_DEADLOCK FALSE
