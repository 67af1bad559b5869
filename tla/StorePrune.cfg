CONSTANTS
    c1 = c1
    c2 = c2
    Clients = {c1, c2}
    Keys = {"k1", "k2"}
    Images = {"img"}
    Refs <- OneRef
    Moves <- ObserverMoves
    Fenced = TRUE
    Engine = "sqlite"
    Window = 1
    MaxVersion = 1
    MaxNow = 3
    None = None
SPECIFICATION Spec
SYMMETRY Callers
INVARIANTS
    DuplicateIsAnswered
    AppendIsNeverRefused
