SPECIFICATION Spec
CONSTANTS
    Items = {fork, other}
    Fork = fork
    MaxFaults = 2
    MaxRetries = 1
    Nil = Nil
INVARIANTS
    ForksAreReady
    SettledIsReal
    NilMeansDeleted
PROPERTY
    LeakedForksGone
