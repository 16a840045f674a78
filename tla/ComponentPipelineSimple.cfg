SPECIFICATION Spec
CONSTANTS
    Runs <- ThreeRuns
    PaC = FALSE
    InitialEvent = "push"
    MaxCommits = 1
    Retries = 2
    Always = FALSE
    InitialSha = 0
    EventFilter = ""
    Provider = "github"
    Nil = Nil
CHECK_DEADLOCK FALSE
INVARIANT
    DeletesOnlyFlakedRuns
