SPECIFICATION Spec
CONSTANTS
    Runs <- TwoRuns
    PaC = TRUE
    InitialEvent = "pull_request"
    MaxCommits = 1
    Retries = 1
    Always = TRUE
    InitialSha = 0
    EventFilter = ""
    Provider = "github"
    Nil = Nil
CHECK_DEADLOCK FALSE
INVARIANT NeverPanics
