SPECIFICATION Spec
CONSTANTS
    Runs <- TwoRuns
    PaC = TRUE
    InitialEvent = "incoming"
    MaxCommits = 3
    Retries = 1
    Always = TRUE
    InitialSha = 0
    EventFilter = "incoming"
    Provider = "gitlab"
    Nil = Nil
CHECK_DEADLOCK FALSE
INVARIANTS
    AttemptJudgesFreshRun
    SuccessIsReal
    RetriggerBudget
PROPERTIES
    NotCreatedIsTrue
    Termination
    ImplementsBoundedRetry
