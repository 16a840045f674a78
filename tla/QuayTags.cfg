SPECIFICATION Spec
CONSTANTS
    t1 = t1
    t2 = t2
    t3 = t3
    t4 = t4
    t5 = t5
    Tags <- MCTags
    InitialRepo <- MCRepo
    InitialOld <- MCOld
    Workers = 2
    PageSize = 2
    MaxErrors = 1
    MaxPushes = 2
    MaxRemovals = 1
CHECK_DEADLOCK FALSE
INVARIANTS
    TagsHandledOnce
    OldTagsGone
PROPERTIES
    YoungTagsKept
    Termination
