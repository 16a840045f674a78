SPECIFICATION Spec
CONSTANTS
    Scenarios = {s1}
    Expected = {}
    MaxBuilds = 2
    MaxTests = 1
    MaxReleases = 1
    Outer = 1
    Inner = 2
    MaxFaults = 1
    Nil = Nil
INVARIANTS
    AnnotationWaitBounded
    ReleasedWasTested
    DeletedMeansGone
CHECK_DEADLOCK FALSE
