CONSTANTS
    MaxDiff <- Bounds
    TestCases = {}
SPECIFICATION SelectionSpec
INVARIANTS ExactlyOneTestRun ChangedTestsSelected ChangedComponentsTested
CHECK_DEADLOCK FALSE
