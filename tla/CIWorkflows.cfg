CONSTANTS
    Jobs <- AllJobs
    TestCases <- SomeCases
SPECIFICATION Spec
INVARIANTS OneWorkflowPerJob RunsOwnSuite AffectedTestsSelected
PROPERTY TestsOnPreparedCluster
CHECK_DEADLOCK FALSE
