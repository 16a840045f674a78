SPECIFICATION Spec
CONSTANTS
    Jobs <- MCJobs
    Own = own
    Others = {h1}
    MaxFaults = 1
    Nil = Nil
INVARIANTS
    BootstrapDelivers
    PacTestsNeedRegistration
    CatalogsAreRegistered
PROPERTY
    DeadHostsLeave
