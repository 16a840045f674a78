SPECIFICATION Spec
CONSTANTS
    p1 = p1
    p2 = p2
    Procs <- MCProcs
    Required = {"tenant"}
    Others = {"other"}
    MaxEdits = 1
    Nil = Nil
CHECK_DEADLOCK FALSE
INVARIANTS
    ForeignLabelsKept
    LabelledWhenReturned
    ReadyWhenReturned
    DeletedIsGone
PROPERTIES
    Termination
