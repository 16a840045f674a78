SPECIFICATION Spec
CONSTANTS
    Procs = {p1, p2}
    Users = {u1, u2}
    SharedFile = SharedFile
    MaxAttempts = 2
    Nil = Nil
INVARIANTS
    UserIsUsable
    DeactivationIsReal
PROPERTY
    CallsEnd
