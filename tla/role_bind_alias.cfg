SPECIFICATION Spec
CONSTANTS
    Roles = {r1}
    Policies = {}
    Bindings = {b1, b2}
    ServiceAccounts = {s1, s2}
    Finalizer = own
    ForeignFinalizers = {}
    None = None
    DeleteConflicts = FALSE
    MaxFaults = 0
    MaxLag = 1
    ForeignTrust = {}
INVARIANTS
    BindEstablishesTrust
