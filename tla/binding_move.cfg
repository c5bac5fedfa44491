SPECIFICATION FairSpec
CONSTANTS
    Bindings = {b1}
    Roles = {r1}
    ServiceAccounts = {s1, s2}
    Arns = {a1}
    Finalizer = own
    ForeignFinalizers = {}
    None = None
    MaxFaults = 0
    MaxLag = 1
INVARIANTS
    RecordInv
    RecordIsWhole
PROPERTIES
    BindingSettles
    RecordedBindingIsUndone
