SPECIFICATION FairSpec
CONSTANTS
    Bindings = {b1}
    Roles = {r1}
    ServiceAccounts = {s1}
    Arns = {a1}
    Finalizer = own
    ForeignFinalizers = {}
    None = None
    MaxFaults = 0
    MaxLag = 2
PROPERTIES
    DeletionRemovesAnnotation
