SPECIFICATION FairSpec
CONSTANTS
    Roles = {r1}
    Policies = {p1}
    Bindings = {}
    ServiceAccounts = {}
    Finalizer = own
    ForeignFinalizers = {}
    None = None
    DeleteConflicts = TRUE
    MaxFaults = 0
    MaxLag = 1
    ForeignTrust = {}
PROPERTIES
    DeletionCompletes
