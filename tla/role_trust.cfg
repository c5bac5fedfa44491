SPECIFICATION EventSpec
CONSTANTS
    Roles = {r1}
    Policies = {}
    Bindings = {b1, b2}
    ServiceAccounts = {s1, s2}
    Finalizer = own
    ForeignFinalizers = {}
    None = None
    DeleteConflicts = FALSE
    MaxFaults = 1
    MaxLag = 1
    ForeignTrust = {{"deny", "service"}, {"list"}}
PROPERTIES
    GrantsOnlyHeld
    TrustPresence
    BoundAccountsRecorded
