SPECIFICATION FairSpec
CONSTANTS
    Roles = {r1}
    Policies = {p1}
    Bindings = {}
    ServiceAccounts = {}
    Finalizer = own
    ForeignFinalizers = {keep}
    None = None
    DeleteConflicts = FALSE
    MaxFaults = 1
    MaxLag = 1
    ForeignTrust = {}
INVARIANTS
    TypeOK
    NoOrphan
    IInv
PROPERTIES
    GrantsOnlyHeld
    DeletesOnlyDeleting
    ImplementsManagedResource
    DeletionCompletes
    RoleProvisioned
    AttachmentsConverge
