SPECIFICATION FairSpec
CONSTANTS
    Bindings = {b1}
    Roles = {r1}
    ServiceAccounts = {s1}
    Arns = {a1}
    Finalizer = own
    ForeignFinalizers = {keep}
    None = None
    MaxFaults = 1
    MaxLag = 2
INVARIANTS
    TypeOK
    IInv
    AnnotatesOnlyHeld
PROPERTIES
    ReleasesOnlyDeleting
    ReleaseCompletes
    BindingSettles
    RecordedBindingIsUndone
