SPECIFICATION FairSpec
CONSTANTS
    ConditionOperators = {"StringEquals"}
    Keys = {"aws:SourceArn"}
    Values = {"u", "v"}
    Grants = {"Allow"}
    Texts = {"s3:*", "*"}
    LanguageVersions = {"2012-10-17"}
    DefaultVersion = "2012-10-17"
    Nil = Nil
    NoDocument = NoDocument
    NoVersion = NoVersion
    DeleteConflicts = FALSE
    Finalizer = own
    None = None
    Policies = {p1}
    Roles = {}
    Specs <- ThreeSpecs
    Documents <- TwoAndEmpty
    Valid <- TwoDocuments
    VersionIds = {v1, v2}
    VersionLimit = 2
    ForeignFinalizers = {keep}
    FirstPage = {p1}
    MaxFaults = 1
    MaxLag = 1
    ForeignVersions = FALSE
INVARIANTS
    TypeOK
    NoOrphan
    IInv
PROPERTIES
    DeletesOnlyDeleting
    InForceIsHeld
    ImplementsManagedResource
    DocumentFollowsSpec
