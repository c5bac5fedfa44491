SPECIFICATION Spec
CONSTANTS
    ConditionOperators = {"StringEquals"}
    Keys = {"aws:SourceArn"}
    Values = {"u", "v"}
    Grants = {"Allow"}
    Texts = {"s3:*", "*"}
    LanguageVersions = {"2012-10-17"}
    DefaultVersion = "2012-10-17"
    Nil = Nil
    NoDocument = NoDocument
    NoVersion = NoVersion
    DeleteConflicts = FALSE
    None = None
    Policies = {p1}
    Roles = {r1}
    Bindings = {}
    ServiceAccounts = {}
    ForeignTrust = {}
    RoleFinalizer = own
    PolicyFinalizer = ownPolicy
    Specs <- OneSpec
    Documents <- OneAndEmpty
    Valid <- OneDocument
    VersionIds = {v1}
    VersionLimit = 1
    ForeignFinalizers = {}
    FirstPage = {p1}
    MaxFaults = 1
    CallsFail = FALSE
    MaxLag = 1
    MaxEdits = 3
    ForeignVersions = FALSE
CHECK_DEADLOCK FALSE
PROPERTIES
    ImplementsReconcilers
    AttachesOnlyHeld
    ReferencesAreAttached
