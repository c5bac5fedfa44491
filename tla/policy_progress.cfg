SPECIFICATION FairSpec
CONSTANTS
    ConditionOperators = {"StringEquals"}
    Keys = {"aws:SourceArn"}
    Values = {"u", "v"}
    Grants = {"Allow"}
    Texts = {"s3:*", "*"}
    LanguageVersions = {"2012-10-17"}
    DefaultVersion = "2012-10-17"
    Nil = Nil
    NoDocument = NoDocument
    NoVersion = NoVersion
    DeleteConflicts = FALSE
    Finalizer = own
    None = None
    Policies = {p1}
    Roles = {r1}
    Specs <- OneOrNone
    Documents <- OneAndEmpty
    Valid <- OneDocument
    VersionIds = {v1, v2, v3}
    VersionLimit = 3
    ForeignFinalizers = {}
    FirstPage = {p1}
    MaxFaults = 1
    MaxLag = 1
    ForeignVersions = TRUE
PROPERTIES
    DeletionCompletes
    PolicyProvisioned
    AttachedRolesConverge
