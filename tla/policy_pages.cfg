SPECIFICATION FairSpec
CONSTANTS
    ConditionOperators = {"StringEquals"}
    Keys = {"aws:SourceArn"}
    Values = {"u", "v"}
    Grants = {"Allow"}
    Texts = {"s3:*", "*"}
    LanguageVersions = {"2012-10-17"}
    DefaultVersion = "2012-10-17"
    Nil = Nil
    NoDocument = NoDocument
    NoVersion = NoVersion
    DeleteConflicts = FALSE
    Finalizer = own
    None = None
    Policies = {p1}
    Roles = {}
    Specs <- OneSpec
    Documents <- OneAndEmpty
    Valid <- OneDocument
    VersionIds = {v1, v2}
    VersionLimit = 2
    ForeignFinalizers = {}
    FirstPage = {}
    MaxFaults = 0
    MaxLag = 1
    ForeignVersions = FALSE
PROPERTIES
    PolicyProvisioned
