SPECIFICATION FairSpec
CONSTANTS
    ConditionOperators = {"StringEquals"}
    Keys = {"aws:SourceArn"}
    Values = {"u", "v"}
    Grants = {"Allow"}
    Texts = {"s3:*", "*"}
    LanguageVersions = {"2012-10-17"}
    DefaultVersion = "2012-10-17"
    Nil = Nil
    NoDocument = NoDocument
    NoVersion = NoVersion
    DeleteConflicts = FALSE
    Finalizer = own
    None = None
    Policies = {p1}
    Roles = {}
    Specs <- TwoSpecs
    Documents <- TwoAndEmpty
    Valid <- TwoDocuments
    VersionIds = {v1, v2, v3}
    VersionLimit = 3
    ForeignFinalizers = {}
    FirstPage = {p1}
    MaxFaults = 1
    MaxLag = 1
    ForeignVersions = FALSE
PROPERTIES
    DocumentConverges
