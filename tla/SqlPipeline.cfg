SPECIFICATION Spec
CONSTANTS
    Tables <- MCTables
    Columns <- MCColumns
    Metrics <- MCMetrics
    TableOf <- MCTableOf
    NameOf <- MCNameOf
    KnownTables = {"orders", "users", "shops"}
    KnownColumns = {"orders.amount", "orders.uid", "users.uid", "users.city", "shops.city"}
    KeyColumns = {"orders.uid", "users.uid"}
    Dimensions = {"users", "shops"}
    Relevant <- MCRelevant
    NameTerms <- MCNameTerms
    TextTerms <- MCTextTerms
    Aliases <- MCAliases
    FactTerms = {"sales"}
    Before <- MCBefore
    TopTables = 3
    MaxTables = 2
    TopMetrics = 2
    MaxMetrics = 1
    MaxRows = 2
    SystemSchemas = {"mysql", "sys"}
    Database = "dw"
    AllowStar = FALSE
    MaxEstimatedRows = 6
    MaxQueryCost = 10
    MaxJoinTables = 2
    MaxFactScans = 0
    MaxUnknownScanRows = 3
    AllowDimensionScan = TRUE
    RejectAnyScan = FALSE
    RejectFilesort = FALSE
    RejectTemporary = FALSE
    FactTables = {"orders"}
    DimensionTables = {"users", "shops"}
    Findings <- MCFindings
    TableAnswers <- MCTableAnswers
    MetricAnswers <- MCMetricAnswers
    Statements <- MCStatements
    Plans <- MCPlans
    Configs <- MCConfigs
    MaxRetries = 1
    MaxNamed = 2
INVARIANTS
    TypeOK
    SelectionBounded
    SelectionCovers
    RunsWhatWasChecked
    AuditTruthful
