SPECIFICATION Spec
CONSTANTS
    Requests = {r1, r2}
    NFd = 3
    Host = "host"
    Paths <- AllPaths
    Asked = {"/"}
    Proxied <- ProxiedPaths
    RuleLists <- TheRules
    MaxChunks = 2
    MaxParts = 2
INVARIANTS
    AnsweredOnce
    DescriptorsReturned
    WaitsOnOwn
    RequestAsSent
    RelayComplete
PROPERTIES
    StraysOnlyByLateKill
    OnceDecodedItEnds
CHECK_DEADLOCK FALSE
