\* One invocation of a retry_safe tool, handed out up to twice.
SPECIFICATION FairSpec
CONSTANTS
    i1 = i1  i2 = i2  p1 = p1  p2 = p2  v1 = v1  v2 = v2
    s1 = s1  s2 = s2  tool = tool  None = None
    Invocations = {i1}
    Plans = {p1}
    Tools = {tool}
    Providers = {v1}
    Scopes = {s1}
    Attempts = {1, 2}
    ScopeTool <- OneTool
    ConfirmTools = {}
    PlanItem <- SingleItems
    PlanExpires <- ExpiresSoon
    MaxInvocations <- QuotaTwo
    ActiveAtStart = p1
    MaxOperations = 2
    ScopeOf <- SingleScopes
    RetrySafe = {tool}
    ToolLimit <- LimitOne
    ProviderLimit <- LimitTwo
    RateRequests = 2
    RateWindow = 1
    Timeout = 3
    LeaseSeconds = 1
    ConfirmSeconds = 1
    MaxLag = 1
    Horizon = 4
INVARIANTS AttemptsAgree
PROPERTIES OutcomeFromNewestAttempt LeaseNeedsAuthority EverythingEnds KeepsThePromise
CHECK_DEADLOCK FALSE
