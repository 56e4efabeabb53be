\* Two invocations of a tool that asks for confirmation share a quota of one
\* and a rate of one per window.
SPECIFICATION Spec
CONSTANTS
    i1 = i1  i2 = i2  p1 = p1  p2 = p2  v1 = v1  v2 = v2
    s1 = s1  s2 = s2  tool = tool  None = None
    Invocations = {i1, i2}
    Plans = {p1}
    Tools = {tool}
    Providers = {v1}
    Scopes = {s1}
    Attempts = {1}
    ScopeTool <- OneTool
    ConfirmTools = {tool}
    PlanItem <- SingleItems
    PlanExpires <- ExpiresLater
    MaxInvocations <- QuotaOne
    ActiveAtStart = p1
    MaxOperations = 1
    ScopeOf <- SingleScopes
    RetrySafe = {}
    ToolLimit <- LimitOne
    ProviderLimit <- LimitTwo
    RateRequests = 1
    RateWindow = 1
    Timeout = 1
    LeaseSeconds = 1
    ConfirmSeconds = 3
    MaxLag = 1
    Horizon = 3
INVARIANTS QuotaExact RateWithinLimit ConfirmationAgrees
CHECK_DEADLOCK FALSE
