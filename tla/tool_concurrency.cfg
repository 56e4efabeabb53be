\* Two providers compete for one tool under one plan, leases are taken in two
\* steps, operators pause, suspend and quarantine meanwhile.
SPECIFICATION Spec
CONSTANTS
    i1 = i1  i2 = i2  p1 = p1  p2 = p2  v1 = v1  v2 = v2
    s1 = s1  s2 = s2  tool = tool  None = None
    Invocations = {i1, i2}
    Plans = {p1}
    Tools = {tool}
    Providers = {v1, v2}
    Scopes = {s1, s2}
    Attempts = {1, 2}
    ScopeTool <- OneTool
    ConfirmTools = {}
    PlanItem <- ConcurrencyItems
    PlanExpires <- ExpiresLate
    MaxInvocations <- QuotaTwo
    ActiveAtStart = p1
    MaxOperations = 1
    ScopeOf <- ConcurrencyScopes
    RetrySafe = {}
    ToolLimit <- LimitOne
    ProviderLimit <- LimitTwo
    RateRequests = 2
    RateWindow = 1
    Timeout = 1
    LeaseSeconds = 1
    ConfirmSeconds = 1
    MaxLag = 1
    Horizon = 2
INVARIANTS ConcurrencyWithinLimits
CHECK_DEADLOCK FALSE
