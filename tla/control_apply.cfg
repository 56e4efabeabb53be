\* Two of one operator's tabs, or two operators, each with one session; two plans
\* that may both be activated, the descriptor and the provider they rely on.
SPECIFICATION Spec
CONSTANTS
    p1 = p1  p2 = p2  d1 = d1  v1 = v1
    admin = admin  reviewer = reviewer  sec = sec  s1 = s1  s2 = s2
    k1 = k1  k2 = k2  r1 = r1  r2 = r2
    None = None
    Plans = {p1, p2}
    Descriptors = {d1}
    Providers = {v1}
    Items <- EachPlanOneItem
    SelectedBy <- SelectsOne
    LifecycleAtStart <- OneReviewedOnePaused
    PlanExpires <- FarExpiry
    MaxInvocations = 1
    ReportLife = 0
    Operators = {admin, reviewer, sec}
    Role <- OneOfEach
    Sessions = {s1, s2}
    Asked <- UpAndDown
    Restarts <- StoppedOnce
    Keys = {k1, k2}
    Requests = {r1, r2}
    SessionLife = 3
    ReauthLife = 2
    PreviewLife = 1
    MaxTime = 1
    MaxPreviews = 2
    MaxDisturbances = 1
SYMMETRY Alike
INVARIANTS OneAnswerPerKey LedgerExplainsRows PauseSurvivesDrift
PROPERTIES RowsKeepTheConstraints ImplementsRegister
CHECK_DEADLOCK FALSE
