SPECIFICATION Spec
CONSTANTS
    a = a  b = b  r1 = r1  r2 = r2  x = x  t = t  u = u  d1 = d1  d2 = d2  c1 = c1  c2 = c2
    None = None
    Artifacts = {a, b}
    Renders = {r1}
    Digests = {x}
    OrphanGrace = 1
    MaxTime = 2
    Attempts = {t}
    AttemptOf <- OneAttempt
    MaxCount = 2
    ReservationTTL = 1
    Retention = 1
    MaxFaults = 1
    Documents = {d1}
    SourceOf <- FromTheTool
    Calls = {c1}
    RenderLease = 1
    RenderTTL = 1
    IntentSeconds = 1
    MaxAttempts = 1
    MaxWindows = 0
INVARIANT ToolContentKept
PROPERTY MarksAreHonest
CHECK_DEADLOCK FALSE
