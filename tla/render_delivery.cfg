SPECIFICATION Spec
CONSTANTS
    a = a  b = b  r1 = r1  r2 = r2  x = x  t = t  u = u  d1 = d1  d2 = d2  c1 = c1  c2 = c2
    None = None
    Artifacts = {}
    Renders = {r1, r2}
    Digests = {x}
    OrphanGrace = 2
    MaxTime = 2
    Attempts = {}
    AttemptOf <- OneAttempt
    MaxCount = 2
    ReservationTTL = 1
    Retention = 1
    MaxFaults = 1
    Documents = {d1}
    SourceOf <- NoSource
    Calls = {c1, c2}
    RenderLease = 1
    RenderTTL = 1
    IntentSeconds = 1
    MaxAttempts = 2
    MaxWindows = 1
PROPERTIES DeliversAtMostOnce FencedPublication
SYMMETRY Interchangeable
CHECK_DEADLOCK FALSE
