\* Two messages of one conversation, one at a time; two model attempts for each;
\* one restart or loss.
SPECIFICATION Spec
CONSTANTS
    m1 = m1  m2 = m2  None = None
    Messages = {m1, m2}
    MaxAttempts = 2
    MaxConcurrent = 1
    MaxPerWindow = 1
    RateWindow = 0
    MaxPerDay = 2
    DayLength = 2
    InteractionLife = 2
    RunLife = 1
    LeaseLife = 1
    MaxTime = 2
    MaxFaults = 1
    OutcomesUsed = {"answer", "tool", "timed_out"}
SYMMETRY Alike
INVARIANTS SettledTogether WithinLimits
PROPERTY AnswersAtMostOnce
CHECK_DEADLOCK FALSE
