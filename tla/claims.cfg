\* Two bots, two attempts of one and one of the other; the policy may want either of
\* them or neither, and another with each observation and once more; Core is
\* restarted once.
SPECIFICATION FairSpec
CONSTANTS
    lily = lily  nekro = nekro  third = third  None = None
    Instances = {lily, nekro}
    ClaimEnabled = {lily, nekro}
    Early = {nekro}
    Required = 1
    MaxAttempts = 2
    ClaimAttempts <- LilyTwice
    Targets <- AnyTarget
    ModesUsed = {"enforce"}
    MaxRevisions = 1
    MaxRestarts = 1
INVARIANTS OwnerCovered SilenceHasAReason
PROPERTIES KeepsTheFloor StopsWaiting
CHECK_DEADLOCK FALSE
