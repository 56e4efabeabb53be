\* Two leases, short and long budgets, one late request or stop of the process.
SPECIFICATION FairSpec
CONSTANTS
    None = None
    MaxAttempts = 2
    Document = Document
    Kinds = {"status", "wolfram", "latex"}
    LeaseSeconds = 2
    Budgets = {3}
    Timeout = 3
    Margin = 1
    MaxTime = 5
    MaxFaults = 1
INVARIANTS CancelledMeansStopped CapacityHonest
PROPERTY Returns
CHECK_DEADLOCK FALSE
