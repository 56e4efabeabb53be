\* Two events, and a file that is damaged once; what is captured leaves the queue.
SPECIFICATION FairSpec
CONSTANTS
    Keys = {a, b}
    None = None
    Contents = {"x"}
    MaxSpools = 2
    StartOutcomes = {"opened", "damaged", "failed"}
INVARIANTS NothingLost OneBinding ConflictHasACause WatermarkExact
PROPERTIES DeliversAsPromised Drains
