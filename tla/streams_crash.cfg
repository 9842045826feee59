SPECIFICATION Spec
CONSTANTS
    b1 = b1
    b2 = b2
    c1 = c1
    c2 = c2
    NoCall = NoCall
    Tabs = {b1}
    Calls = {}
    Scheduled = {}
    RingMax = 2
    QueueMax = 2
    Persist = 1
    MaxSubs = 1
    MaxUses = 1
    MaxLog = 5
    MaxTurns = 2
    MaxCrashes = 1
INVARIANTS LastIdMeansSame
CHECK_DEADLOCK FALSE
