SPECIFICATION FairSpec
CONSTANTS
    b1 = b1
    b2 = b2
    c1 = c1
    c2 = c2
    NoCall = NoCall
    Tabs = {b1}
    Calls = {c1, c2}
    Scheduled = {1}
    RingMax = 2
    QueueMax = 2
    Persist = 1
    MaxSubs = 1
    MaxUses = 1
    MaxLog = 4
    MaxTurns = 2
    MaxCrashes = 1
INVARIANTS TypeOK ShownInOrder NothingSlips FirstAnswerCounts  CardsSettle
PROPERTIES ApprovalEnds
CHECK_DEADLOCK FALSE
