SPECIFICATION FairSpec
CONSTANTS
    a = a
    b = b
    k = k
    r1 = r1
    r2 = r2
    Chats = {a, b}
    Crews = {}
    Reqs = {r1, r2}
    Reaper = Reaper
    Lifespan = Lifespan
    NoTask = NoTask
    MaxSessions = 1
    MaxQueue = 1
    MaxSubs = 1
    Keep = 1
    MaxGen = 1
    MaxTurns = 0
    MaxCrashes = 0
PROPERTIES IdleSleeps Answered
CHECK_DEADLOCK FALSE
