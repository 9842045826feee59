SPECIFICATION FairSpec
CONSTANTS
    a = a
    b = b
    k = k
    r1 = r1
    r2 = r2
    Chats = {a}
    Crews = {}
    Reqs = {r1}
    Reaper = Reaper
    Lifespan = Lifespan
    NoTask = NoTask
    MaxSessions = 1
    MaxQueue = 1
    MaxSubs = 0
    Keep = 1
    MaxGen = 1
    MaxTurns = 1
    MaxCrashes = 0
PROPERTIES ShutdownCompletes
CHECK_DEADLOCK FALSE
