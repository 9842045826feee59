SPECIFICATION Spec
CONSTANTS
    a = a
    b = b
    k = k
    r1 = r1
    r2 = r2
    Chats = {a, b}
    Crews = {}
    Reqs = {r1, r2}
    Reaper = Reaper
    Lifespan = Lifespan
    NoTask = NoTask
    MaxSessions = 1
    MaxQueue = 1
    MaxSubs = 0
    Keep = 1
    MaxGen = 2
    MaxTurns = 1
    MaxCrashes = 0
SYMMETRY Symmetry
INVARIANTS TypeOK Ceiling
 
CHECK_DEADLOCK FALSE
