SPECIFICATION Spec
CONSTANTS
    a = a
    b = b
    k = k
    r1 = r1
    r2 = r2
    Chats = {a, b}
    Crews = {k}
    Reqs = {r1, r2}
    Reaper = Reaper
    Lifespan = Lifespan
    NoTask = NoTask
    MaxSessions = 2
    MaxQueue = 0
    MaxSubs = 0
    Keep = 2
    MaxGen = 2
    MaxTurns = 0
    MaxCrashes = 1
SYMMETRY Symmetry
 
PROPERTIES TableKept BusyCrewNotReaped
CHECK_DEADLOCK FALSE
