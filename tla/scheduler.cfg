SPECIFICATION Spec
CONSTANTS
    t = t
    w = w
    k = k
    i1 = i1
    i2 = i2
    q = q
    Turns = {t}
    Works = {w}
    Crewed = {}
    Issues = {i1, i2}
    Tick = Tick
    Runners = {}
    NoOne = NoOne
    MaxSchedules = 1
    MaxQueue = 2
    MaxCrews = 1
    Keep = 1
    MaxWorked = 2
    MaxMade = 1
    MaxSessions = 2
    MaxRuns = 2
    MaxCrashes = 1
SYMMETRY Symmetry
INVARIANTS TypeOK SubmittedIsFollowed IssueOnce OneRunAtATime OutcomeIsOwn
CHECK_DEADLOCK FALSE
