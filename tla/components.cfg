SPECIFICATION SideSpec
INVARIANTS SideTypeOK PacedTogether     FiresNext LearntTruly
PROPERTIES WritersApart 
SYMMETRY Symmetries
CHECK_DEADLOCK FALSE
CONSTANTS
    Governors = {a, b}
    Chain <- ChainOfTwo
    Limits <- LimitsOfTwo
    Sizes = {1}
    Minute = 2
    Day = 3
    Keep = 3
    Slice = 1
    MaxAttempts = 2
    MinFactor = 50
    Recover = 100
    Retries = {0}
    Cooldown = 1
    Backoff = 2
    MaxTime = 3
    MaxCalls = 3

    Clients = {a, b}
    BudgetCap = 2
    MaxQueued = 1
    MaxCost = 1
    MaxDays = 2
    MaxTotal = 3

    MaxMilestones = 2
    NoPlan = NoPlan

    Names = {x, y}
    Pools = {pool}
    Pool = pool
    MainSpace = home
    Writers = {a, b}
    NoAgent = NoAgent
    Hidden = Hidden
    MaxInherits = 2
    MaxEdits = 3

    MemSpaces = {"main", "agent"}
    Scopes <- ScopesOfTwo
    Texts = {x, y}
    GistOf <- OneGist
    Passes = {a, b}
    RemBatch = 2
    PruneOneIn = 2
    MaxIds = 2
    MaxWrites = 2

    Addresses = {x, y}
    Branches <- OneBranch
    MaxLayers = 2

    DayLength = 6
    WeekLength = 3
    Units = {1, 2, 6}
    MinInterval = 2
    Forward = 8
    Back = 21
    Shift = 2
    Horizon = 40

    ChatsOf <- ChatsOfTwo
    Labels = {"edit", "deploy"}
    LowSignal = {"edit"}
    Miners = {"pass"}
    GramSizes = {1, 2}
    RecurThreshold = 2
    EpisodeMin = 2
    LogWindow = 3
    EventsKeep = 2
    ConsolidateEvery = 2
    Suppliable <- OneWorkflow
    MaxEvents = 4
    MaxCommands = 2
