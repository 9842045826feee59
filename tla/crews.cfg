SPECIFICATION FairSpec
CONSTANTS
    write = write
    review = review
    c1 = c1
    Crews = {c1}
    Plan <- WriteThenReview
    Llm = {review}
    r1 = r1
    Reqs = {r1}
    Tick = Tick
    MaxCrews = 1
    MaxHosts = 2
    MaxOuts = 1
    MaxCrashes = 1
INVARIANTS TypeOK OneHostUp RunningHasWorker DoneIsComplete PausedIsResumable
PROPERTIES Settles 
CHECK_DEADLOCK FALSE
