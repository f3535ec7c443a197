SPECIFICATION FairSpec
CONSTANTS
    p1 = p1
    p2 = p2
    Racers = {p1, p2}
    Bots = {p2}
    Slots = {1}
    Clients = {1}
    MaxDM = 1
    MaxCancels = 1
    MaxFailures = 1
    MaxRestarts = 1
    MaxTroubles = 1
INVARIANTS
    PostedOnce
    RunnerCanGoOn
    PostedResultsAreComplete
PROPERTIES
    ImplementsContract
    FinishedRaceIsClosed
\* The system may stop: the race is over and nobody has a button left.
CHECK_DEADLOCK FALSE
