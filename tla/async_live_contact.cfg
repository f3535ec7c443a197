SPECIFICATION FairSpec
CONSTANTS
    p1 = p1
    p2 = p2
    Racers = {p1, p2}
    Bots = {p2}
    Slots = {}
    Clients = {}
    MaxDM = 5
    MaxCancels = 1
    MaxFailures = 2
    MaxRestarts = 1
    MaxTroubles = 3
INVARIANTS
    ContactedCanStart
PROPERTIES
    RacerIsContacted
    IncompleteRaceIsClosed
    BotForfeits
\* The system may stop: the race is over and nobody has a button left.
CHECK_DEADLOCK FALSE
