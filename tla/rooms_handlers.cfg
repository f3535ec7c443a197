SPECIFICATION FairSpec
CONSTANTS
    old = old
    new = new
    Races = {1}
    Seasons = {old, new}
    SeasonOf <- OldAndNew
    MaxHandlers = 2
    Capacity = 1
    MaxCommands = 2
    MaxTroubles = 1
INVARIANTS
    PlayersCanEnter
    ToldOnce
PROPERTIES
    HandlerGoesOn
    ControllerFollows
    RoomIsTakenUp
\* The system may stop: every race may be over.
CHECK_DEADLOCK FALSE
