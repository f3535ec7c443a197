SPECIFICATION Spec
CONSTANTS
    old = old
    new = new
    Races = {1, 2}
    Seasons = {old, new}
    SeasonOf <- OldAndNew
    MaxHandlers = 0
    Capacity = 1
    MaxCommands = 0
    MaxTroubles = 0
INVARIANTS
    RoomIsOfItsSeason
\* The system may stop: every race may be over.
CHECK_DEADLOCK FALSE
