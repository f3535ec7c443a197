SPECIFICATION FairSpec
CONSTANTS
    a = a
    b = b
    c = c
    d = d
    Players = {a, b, c, d}
    Races = {1, 2, 3}
    P1 <- First
    P2 <- Second
    Unnamed = {b}
    Rooms = {1}
    Groups <- Meetings
    MaxOdd = 1
    MaxTime = 3
    Due = 0
    Early = 0
    MaxCommands = 3
    MaxTroubles = 1
INVARIANTS
    UrlIsOfItsRace
    ResultsAreOfOneRoom
PROPERTIES
    FindableIsFound
\* The system may stop: nobody has to play.
CHECK_DEADLOCK FALSE
