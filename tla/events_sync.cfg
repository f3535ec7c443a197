SPECIFICATION FairSpec
CONSTANTS
    home = home
    away = away
    alice = alice
    bob = bob
    carol = carol
    Races = {1}
    Guilds = {home, away}
    Main = home
    Criteria <- AliceOrRestream
    PlayersOf <- Pairs
    Times = {1, 2}
    MaxTime = 2
    Length = 1
    EventIds = {1, 2, 3, 4}
    MaxChanges = 3
    MaxTroubles = 1
INVARIANTS
    OneEventEach
    RowIsOfItsRace
PROPERTIES
    EventsFollow
