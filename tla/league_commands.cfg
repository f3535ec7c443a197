SPECIFICATION Spec
CONSTANTS
    t1 = t1
    t2 = t2
    alice = alice
    bob = bob
    carol = carol
    dan = dan
    Players = {alice, bob, carol, dan}
    Tasks = {t1, t2}
    Alone <- Closing
    MaxSeasons = 2
    MaxBrackets = 1
    MaxEntries = 4
    MaxRounds = 2
    MaxQualifiers = 1
SYMMETRY Symmetry
INVARIANTS
    TypeOK
    NobodyIsLeftOut
    EverybodyMeetsOnce
PROPERTIES
    ImplementsContract
\* The system may stop: no admin has to send a command.
CHECK_DEADLOCK FALSE
