SPECIFICATION Spec
CONSTANTS
    t1 = t1
    t2 = t2
    alice = alice
    bob = bob
    carol = carol
    dan = dan
    Players = {alice, bob}
    Tasks = {t1, t2}
    Alone <- NoKinds
    MaxSeasons = 1
    MaxBrackets = 1
    MaxEntries = 2
    MaxRounds = 1
    MaxQualifiers = 0
SYMMETRY Symmetry
INVARIANTS
    FinishedBracketIsOver
\* The system may stop: no admin has to send a command.
CHECK_DEADLOCK FALSE
