SPECIFICATION Spec
CONSTANTS
    Players = {1, 2, 3, 4}
    Times = {1, 2, 4}
    ForfeitTime = 3
    Brackets <- SomeBrackets
    Reports <- SomeReports
    MaxRounds = 2
    MaxChanges = 1
INVARIANTS
    PageIsOfWholeRounds
    PagesAgree
    FasterNeverRanksLower
PROPERTIES
    PagesNeverGoBack
\* The bracket may be over and nobody look at it.
CHECK_DEADLOCK FALSE
