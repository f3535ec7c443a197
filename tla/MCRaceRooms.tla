---------------------------- MODULE MCRaceRooms ----------------------------
(* Instances of RaceRooms for TLC.                                         *)
EXTENDS RaceRooms, TLC

CONSTANTS old, new

\* Race 1 is of an old season, the others of a new one.
OldAndNew == [r \in Races |-> IF r = 1 THEN old ELSE new]

=============================================================================
