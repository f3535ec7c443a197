--------------------------- MODULE MCRaceEvents ---------------------------
(* Instances of RaceEvents for TLC.                                        *)
EXTENDS RaceEvents

CONSTANTS home, away, alice, bob, carol

\* Race 1 has alice in it.
Pairs == [r \in Races |-> IF r = 1 THEN {alice, bob} ELSE {bob, carol}]

\* Everything of alice's; whatever is on a restream.
AliceOrRestream ==
    {[player |-> alice, restream |-> BOOLEAN], [player |-> AnyPlayer, restream |-> {TRUE}]}

=============================================================================
