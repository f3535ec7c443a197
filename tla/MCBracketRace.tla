--------------------------- MODULE MCBracketRace ---------------------------
(* Instances of BracketRace for TLC.                                       *)
EXTENDS BracketRace, TLC

CONSTANTS t1, t2, noon, night, res1, res2

\* The room with result res1 started more than three hours before night.
Starts == [r \in Results |-> IF r = res1 THEN {noon} ELSE {noon, night}]

=============================================================================
