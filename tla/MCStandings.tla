---------------------------- MODULE MCStandings ----------------------------
(* Instances of Standings for TLC.                                         *)
EXTENDS Standings, TLC

SomeBrackets == {[type |-> "Swiss", players |-> {1, 2, 3, 4}],
                 [type |-> "RoundRobin", players |-> {1, 2, 3}]}

\* A win by time, and one by forfeit against a finish slower than what a
\* forfeit counts as.
SomeReports == {<<1, 2>>, <<Forfeit, 4>>}

=============================================================================
