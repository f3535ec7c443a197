----------------------------- MODULE MCLeague -----------------------------
(* Instances of League for TLC.                                            *)
EXTENDS League, TLC

CONSTANTS t1, t2, alice, bob, carol, dan

\* Players are interchangeable.
Symmetry == Permutations(Players)

\* The commands that close something, and the one that deletes.
Closing == {"set_season_state", "finish_bracket", "delete_qualifier"}

NoKinds == {}

=============================================================================
