---------------------------- MODULE MCAsyncRace ----------------------------
(* Instances of AsyncRace for TLC.                                         *)
EXTENDS AsyncRace, TLC

CONSTANTS p1, p2

\* Sound for invariants that treat both racers alike, and with Bots = {}.
RacerSymmetry == Permutations(Racers)

=============================================================================
