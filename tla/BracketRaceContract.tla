------------------------ MODULE BracketRaceContract ------------------------
(* What a race of a bracket promises to its players and to the standings:  *)
(* it can be (re)scheduled until it is finished, it is finished once, and  *)
(* from then on only its result changes.                                   *)

CONSTANTS Results

None == "none"

VARIABLES
    state,    \* state of the bracket_races row
    result    \* its results and outcome

Init == state = "New" /\ result = None

Schedule ==
    /\ state # "Finished"
    /\ state' = "Scheduled"
    /\ UNCHANGED result

\* By a report or by the scanner.
Finish ==
    /\ state # "Finished"
    /\ state' = "Finished"
    /\ result' \in Results

\* The report is corrected, or racetime lists a second race of the players.
Correct ==
    /\ state = "Finished"
    /\ result' \in Results
    /\ UNCHANGED state

Next == Schedule \/ Finish \/ Correct

Spec == Init /\ [][Next]_<<state, result>>

=============================================================================
