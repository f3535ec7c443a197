-------------------------- MODULE AsyncRaceContract --------------------------
(***************************************************************************)
(* What an asynchronous race promises, without tasks, messages or copies:  *)
(* the record of a run is filled in one column at a time and in order, and *)
(* never loses one; a result is decided for every racer, as a forfeit or   *)
(* from a complete record, before it is posted; a race that left CREATED   *)
(* never becomes open again, and it is FINISHED only with a posted result. *)
(***************************************************************************)
EXTENDS Naturals

CONSTANT Racers

VARIABLES
    race,      \* state of the race
    record,    \* record[r]: the columns of r's run that are filled
    result,    \* the result being posted, [r |-> "none"] if there is none
    announced  \* number of times the result was posted

vars == <<race, record, result, announced>>

Columns == {"run_started", "run_finished", "reported_run_time", "vod"}

\* The columns that come before column c.
Before(c) == CASE c = "run_started"       -> {}
               [] c = "run_finished"      -> {"run_started"}
               [] c = "reported_run_time" -> {"run_started", "run_finished"}
               [] c = "vod"               -> Columns \ {"vod"}

NoResult == [r \in Racers |-> "none"]

Init ==
    /\ race = "NONE"
    /\ record = [r \in Racers |-> {}]
    /\ result = NoResult
    /\ announced = 0

Open ==
    /\ race = "NONE"
    /\ race' = "CREATED"
    /\ UNCHANGED <<record, result, announced>>

Record(r, c) ==
    /\ c \notin record[r]
    /\ Before(c) \subseteq record[r]
    /\ record' = [record EXCEPT ![r] = @ \cup {c}]
    /\ UNCHANGED <<race, result, announced>>

Decide ==
    /\ result = NoResult
    /\ result' \in [Racers -> {"forfeit", "time"}]
    /\ \A r \in Racers : result'[r] = "time" => record[r] = Columns
    /\ UNCHANGED <<race, record, announced>>

Announce ==
    /\ result # NoResult
    /\ announced' = announced + 1
    /\ UNCHANGED <<race, record, result>>

Finish ==
    /\ result # NoResult
    /\ announced > 0
    /\ race # "NONE"
    /\ race' = "FINISHED"
    /\ result' = NoResult
    /\ UNCHANGED <<record, announced>>

\* The result is given up, to be decided again.
Withdraw ==
    /\ result' = NoResult
    /\ UNCHANGED <<race, record, announced>>

Drop ==
    /\ race # "NONE"
    /\ race' \in {"ABANDONED", "CANCELLED_BY_ADMIN"}
    /\ UNCHANGED <<record, result, announced>>

Next ==
    \/ Open \/ Decide \/ Announce \/ Finish \/ Withdraw \/ Drop
    \/ \E r \in Racers, c \in Columns : Record(r, c)

Spec == Init /\ [][Next]_vars

=============================================================================
