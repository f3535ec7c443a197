-------------------------- MODULE LeagueContract --------------------------
(* What the league promises its players: seasons go from state to state,   *)
(* one at a time, and never back; qualifiers change only while they are    *)
(* open (or closed and being weeded); brackets belong to the season that   *)
(* is under way; and nothing is closed before all of its parts are.        *)
EXTENDS Naturals, Sequences

CONSTANTS
    MaxSeasons, MaxQualifiers,
    MaxOpen    \* the most races a round can have

VARIABLES
    season,      \* the states of the seasons
    bracket,     \* of each bracket: its season, its state, its open races
    qualifiers   \* qualifiers[s]: the qualifiers of season s

vars == <<season, bracket, qualifiers>>

States == <<"Created", "QualifiersOpen", "QualifiersClosed", "Started", "Finished">>

Init ==
    /\ season = <<>>
    /\ bracket = <<>>
    /\ qualifiers = [s \in 1..MaxSeasons |-> {}]

Seasons == 1..Len(season)
Brackets == 1..Len(bracket)

NewSeason ==
    /\ season' = Append(season, "Created")
    /\ UNCHANGED <<bracket, qualifiers>>

Advance(s) ==
    /\ \E i \in 1..4 :
        /\ season[s] = States[i]
        /\ season' = [season EXCEPT ![s] = States[i + 1]]
        /\ States[i + 1] = "Finished" =>
            \A b \in Brackets : bracket[b].season = s => bracket[b].state = "Finished"
    /\ UNCHANGED <<bracket, qualifiers>>

Submit(s) ==
    /\ season[s] = "QualifiersOpen"
    /\ \E q \in 1..MaxQualifiers : qualifiers' = [qualifiers EXCEPT ![s] = @ \cup {q}]
    /\ UNCHANGED <<season, bracket>>

Withdraw(s) ==
    /\ season[s] \in {"QualifiersOpen", "QualifiersClosed"}
    /\ \E q \in qualifiers[s] : qualifiers' = [qualifiers EXCEPT ![s] = @ \ {q}]
    /\ UNCHANGED <<season, bracket>>

\* In the first season that is not finished.
NewBracket(s) ==
    /\ season[s] # "Finished"
    /\ \A earlier \in 1..(s - 1) : season[earlier] = "Finished"
    /\ bracket' = Append(bracket, [season |-> s, state |-> "Unstarted", open |-> 0])
    /\ UNCHANGED <<season, qualifiers>>

\* A round is added once the races so far are over.
Pair(b) ==
    /\ bracket[b].state # "Finished" /\ bracket[b].open = 0
    /\ \E races \in 0..MaxOpen :
           bracket' = [bracket EXCEPT ![b].state = "Started", ![b].open = races]
    /\ UNCHANGED <<season, qualifiers>>

RaceFinished(b) ==
    /\ bracket[b].open > 0
    /\ bracket' = [bracket EXCEPT ![b].open = @ - 1]
    /\ UNCHANGED <<season, qualifiers>>

FinishBracket(b) ==
    /\ bracket[b].open = 0
    /\ bracket' = [bracket EXCEPT ![b].state = "Finished"]
    /\ UNCHANGED <<season, qualifiers>>

Next ==
    \/ NewSeason
    \/ \E s \in Seasons : Advance(s) \/ Submit(s) \/ Withdraw(s) \/ NewBracket(s)
    \/ \E b \in Brackets : Pair(b) \/ RaceFinished(b) \/ FinishBracket(b)

Spec == Init /\ [][Next]_vars

=============================================================================
