------------------------------ MODULE League ------------------------------
(***************************************************************************)
(* The league around the races: seasons and their states, brackets, the    *)
(* players entered in them, rounds of pairings, and qualifiers.            *)
(*                                                                         *)
(* Every command reads what it needs, decides on the copies it read, and   *)
(* then writes; only the generation of pairings is a transaction.  Each    *)
(* statement is a step, and the commands in Alone are never sent while     *)
(* another is handled.  A race is open until it is finished (BracketRace   *)
(* models how); which pairings the Swiss library picks is left open.       *)
(***************************************************************************)
EXTENDS Naturals, Sequences, FiniteSets, FiniteSetsExt

CONSTANTS
    Players,
    Tasks,         \* commands the bot and the web API may be handling
    Alone,         \* kinds of commands that run while nothing else does
    MaxSeasons,    \* bound: seasons
    MaxBrackets,   \* bound: brackets
    MaxEntries,    \* bound: entries of a bracket
    MaxRounds,     \* bound: rounds of a bracket
    MaxQualifiers  \* bound: ids of qualifier submissions

Kinds == {"create_season", "set_season_state", "create_bracket", "add_player",
          "generate_pairings", "finish_bracket", "submit_qualifier",
          "delete_qualifier"}

ASSUME AloneAssumption == Alone \subseteq Kinds

ASSUME BoundsAssumption ==
    /\ MaxSeasons \in Nat /\ MaxBrackets \in Nat /\ MaxEntries \in Nat
    /\ MaxRounds \in Nat /\ MaxQualifiers \in Nat

VARIABLES
    season,      \* the seasons rows, by ordinal
    bracket,     \* the brackets rows, by id
    entry,       \* entry[b]: the players entered in bracket b, in that order
    round,       \* round[b]: the rounds of bracket b
    qualifiers,  \* qualifiers[s]: ids of the qualifier submissions of season s
    task         \* commands being handled

vars == <<season, bracket, entry, round, qualifiers, task>>

-----------------------------------------------------------------------------
(* The rows.                                                               *)

SeasonStates == <<"Created", "QualifiersOpen", "QualifiersClosed", "Started", "Finished">>

SeasonState == {SeasonStates[i] : i \in 1..5}

BracketState == {"Unstarted", "Started", "Finished"}

BracketType == {"Swiss", "RoundRobin"}

SeasonRow == [state : SeasonState, finished : BOOLEAN]

BracketRow == [state : BracketState, type : BracketType, season : 1..MaxSeasons]

\* A race is between two entries, given by their positions; it is open until
\* it is finished.  A round maps its races to whether they are open.
Races == kSubset(2, 1..MaxEntries)

Round == UNION {[rs -> BOOLEAN] : rs \in SUBSET Races}

Open(b) == {x \in (1..Len(round[b])) \X Races :
                x[2] \in DOMAIN round[b][x[1]] /\ round[b][x[1]][x[2]]}

\* BracketRound::all_races_finished for every round.
AllRacesFinished(b) == Open(b) = {}

\* get_active_season: the first season without a finished time; 0: none.
ActiveSeason ==
    LET unfinished == {s \in 1..Len(season) : ~season[s].finished}
    IN  IF unfinished = {} THEN 0 ELSE Min(unfinished)

-----------------------------------------------------------------------------
(* Commands.                                                               *)

\* What a command works on: a season s, a bracket b, a qualifier q, the state
\* it wants to write (of its copy), and whether the copy has a finished time.
Idle == [kind |-> "none", pc |-> "idle", s |-> 0, b |-> 0, q |-> 0,
         state |-> "none", finished |-> FALSE]

TaskRecord == [kind : Kinds \cup {"none"}, pc : {"idle", "check", "save"},
               s : 0..MaxSeasons, b : 0..MaxBrackets, q : 0..MaxQualifiers,
               state : SeasonState \cup BracketState \cup {"none"},
               finished : BOOLEAN]

TypeOK ==
    /\ season \in Seq(SeasonRow) /\ Len(season) <= MaxSeasons
    /\ bracket \in Seq(BracketRow) /\ Len(bracket) <= MaxBrackets
    /\ entry \in [1..MaxBrackets -> Seq(Players)]
    /\ round \in [1..MaxBrackets -> Seq(Round)]
    /\ qualifiers \in [1..MaxSeasons -> SUBSET (1..MaxQualifiers)]
    /\ task \in [Tasks -> TaskRecord]

Init ==
    /\ season = <<>>
    /\ bracket = <<>>
    /\ entry = [b \in 1..MaxBrackets |-> <<>>]
    /\ round = [b \in 1..MaxBrackets |-> <<>>]
    /\ qualifiers = [s \in 1..MaxSeasons |-> {}]
    /\ task = [t \in Tasks |-> Idle]

Busy == {t \in Tasks : task[t].pc # "idle"}

Begin(t, command) ==
    /\ task[t].pc = "idle"
    /\ Busy # {} => \A kind \in {command.kind} \cup {task[u].kind : u \in Busy} : kind \notin Alone
    /\ task' = [task EXCEPT ![t] = command]

At(t, kind, pc) == task[t].kind = kind /\ task[t].pc = pc

Done(t) == task' = [task EXCEPT ![t] = Idle]

\* A statement fails, or the bot dies: nothing more is written.
GiveUp(t) ==
    /\ task[t].pc # "idle"
    /\ Done(t)
    /\ UNCHANGED <<season, bracket, entry, round, qualifiers>>

-----------------------------------------------------------------------------
(* Seasons.                                                                *)

CreateSeason(t) ==
    /\ Len(season) < MaxSeasons
    /\ Begin(t, [Idle EXCEPT !.kind = "create_season", !.pc = "save", !.s = Len(season) + 1])
    /\ UNCHANGED <<season, bracket, entry, round, qualifiers>>

\* (Broken variant: the ordinal is not unique.)
InsertSeasonAnyway(t) ==
    /\ At(t, "create_season", "save")
    /\ season' = Append(season, [state |-> "Created", finished |-> FALSE])
    /\ Done(t)
    /\ UNCHANGED <<bracket, entry, round, qualifiers>>

\* The ordinal, which was the next one when it was read, is unique.
InsertSeason(t) ==
    /\ At(t, "create_season", "save")
    /\ season' = IF task[t].s = Len(season) + 1
                 THEN Append(season, [state |-> "Created", finished |-> FALSE])
                 ELSE season
    /\ Done(t)
    /\ UNCHANGED <<bracket, entry, round, qualifiers>>

\* set_state's transitions; the same state is accepted, and the copy saved.
MayBecome(old, new) ==
    \/ old = new
    \/ \E i \in 1..4 : old = SeasonStates[i] /\ new = SeasonStates[i + 1]

SetSeasonState(t) ==
    /\ \E s \in 1..Len(season), new \in SeasonState :
        /\ MayBecome(season[s].state, new)
        /\ Begin(t, [Idle EXCEPT !.kind = "set_season_state", !.s = s, !.state = new,
                                 !.pc = IF new = "Finished" /\ season[s].state # new
                                        THEN "check" ELSE "save",
                                 !.finished = season[s].finished])
    /\ UNCHANGED <<season, bracket, entry, round, qualifiers>>

\* Season::finish.
SeasonFinish(t) ==
    /\ At(t, "set_season_state", "check")
    /\ \/ /\ \A b \in 1..Len(bracket) :
                 bracket[b].season = task[t].s => bracket[b].state = "Finished"
          /\ task' = [task EXCEPT ![t].pc = "save", ![t].finished = TRUE]
       \/ /\ \E b \in 1..Len(bracket) :
                 bracket[b].season = task[t].s /\ bracket[b].state # "Finished"
          /\ Done(t)
    /\ UNCHANGED <<season, bracket, entry, round, qualifiers>>

\* The whole copy is saved, but a finished time it does not have is skipped.
SeasonUpdate(t) ==
    /\ At(t, "set_season_state", "save")
    /\ season' = [season EXCEPT ![task[t].s] =
                    [state |-> task[t].state, finished |-> @.finished \/ task[t].finished]]
    /\ Done(t)
    /\ UNCHANGED <<bracket, entry, round, qualifiers>>

-----------------------------------------------------------------------------
(* Brackets and entries.                                                   *)

CreateBracket(t) ==
    /\ Len(bracket) < MaxBrackets
    /\ ActiveSeason # 0
    /\ Begin(t, [Idle EXCEPT !.kind = "create_bracket", !.pc = "save", !.s = ActiveSeason])
    /\ UNCHANGED <<season, bracket, entry, round, qualifiers>>

InsertBracket(t) ==
    /\ At(t, "create_bracket", "save")
    /\ Len(bracket) < MaxBrackets
    /\ \E type \in BracketType :
        bracket' = Append(bracket, [state |-> "Unstarted", type |-> type, season |-> task[t].s])
    /\ Done(t)
    /\ UNCHANGED <<season, entry, round, qualifiers>>

AddPlayer(t) ==
    /\ \E b \in 1..Len(bracket) :
        /\ bracket[b].season = ActiveSeason
        /\ Begin(t, [Idle EXCEPT !.kind = "add_player", !.pc = "save", !.b = b])
    /\ UNCHANGED <<season, bracket, entry, round, qualifiers>>

\* Neither the state of the bracket nor an earlier entry is looked at.
InsertEntry(t) ==
    /\ At(t, "add_player", "save")
    /\ Len(entry[task[t].b]) < MaxEntries
    /\ \E p \in Players : entry' = [entry EXCEPT ![task[t].b] = Append(@, p)]
    /\ Done(t)
    /\ UNCHANGED <<season, bracket, round, qualifiers>>

\* Bracket::finish checks on its copy of the rounds and their races ...
FinishBracket(t) ==
    /\ \E b \in 1..Len(bracket) :
        Begin(t, [Idle EXCEPT !.kind = "finish_bracket", !.pc = "check", !.b = b])
    /\ UNCHANGED <<season, bracket, entry, round, qualifiers>>

\* (Broken variant: the rounds are not looked at.)
BracketFinishUnchecked(t) ==
    /\ At(t, "finish_bracket", "check")
    /\ task' = [task EXCEPT ![t].pc = "save"]
    /\ UNCHANGED <<season, bracket, entry, round, qualifiers>>

BracketFinish(t) ==
    /\ At(t, "finish_bracket", "check")
    /\ IF AllRacesFinished(task[t].b) THEN task' = [task EXCEPT ![t].pc = "save"] ELSE Done(t)
    /\ UNCHANGED <<season, bracket, entry, round, qualifiers>>

\* ... and the command saves the copy of the bracket.
BracketUpdate(t) ==
    /\ At(t, "finish_bracket", "save")
    /\ bracket' = [bracket EXCEPT ![task[t].b].state = "Finished"]
    /\ Done(t)
    /\ UNCHANGED <<season, entry, round, qualifiers>>

-----------------------------------------------------------------------------
(* Pairings.                                                               *)

Entries(b) == 1..Len(entry[b])

Between(b, r) == {entry[b][i] : i \in r}

\* A player's first entry.
First(b, i) == Min({j \in Entries(b) : entry[b][j] = entry[b][i]})

\* Sets of races in which nobody is twice.
Matchings(is) == {rs \in SUBSET kSubset(2, is) : \A r1, r2 \in rs : r1 = r2 \/ r1 \cap r2 = {}}

Covers(rs, is) == UNION rs = is

\* (Broken variant: an odd entry is left out.)
generate_initial_pairings_odd(b) ==
    {rs \in Matchings(Entries(b)) : 2 * Cardinality(rs) + 1 >= Len(entry[b])}

\* The shuffled entries are paired off two by two; an odd one is an error.
generate_initial_pairings_swiss(b) == {rs \in Matchings(Entries(b)) : Covers(rs, Entries(b))}

\* Every two different players, once; a player entered twice is an error,
\* because there are fewer such races than two entries.
generate_pairings_round_robin(b) ==
    LET rs == {r \in kSubset(2, {First(b, i) : i \in Entries(b)}) : Cardinality(Between(b, r)) = 2}
    IN  {rs} \cap {kSubset(2, Entries(b))}

\* The Swiss library pairs the players of the earlier rounds, and fails rather
\* than repeat a match; with an odd number of them one sits out.
swiss_pairings(b) ==
    LET raced == UNION {DOMAIN round[b][n] : n \in 1..Len(round[b])}
        is    == {First(b, i) : i \in UNION raced}
    IN  {rs \in Matchings(is) :
            /\ 2 * Cardinality(rs) + 1 >= Cardinality(is)
            /\ \A r \in rs, old \in raced : Between(b, r) # Between(b, old)}

\* (Broken variant: neither an existing round nor open races stop it.)
PairingsUnchecked(b, state) ==
    CASE state = "Unstarted" /\ bracket[b].type = "Swiss" -> generate_initial_pairings_swiss(b)
      [] state = "Unstarted" /\ bracket[b].type = "RoundRobin" -> generate_pairings_round_robin(b)
      [] state = "Started" /\ bracket[b].type = "Swiss" -> swiss_pairings(b)
      [] OTHER -> {}

\* What a transaction that saw the bracket's copy in the given state may add:
\* nothing if it fails.
Pairings(b, state) ==
    CASE state = "Unstarted" /\ round[b] = <<>> /\ bracket[b].type = "Swiss" ->
            generate_initial_pairings_swiss(b)
      [] state = "Unstarted" /\ round[b] = <<>> /\ bracket[b].type = "RoundRobin" ->
            generate_pairings_round_robin(b)
      [] state = "Started" /\ AllRacesFinished(b) /\ bracket[b].type = "Swiss" ->
            swiss_pairings(b)
      [] OTHER -> {}

GeneratePairings(t) ==
    /\ \E b \in 1..Len(bracket) :
        Begin(t, [Idle EXCEPT !.kind = "generate_pairings", !.pc = "save", !.b = b,
                              !.state = bracket[b].state])
    /\ UNCHANGED <<season, bracket, entry, round, qualifiers>>

\* The transaction.  The first round also saves the copy, Started.
generate_pairings(t) ==
    LET b == task[t].b IN
    /\ At(t, "generate_pairings", "save")
    /\ Len(round[b]) < MaxRounds
    /\ \/ /\ \E rs \in Pairings(b, task[t].state) :
                 round' = [round EXCEPT ![b] = Append(@, [r \in rs |-> TRUE])]
          /\ bracket' = IF task[t].state = "Unstarted"
                        THEN [bracket EXCEPT ![b].state = "Started"]
                        ELSE bracket
       \/ Pairings(b, task[t].state) = {} /\ UNCHANGED <<round, bracket>>
    /\ Done(t)
    /\ UNCHANGED <<season, entry, qualifiers>>

\* A race is reported, or the scanner finds it.
RaceIsFinished ==
    /\ \E b \in 1..Len(bracket) : \E x \in Open(b) :
        round' = [round EXCEPT ![b][x[1]][x[2]] = FALSE]
    /\ UNCHANGED <<season, bracket, entry, qualifiers, task>>

-----------------------------------------------------------------------------
(* Qualifiers.                                                             *)

SubmitQualifier(t) ==
    /\ ActiveSeason # 0 /\ season[ActiveSeason].state = "QualifiersOpen"
    /\ Begin(t, [Idle EXCEPT !.kind = "submit_qualifier", !.pc = "save", !.s = ActiveSeason])
    /\ UNCHANGED <<season, bracket, entry, round, qualifiers>>

\* Ids are not kept: the next one is one more than the highest there is.
InsertQualifier(t) ==
    LET id == 1 + Max({0} \cup UNION {qualifiers[s] : s \in 1..MaxSeasons}) IN
    /\ At(t, "submit_qualifier", "save")
    /\ id <= MaxQualifiers
    /\ qualifiers' = [qualifiers EXCEPT ![task[t].s] = @ \cup {id}]
    /\ Done(t)
    /\ UNCHANGED <<season, bracket, entry, round>>

safe_to_delete(s) == season[s].state \in {"QualifiersOpen", "QualifiersClosed"}

DeleteQualifier(t) ==
    /\ \E s \in 1..Len(season) : \E id \in qualifiers[s] :
        /\ safe_to_delete(s)
        /\ Begin(t, [Idle EXCEPT !.kind = "delete_qualifier", !.pc = "save", !.q = id])
    /\ UNCHANGED <<season, bracket, entry, round, qualifiers>>

QualifierDelete(t) ==
    /\ At(t, "delete_qualifier", "save")
    /\ qualifiers' = [s \in 1..MaxSeasons |-> qualifiers[s] \ {task[t].q}]
    /\ Done(t)
    /\ UNCHANGED <<season, bracket, entry, round>>

-----------------------------------------------------------------------------
(* The specification.                                                      *)

SeasonCommand(t) ==
    \/ CreateSeason(t) \/ InsertSeason(t)
    \/ SetSeasonState(t) \/ SeasonFinish(t) \/ SeasonUpdate(t)

BracketCommand(t) ==
    \/ CreateBracket(t) \/ InsertBracket(t) \/ AddPlayer(t) \/ InsertEntry(t)
    \/ GeneratePairings(t) \/ generate_pairings(t)
    \/ FinishBracket(t) \/ BracketFinish(t) \/ BracketUpdate(t)

QualifierCommand(t) ==
    SubmitQualifier(t) \/ InsertQualifier(t) \/ DeleteQualifier(t) \/ QualifierDelete(t)

Next ==
    \/ \E t \in Tasks : SeasonCommand(t) \/ BracketCommand(t) \/ QualifierCommand(t) \/ GiveUp(t)
    \/ RaceIsFinished

Spec == Init /\ [][Next]_vars

-----------------------------------------------------------------------------
(* Properties.                                                             *)

\* The first round serves every entry made before it exactly once, although
\* players may be entered while pairings are generated.
NobodyIsLeftOut ==
    \A b \in 1..Len(bracket) :
        round[b] # <<>> /\ bracket[b].type = "Swiss" =>
            LET rs == DOMAIN round[b][1] IN
            /\ \A r1, r2 \in rs : r1 = r2 \/ r1 \cap r2 = {}
            /\ \E k \in 0..MaxEntries : UNION rs = 1..k

\* A round robin has one round, in which every two players who were entered
\* before it meet once: nobody meets themself, and there is no second round.
EverybodyMeetsOnce ==
    \A b \in 1..Len(bracket) :
        round[b] # <<>> /\ bracket[b].type = "RoundRobin" =>
            LET rs == DOMAIN round[b][1] IN
            /\ Len(round[b]) = 1
            /\ \E k \in 0..MaxEntries : rs = kSubset(2, 1..k)
            /\ \A r1, r2 \in rs : Between(b, r1) = Between(b, r2) => r1 = r2
            /\ \A r \in rs : Cardinality(Between(b, r)) = 2

\* A finished bracket has no open races: Bracket::finish "sets this bracket's
\* state to finished, if there are no unfinished rounds".
FinishedBracketIsOver ==
    \A b \in 1..Len(bracket) : bracket[b].state = "Finished" => AllRacesFinished(b)

\* When the commands that close a season or a bracket, or delete a qualifier,
\* run alone, the league is what its contract says.
Contract == INSTANCE LeagueContract WITH
    season <- [s \in 1..Len(season) |-> season[s].state],
    bracket <- [b \in 1..Len(bracket) |->
                    [season |-> bracket[b].season, state |-> bracket[b].state,
                     open |-> Cardinality(Open(b))]],
    MaxOpen <- Cardinality(Races)

ImplementsContract == Contract!Spec

=============================================================================
