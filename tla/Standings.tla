----------------------------- MODULE Standings -----------------------------
(***************************************************************************)
(* What the web site shows of a bracket: the standings of a season's page, *)
(* the rounds of the bracket's page and the history on a player's page.    *)
(*                                                                         *)
(* The standings are read in several statements, outside a transaction:    *)
(* the bracket's row, its players, its rounds and then the races of each   *)
(* round.  Between them players are entered, rounds are drawn, races are   *)
(* reported and corrected, and a handler that loaded a race before it was  *)
(* reported may write its old state back (see BracketRace: the outcome and *)
(* the results stay, because an update skips what its copy does not have). *)
(* How rounds are drawn is in League; here any pairing will do.            *)
(***************************************************************************)
EXTENDS Integers, FiniteSets, Sequences, FiniteSetsExt

CONSTANTS
    Players,      \* ids of the players
    Times,        \* finish times
    ForfeitTime,  \* what a forfeit counts as: three hours
    Brackets,     \* bound: types of brackets and who is entered at first
    Reports,      \* bound: pairs of results that are reported
    MaxRounds,    \* bound: rounds
    MaxChanges    \* bound: corrections, entries and late writes

\* A player who forfeited, and a result that is not known.
Forfeit == -1
Missing == -2

Results == Times \cup {Forfeit}

ASSUME DataAssumption ==
    /\ Players \subseteq Nat /\ IsFiniteSet(Players)
    /\ Times \subseteq Nat /\ ForfeitTime \in Nat
    /\ Reports \subseteq Results \X Results
    /\ Brackets \subseteq [type : {"Swiss", "RoundRobin"}, players : SUBSET Players]
    /\ MaxRounds \in Nat /\ MaxChanges \in Nat

VARIABLES
    bracket,  \* the row of the bracket
    entered,  \* its players
    race,     \* race[i]: the i-th race, with the round it is of
    page,     \* the standings page that is being loaded
    listed,   \* the races the last page counted, and whom it listed
    changes   \* carries a bound

vars == <<bracket, entered, race, page, listed, changes>>

-----------------------------------------------------------------------------
(* Types.                                                                  *)

Outcomes == {"none", "Tie", "P1Win", "P2Win"}

Race == [round : 1..MaxRounds, p1 : Players, p2 : Players,
         state : {"New", "Scheduled", "Finished"}, r1 : Results \cup {Missing},
         r2 : Results \cup {Missing}, outcome : Outcomes]

\* What the page has of a race that counts.
Counted == [id : Nat, race : Race]

Page == [pc : {"idle", "players", "rounds", "races"}, started : BOOLEAN,
         players : SUBSET Players, rounds : 0..MaxRounds, next : 1..MaxRounds + 1,
         counted : SUBSET Counted]

NoPage == [pc |-> "idle", started |-> FALSE, players |-> {}, rounds |-> 0, next |-> 1,
           counted |-> {}]

\* The bracket is a record of its state and its type, entered a set of
\* players, race a sequence of Race, page a Page; listed has the races the last
\* page counted, the players it listed, and those of them it had not loaded.

Init ==
    /\ \E b \in Brackets : /\ bracket = [state |-> "Unstarted", type |-> b.type]
                          /\ entered = b.players
    /\ race = <<>>
    /\ page = NoPage
    /\ listed = [counted |-> {}, players |-> {}, unknown |-> {}]
    /\ changes = 0

Ids == 1..Len(race)
RoundsDrawn == Max({0} \cup {race[i].round : i \in Ids})
Change == changes < MaxChanges /\ changes' = changes + 1

-----------------------------------------------------------------------------
(* Races.                                                                  *)

time(r) == IF r = Forfeit THEN ForfeitTime ELSE r

\* (Broken variant: a forfeit is compared as the time it counts as.)
OutcomeByTime(r1, r2) ==
    CASE time(r1) = time(r2) -> "Tie"
      [] time(r1) < time(r2) -> "P1Win"
      [] time(r1) > time(r2) -> "P2Win"

\* Outcome::from.
OutcomeOf(r1, r2) ==
    CASE r1 = r2                                        -> "Tie"
      [] r1 = Forfeit /\ r2 # Forfeit                   -> "P2Win"
      [] r2 = Forfeit /\ r1 # Forfeit                   -> "P1Win"
      [] r1 # Forfeit /\ r2 # Forfeit /\ r1 < r2        -> "P1Win"
      [] r1 # Forfeit /\ r2 # Forfeit /\ r1 > r2        -> "P2Win"

\* add_results and finish.
add_results(br, r1, r2) ==
    [br EXCEPT !.r1 = r1, !.r2 = r2, !.outcome = OutcomeOf(r1, r2), !.state = "Finished"]

\* (Broken variant: only a race in state Finished is complete.)
is_complete_by_state(br) == br.state = "Finished"

is_complete(br) == br.outcome # "none"

-----------------------------------------------------------------------------
(* What changes the bracket while pages are read.                          *)

Enter(p) ==
    /\ Change
    /\ p \notin entered /\ entered' = entered \cup {p}
    /\ UNCHANGED <<bracket, race, page, listed>>

NewRace(n, p, q) == [round |-> n, p1 |-> p, p2 |-> q, state |-> "New", r1 |-> Missing,
                     r2 |-> Missing, outcome |-> "none"]

\* The pairs of a round: everybody once in a Swiss round, every two players
\* in the round of a round robin.  Only players who raced before are in a
\* later round.
Pairings ==
    LET who == IF race = <<>> THEN entered ELSE UNION {{race[i].p1, race[i].p2} : i \in Ids}
        pairs == {pq \in who \X who : pq[1] < pq[2]}
    IN  IF bracket.type = "RoundRobin" THEN {pairs}
        ELSE {ps \in SUBSET pairs : /\ 2 * Cardinality(ps) = Cardinality(who)
                                    /\ UNION {{pq[1], pq[2]} : pq \in ps} = who}

\* The races of a round in some order.
InOrder(ps) == CHOOSE s \in [1..Cardinality(ps) -> ps] : \A i, j \in DOMAIN s : i # j => s[i] # s[j]

generate_pairings ==
    /\ bracket.state = "Unstarted" \/ bracket.type = "Swiss"
    /\ bracket.state # "Finished" /\ RoundsDrawn < MaxRounds
    /\ \A i \in Ids : race[i].state = "Finished"
    /\ \E ps \in Pairings :
         /\ ps # {}
         /\ race' = race \o [i \in 1..Cardinality(ps) |->
                               NewRace(RoundsDrawn + 1, InOrder(ps)[i][1], InOrder(ps)[i][2])]
    /\ bracket' = [bracket EXCEPT !.state = "Started"]
    /\ UNCHANGED <<entered, page, listed, changes>>

\* A report, by the command or the scanner.
Report(i) ==
    /\ race[i].state # "Finished"
    /\ \E rs \in Reports : race' = [race EXCEPT ![i] = add_results(@, rs[1], rs[2])]
    /\ UNCHANGED <<bracket, entered, page, listed, changes>>

\* The report command with `force`.
Correct(i) ==
    /\ Change
    /\ race[i].state = "Finished"
    /\ \E rs \in Reports : race' = [race EXCEPT ![i] = add_results(@, rs[1], rs[2])]
    /\ UNCHANGED <<bracket, entered, page, listed>>

\* A schedule command that loaded the race before it was reported saves it.
LateSave(i) ==
    /\ Change
    /\ race' = [race EXCEPT ![i].state = "Scheduled"]
    /\ UNCHANGED <<bracket, entered, page, listed>>

Finish ==
    /\ bracket.state = "Started"
    /\ \A i \in Ids : race[i].state = "Finished"
    /\ bracket' = [bracket EXCEPT !.state = "Finished"]
    /\ UNCHANGED <<entered, race, page, listed, changes>>

-----------------------------------------------------------------------------
(* The standings page.                                                     *)

\* Season::brackets: the row the page goes by.
LoadBracket ==
    /\ page.pc = "idle"
    /\ page' = [NoPage EXCEPT !.pc = "players", !.started = bracket.state # "Unstarted"]
    /\ UNCHANGED <<bracket, entered, race, listed, changes>>

\* (Broken variant: whether the bracket is started is looked up when the
\* standings are asked for.)
LoadPlayersFirst ==
    /\ page.pc = "players"
    /\ page' = [page EXCEPT !.pc = "rounds", !.players = entered]
    /\ UNCHANGED <<bracket, entered, race, listed, changes>>

\* The players; standings are not asked for a bracket that is not started.
LoadPlayers ==
    /\ page.pc = "players"
    /\ IF page.started
         THEN page' = [page EXCEPT !.pc = "rounds", !.players = entered] /\ UNCHANGED listed
         ELSE /\ page' = NoPage
              /\ listed' = [counted |-> {}, players |-> entered, unknown |-> {}]
    /\ UNCHANGED <<bracket, entered, race, changes>>

LoadRounds ==
    /\ page.pc = "rounds"
    /\ page' = [page EXCEPT !.pc = "races", !.rounds = RoundsDrawn]
    /\ UNCHANGED <<bracket, entered, race, listed, changes>>

OfRound(n) == {i \in Ids : race[i].round = n}

\* StandingsRace::try_from.
Usable(i) == race[i].r1 # Missing /\ race[i].r2 # Missing /\ race[i].outcome # "none"

MidRound(n) == bracket.type = "Swiss" /\ \E i \in OfRound(n) : ~is_complete(race[i])

LoadRacesOfRound ==
    LET n == page.next IN
    /\ page.pc = "races" /\ n <= page.rounds
    /\ page' = IF MidRound(n) THEN [page EXCEPT !.next = page.rounds + 1]
               ELSE [page EXCEPT !.next = n + 1,
                                 !.counted = @ \cup {[id |-> i, race |-> race[i]] :
                                                       i \in {j \in OfRound(n) : Usable(j)}}]
    /\ UNCHANGED <<bracket, entered, race, listed, changes>>

PlayersOf(c) == {c.race.p1, c.race.p2}

\* Without a race that counts, all players are listed.
Show ==
    /\ page.pc = "races" /\ page.next > page.rounds
    /\ LET who == UNION {PlayersOf(c) : c \in page.counted} IN
       listed' = [counted |-> page.counted,
                  players |-> IF who = {} THEN page.players ELSE who,
                  unknown |-> who \ page.players]
    /\ page' = NoPage
    /\ UNCHANGED <<bracket, entered, race, changes>>

Next ==
    \/ (\E p \in Players : Enter(p)) \/ generate_pairings \/ Finish
    \/ \E i \in Ids : Report(i) \/ Correct(i) \/ LateSave(i)
    \/ LoadBracket \/ LoadPlayers \/ LoadRounds \/ LoadRacesOfRound \/ Show

Spec == Init /\ [][Next]_vars

-----------------------------------------------------------------------------
(* The tables.                                                             *)

Of(cs, p) == {c \in cs : p \in PlayersOf(c)}
Opponent(c, p) == IF c.race.p1 = p THEN c.race.p2 ELSE c.race.p1
ResultOf(c, p) == IF c.race.p1 = p THEN c.race.r1 ELSE c.race.r2

PointsIn(c, p) ==
    CASE c.race.outcome = "Tie"                                  -> 1
      [] c.race.outcome = (IF c.race.p1 = p THEN "P1Win" ELSE "P2Win") -> 2
      [] OTHER                                                   -> 0

\* PlayerInfo.
points(cs, p) == MapThenSumSet(LAMBDA c : PointsIn(c, p), Of(cs, p))

opponent_points(cs, p) == MapThenSumSet(LAMBDA c : points(cs, Opponent(c, p)), Of(cs, p))

time_adjusted(cs, p) == MapThenSumSet(LAMBDA c : time(ResultOf(c, p)), Of(cs, p))

\* (Broken variant: more time is better.)
KeySlowFirst(cs, p) == <<-points(cs, p), -opponent_points(cs, p), -time_adjusted(cs, p), p>>

\* The order of the table: more points, then stronger opponents, then less
\* time, then the lower id.
Key(cs, p) == <<-points(cs, p), -opponent_points(cs, p), time_adjusted(cs, p), p>>

Ahead(a, b) == \E k \in 1..4 : a[k] < b[k] /\ \A j \in 1..(k - 1) : a[j] = b[j]

\* A race on the page of player p: add_race.
history(br, p) ==
    CASE br.outcome = "none"                                     -> "skipped"
      [] br.outcome = "Tie"                                      -> "draw"
      [] br.outcome = "P1Win"                                    -> IF br.p1 = p THEN "win" ELSE "loss"
      [] br.outcome = "P2Win"                                    -> IF br.p1 = p THEN "loss" ELSE "win"

\* A race on the bracket's page: who is marked as its winner and its loser.
DisplayRace(br) ==
    [winner |-> (IF br.outcome = "P1Win" THEN {br.p1} ELSE {}) \cup
                (IF br.outcome = "P2Win" THEN {br.p2} ELSE {}),
     loser  |-> (IF br.outcome = "P2Win" THEN {br.p1} ELSE {}) \cup
                (IF br.outcome = "P1Win" THEN {br.p2} ELSE {})]

-----------------------------------------------------------------------------
(* Properties.                                                             *)

\* However rounds are drawn and races reported and corrected while a page is
\* loaded, the standings of a Swiss bracket are those of whole rounds: all
\* who are listed have raced equally often, those who were paired are listed
\* under their names, and each race handed out its two points.
PageIsOfWholeRounds ==
    listed.counted # {} =>
        /\ listed.unknown = {}
        /\ MapThenSumSet(LAMBDA p : points(listed.counted, p), listed.players)
             = 2 * Cardinality(listed.counted)
        /\ bracket.type = "Swiss" =>
             LET rounds == {c.race.round : c \in listed.counted} IN
             \A i \in Ids, n \in rounds : race[i].round = n =>
                 \E c \in listed.counted : c.id = i
           /\ \A p \in listed.players : Cardinality(Of(listed.counted, p)) = Cardinality(rounds)

\* A page never takes back a race that the page before counted.
PagesNeverGoBack ==
    [][{c.id : c \in listed.counted} \subseteq {c.id : c \in listed'.counted}]_listed

\* What the tables would show now.
Now == {[id |-> i, race |-> race[i]] : i \in {j \in Ids : Usable(j)}}

\* The three pages agree on who won: points in the standings are two for a
\* race that is a win on the player's own page and one for a draw there; the
\* bracket's page marks the same winner; and the winner did not forfeit, nor
\* did the loser finish faster.
PagesAgree ==
    \A p \in Players :
        LET mine == Of(Now, p)
            as(x) == {c \in mine : history(c.race, p) = x}
        IN /\ points(Now, p) = 2 * Cardinality(as("win")) + Cardinality(as("draw"))
           /\ as("win") = {c \in mine : p \in DisplayRace(c.race).winner}
           /\ as("loss") = {c \in mine : p \in DisplayRace(c.race).loser}
           /\ \A c \in as("win") :
                /\ ResultOf(c, p) # Forfeit
                /\ \/ ResultOf(c, Opponent(c, p)) = Forfeit
                   \/ ResultOf(c, p) < ResultOf(c, Opponent(c, p))

\* The same races, had player p finished race i in time t.
Had(cs, i, p, t) ==
    {IF c.id # i THEN c
     ELSE [c EXCEPT !.race = IF @.p1 = p THEN add_results(@, t, @.r2) ELSE add_results(@, @.r1, t)] :
         c \in cs}

\* A player who finishes a race faster, or at all and within the time a
\* forfeit counts as, is not ranked lower for it.
FasterNeverRanksLower ==
    LET cs  == listed.counted
        old == [q \in Players |-> Key(cs, q)]
    IN \A c \in cs : \A p \in PlayersOf(c), t \in Times :
         t < time(ResultOf(c, p)) =>
           LET had == Had(cs, c.id, p, t) IN
           \A q \in Players \ {p} : Ahead(old[p], old[q]) => Ahead(Key(had, p), Key(had, q))

=============================================================================
