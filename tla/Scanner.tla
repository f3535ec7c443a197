------------------------------ MODULE Scanner ------------------------------
(***************************************************************************)
(* How the racetime scanner finds the rooms in which the league's races    *)
(* were played.  On every tick it loads the races that should be finishing,*)
(* keys them by the racetime name of their first player, waits for         *)
(* racetime's list of past rooms, and looks through each room's entrants,  *)
(* in the order of a hash map, for one that leads to a race both of whose  *)
(* players took part.  A room that is found finishes its race.             *)
(*                                                                         *)
(* BracketRace has the steps in which one race is finished and posted;     *)
(* this module has several races, several rooms and who is in them.        *)
(* Racetime's rooms are external.                                          *)
(***************************************************************************)
EXTENDS Naturals, FiniteSets

CONSTANTS
    Players,
    Races,        \* ids of the races of the season
    P1, P2,       \* the players of each race
    Unnamed,      \* players whose racetime name is not known at first
    Rooms,        \* ids of racetime rooms
    Groups,       \* bound: who may meet in a room
    MaxOdd,       \* bound: entrants of a room who do not finish
    MaxTime,      \* bound: the clock
    Due,          \* a race is looked for this long after its time (70 min)
    Early,        \* a room may be this much older than its race (180 min)
    MaxCommands,  \* bound: commands that change races or players
    MaxTroubles   \* bound: failed calls, crashes

ASSUME RacesAssumption ==
    /\ Races \subseteq Nat \ {0} /\ Rooms \subseteq Nat \ {0}
    /\ P1 \in [Races -> Players] /\ P2 \in [Races -> Players]
    /\ \A r \in Races : P1[r] # P2[r]
    /\ Unnamed \subseteq Players /\ Groups \subseteq SUBSET Players

ASSUME BoundsAssumption ==
    /\ MaxTime \in Nat /\ MaxOdd \in Nat /\ Due \in Nat /\ Early \in Nat
    /\ MaxCommands \in Nat /\ MaxTroubles \in Nat

VARIABLES
    now,       \* the clock
    named,     \* players whose racetime name is known
    race,      \* race[r]: the rows of the race
    room,      \* room[m]: the racetime room
    scan,      \* the scanner
    commands,  \* these two only carry the bounds
    troubles

vars == <<now, named, race, room, scan, commands, troubles>>

-----------------------------------------------------------------------------
(* Types.                                                                  *)

\* No race, no room, no time.
None == 0
Times == 1..MaxTime

\* A PlayerResult: the time of player `of` in room `room`, a forfeit, what a
\* command reported, or nothing.
Finish(m, p) == [kind |-> "finish", room |-> m, of |-> {p}]
Forfeit(m)   == [kind |-> "forfeit", room |-> m, of |-> {}]
Told         == [kind |-> "told", room |-> None, of |-> {}]
NoResult     == [kind |-> "none", room |-> None, of |-> {}]

PlayerResult == {Finish(m, p) : m \in Rooms, p \in Players}
                  \cup {Forfeit(m) : m \in Rooms} \cup {Told, NoResult}

\* url: the room the scanner wrote.  (Other urls are in BracketRace.)
Race == [state : {"New", "Scheduled", "Finished"}, at : Times \cup {None},
         url : Rooms \cup {None}, result1 : PlayerResult, result2 : PlayerResult]

\* paged: it is on the first page of racetime's list of past rooms.
\* entrant: "listed" is an entrant who has no result: invited, declined,
\* still playing.
Room == [status : {"none", "in_progress", "finished", "cancelled"}, start : Times \cup {None},
         goal : BOOLEAN, paged : BOOLEAN,
         entrant : [Players -> {"absent", "listed", "done", "dnf"}]]

\* due: the map, None where a player leads to no race; at: the times in the
\* rows that were loaded.  While a room is looked at: ids are the entrants to
\* look at, left those that were not removed yet.
Scan == [pc : {"idle", "query", "next", "look", "match", "url", "finish"},
         due : [Players -> Races \cup {None}], at : [Races -> Times \cup {None}],
         todo : SUBSET Rooms, room : Rooms \cup {None}, ids : SUBSET Players,
         left : SUBSET Players, found : Races \cup {None}]

IdleScan == [pc |-> "idle", due |-> [p \in Players |-> None], at |-> [r \in Races |-> None],
             todo |-> {}, room |-> None, ids |-> {}, left |-> {}, found |-> None]

TypeOK ==
    /\ now \in Times \cup {None}
    /\ named \subseteq Players
    /\ race \in [Races -> Race]
    /\ room \in [Rooms -> Room]
    /\ scan \in Scan
    /\ commands \in 0..MaxCommands
    /\ troubles \in 0..MaxTroubles

Init ==
    /\ now = None
    /\ named = Players \ Unnamed
    /\ race = [r \in Races |-> [state |-> "New", at |-> None, url |-> None,
                                result1 |-> NoResult, result2 |-> NoResult]]
    /\ room = [m \in Rooms |-> [status |-> "none", start |-> None, goal |-> FALSE,
                                paged |-> FALSE, entrant |-> [p \in Players |-> "absent"]]]
    /\ scan = IdleScan
    /\ commands = 0
    /\ troubles = 0

Entrants(m) == {p \in Players : room[m].entrant[p] # "absent"}

Trouble == troubles < MaxTroubles /\ troubles' = troubles + 1
Fine == UNCHANGED troubles

-----------------------------------------------------------------------------
(* The world: time, commands, rooms.                                       *)

Tick ==
    /\ now < MaxTime /\ now' = now + 1
    /\ UNCHANGED <<named, race, room, scan, commands, troubles>>

Command == commands < MaxCommands /\ commands' = commands + 1

NameIsKnown(p) ==
    /\ Command
    /\ p \notin named /\ named' = named \cup {p}
    /\ UNCHANGED <<now, race, room, scan, troubles>>

schedule(r, when) ==
    /\ Command
    /\ race[r].state # "Finished"
    /\ race' = [race EXCEPT ![r].state = "Scheduled", ![r].at = when, ![r].url = None]
    /\ UNCHANGED <<now, named, room, scan, troubles>>

\* The report command; with `force` also of a race that is finished.
report(r) ==
    /\ Command
    /\ race' = [race EXCEPT ![r].state = "Finished", ![r].result1 = Told, ![r].result2 = Told]
    /\ UNCHANGED <<now, named, room, scan, troubles>>

StartRoom(m, entrants, goal) ==
    /\ now # None /\ room[m].status = "none"
    /\ room' = [room EXCEPT ![m] =
                  [status |-> "in_progress", start |-> now, goal |-> goal, paged |-> FALSE,
                   entrant |-> [p \in Players |-> IF p \in entrants THEN "listed" ELSE "absent"]]]
    /\ UNCHANGED <<now, named, race, scan, commands, troubles>>

\* Past rooms are listed from the last one, the cancelled ones too.
EndRoom(m, done, dnf) ==
    /\ room[m].status = "in_progress"
    /\ done \cup dnf \subseteq Entrants(m) /\ done \cap dnf = {}
    /\ Cardinality(Entrants(m) \ done) <= MaxOdd
    /\ room' = [room EXCEPT ![m].status = IF done = {} THEN "cancelled" ELSE "finished",
                            ![m].paged = TRUE,
                            ![m].entrant = [p \in Players |-> CASE p \in done -> "done"
                                                                [] p \in dnf  -> "dnf"
                                                                [] OTHER      -> @[p]]]
    /\ UNCHANGED <<now, named, race, scan, commands, troubles>>

\* Rooms of other players end and push m off the first page.
OffThePage(m) ==
    /\ room[m].paged
    /\ room' = [room EXCEPT ![m].paged = FALSE]
    /\ UNCHANGED <<now, named, race, scan, commands, troubles>>

-----------------------------------------------------------------------------
(* The scanner.                                                            *)

\* Season::get_races_that_should_be_finishing_soon.
DueRaces == {r \in Races : /\ race[r].at # None /\ race[r].at + Due < now
                           /\ race[r].state # "Finished"}

\* Both players' names have to be known.
Keyed == {r \in DueRaces : P1[r] \in named /\ P2[r] \in named}

\* races_by_player_rtgg: of the races with the same first player the one that
\* is loaded last is kept; the query does not order its rows.
races_by_player_rtgg ==
    {due \in [Players -> Keyed \cup {None}] :
        \A p \in Players : LET own == {r \in Keyed : P1[r] = p} IN
            IF own = {} THEN due[p] = None ELSE due[p] \in own}

load ==
    /\ scan.pc = "idle" /\ Keyed # {}
    /\ \E due \in races_by_player_rtgg :
         scan' = [scan EXCEPT !.pc = "query", !.due = due, !.at = [r \in Races |-> race[r].at]]
    /\ UNCHANGED <<now, named, race, room, commands, troubles>>

\* Only the first page of past rooms is asked for.
query ==
    /\ scan.pc = "query"
    /\ \/ scan' = [scan EXCEPT !.pc = "next", !.todo = {m \in Rooms : room[m].paged}] /\ Fine
       \/ scan' = IdleScan /\ Trouble
    /\ UNCHANGED <<now, named, race, room, commands>>

\* interesting_race, before its loop.
CanBeInteresting(m) == room[m].goal /\ room[m].status = "finished"

next(m) ==
    /\ scan.pc = "next" /\ m \in scan.todo
    /\ IF CanBeInteresting(m)
         THEN scan' = [scan EXCEPT !.pc = "look", !.todo = @ \ {m}, !.room = m,
                                   !.ids = Entrants(m), !.left = Entrants(m)]
         ELSE scan' = [scan EXCEPT !.todo = @ \ {m}]
    /\ UNCHANGED <<now, named, race, room, commands, troubles>>

\* (Broken variants: the age of the room is not looked at; a race that the
\* room does not match ends the search.)
WorthAnyway(r) == r # None /\ scan.at[r] # None

Worth(r) == r # None /\ scan.at[r] # None /\ scan.at[r] <= room[scan.room].start + Early

Matches(r) == P1[r] \in scan.left /\ P2[r] \in scan.left

interesting_race_gives_up(p) ==
    LET r == scan.due[p] IN
    /\ scan.pc = "look" /\ p \in scan.ids
    /\ scan' = IF Worth(r)
                 THEN [scan EXCEPT !.ids = {}, !.left = {},
                                   !.pc = IF Matches(r) THEN "match" ELSE "look",
                                   !.found = IF Matches(r) THEN r ELSE None]
                 ELSE [scan EXCEPT !.ids = @ \ {p}]
    /\ UNCHANGED <<now, named, race, room, commands, troubles>>

\* One turn of the loop: both names are taken out of the map of the entrants,
\* whether or not both of them are there.
interesting_race(p) ==
    LET r == scan.due[p] IN
    /\ scan.pc = "look" /\ p \in scan.ids
    /\ scan' = IF ~Worth(r) THEN [scan EXCEPT !.ids = @ \ {p}]
               ELSE IF Matches(r) THEN [scan EXCEPT !.ids = {}, !.left = {}, !.pc = "match", !.found = r]
               ELSE [scan EXCEPT !.ids = @ \ {p}, !.left = @ \ {P1[r], P2[r]}]
    /\ UNCHANGED <<now, named, race, room, commands, troubles>>

NextRoom == [scan EXCEPT !.pc = "next", !.room = None, !.ids = {}, !.left = {}, !.found = None]

uninteresting ==
    /\ scan.pc = "look" /\ scan.ids = {}
    /\ scan' = NextRoom
    /\ UNCHANGED <<now, named, race, room, commands, troubles>>

HasResult(m, p) == room[m].entrant[p] \in {"done", "dnf"}

\* Entrant::result.
result(m, p) == IF room[m].entrant[p] = "dnf" THEN Forfeit(m) ELSE Finish(m, p)

\* Both results, and a connection.
results ==
    /\ scan.pc = "match"
    /\ LET r == scan.found IN
       IF HasResult(scan.room, P1[r]) /\ HasResult(scan.room, P2[r])
         THEN \/ scan' = [scan EXCEPT !.pc = "url"] /\ Fine
              \/ scan' = NextRoom /\ Trouble
         ELSE scan' = NextRoom /\ Fine
    /\ UNCHANGED <<now, named, race, room, commands>>

\* The whole row of the info is written, with the time that was loaded.
SaveInfo ==
    /\ scan.pc = "url"
    /\ scan' = [scan EXCEPT !.pc = "finish"]
    /\ \/ /\ race' = [race EXCEPT ![scan.found].url = scan.room,
                                  ![scan.found].at = scan.at[scan.found]]
          /\ Fine
       \/ UNCHANGED race /\ Trouble
    /\ UNCHANGED <<now, named, room, commands>>

\* (Broken variant: the second player's result is recorded for both.)
FinishWithOneResult ==
    /\ scan.pc = "finish"
    /\ scan' = NextRoom
    /\ race' = [race EXCEPT ![scan.found].state = "Finished",
                            ![scan.found].result1 = result(scan.room, P2[scan.found]),
                            ![scan.found].result2 = result(scan.room, P2[scan.found])]
    /\ UNCHANGED <<now, named, room, commands, troubles>>

\* trigger_race_finish; what is posted then is in BracketRace.
trigger_race_finish ==
    /\ scan.pc = "finish"
    /\ scan' = NextRoom
    /\ \/ /\ race' = [race EXCEPT ![scan.found].state = "Finished",
                                  ![scan.found].result1 = result(scan.room, P1[scan.found]),
                                  ![scan.found].result2 = result(scan.room, P2[scan.found])]
          /\ Fine
       \/ UNCHANGED race /\ Trouble
    /\ UNCHANGED <<now, named, room, commands>>

EndScan ==
    /\ scan.pc = "next" /\ scan.todo = {}
    /\ scan' = IdleScan
    /\ UNCHANGED <<now, named, race, room, commands, troubles>>

Crash ==
    /\ scan.pc # "idle" /\ scan' = IdleScan
    /\ Trouble
    /\ UNCHANGED <<now, named, race, room, commands>>

-----------------------------------------------------------------------------
World ==
    \/ Tick
    \/ \E p \in Players : NameIsKnown(p)
    \/ \E r \in Races, when \in Times : schedule(r, when)
    \/ \E r \in Races : report(r)
    \/ \E m \in Rooms, E \in Groups, goal \in BOOLEAN : StartRoom(m, E, goal)
    \/ \E m \in Rooms, D, F \in SUBSET Players : EndRoom(m, D, F)
    \/ \E m \in Rooms : OffThePage(m)

Scanning ==
    \/ load \/ query \/ (\E m \in Rooms : next(m)) \/ uninteresting
    \/ \E p \in Players : interesting_race(p)
    \/ results \/ SaveInfo \/ trigger_race_finish \/ EndScan

Next == World \/ Scanning \/ Crash

Spec == Init /\ [][Next]_vars

\* The worker is run every few minutes as long as the bot runs.
FairSpec == Spec /\ WF_vars(Scanning)

-----------------------------------------------------------------------------
(* Properties.                                                             *)

\* Room m is one in which race r was played.
PlayedIn(r, m) == /\ room[m].status = "finished" /\ room[m].goal
                  /\ HasResult(m, P1[r]) /\ HasResult(m, P2[r])

\* Whatever else is scheduled, rescheduled and reported meanwhile, the room a
\* race's row links to is one in which both of its players raced, for this
\* game, and which did not start long before the time that is in the row.
UrlIsOfItsRace ==
    \A r \in Races : \A m \in Rooms : race[r].url = m =>
        PlayedIn(r, m) /\ race[r].at <= room[m].start + Early

\* A race that was finished by the scanner has both results from one room,
\* and each player has his own.
ResultsAreOfOneRoom ==
    \A r \in Races : LET one == race[r].result1
                         two == race[r].result2 IN
        /\ one.room = two.room
        /\ \A m \in Rooms : one.room = m =>
             /\ PlayedIn(r, m)
             /\ one = result(m, P1[r]) /\ two = result(m, P2[r])

\* Nothing hides that r was played in m: no other race that is due has one of
\* r's players as its first player, or both of its players in the room.
Clear(r, m) == \A q \in Keyed \ {r} : /\ P1[q] \notin {P1[r], P2[r]}
                                      /\ ~({P1[q], P2[q]} \subseteq Entrants(m))

Findable(r, m) == /\ r \in Keyed /\ PlayedIn(r, m) /\ room[m].paged /\ Clear(r, m)
                  /\ race[r].at <= room[m].start + Early

\* A race that can be told from the others in a room is found there sooner or
\* later, in whatever order rooms and entrants are gone through, as long as the
\* room stays on the page that is looked at.
FindableIsFound == \A r \in Races, m \in Rooms : []<>~Findable(r, m)

=============================================================================
