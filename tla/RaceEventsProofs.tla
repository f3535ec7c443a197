-------------------------- MODULE RaceEventsProofs --------------------------
(***************************************************************************)
(* Every race_events row leads to an event of its own guild and race, for  *)
(* any number of guilds, races, criteria, changes, failures and restarts.  *)
(***************************************************************************)
EXTENDS RaceEvents, FiniteSetTheorems, TLAPS

\* Between the call that creates an event and the row that remembers it, the
\* worker's note of the event is right.
NoteIsRight ==
    sync.pc = "row" =>
        /\ sync.made # 0
        /\ event[sync.made].guild = sync.guild
        /\ event[sync.made].race = sync.race

IInv == TypeOK /\ RowIsOfItsRace /\ NoteIsRight

-----------------------------------------------------------------------------
(* Values.                                                                  *)

LEMMA NothingType == SomeTime \in Times /\ Nothing \in Content
<1>1. SomeTime \in Times
    BY DataAssumption DEF DataAssumption, SomeTime
<1> QED BY <1>1 DEF Nothing, Content

LEMMA RestingType == Resting \in Sync /\ Resting.pc = "idle"
<1> DEFINE r0 == CHOOSE r \in Races : TRUE
<1>1. r0 \in Races /\ Main \in Guilds
    BY DataAssumption DEF DataAssumption
<1>2. [r \in Races |-> [state |-> "New", content |-> Nothing]] \in [Races -> Race]
    BY NothingType DEF Race
<1>3. Unlisted \in [EventIds -> {"none", "scheduled", "active"}]
    BY DEF Unlisted
<1>4. [g \in Guilds |-> {}] \in [Guilds -> SUBSET Criteria]
    OBVIOUS
<1>5. Resting = [pc |-> "idle",
                 infos |-> [r \in Races |-> [state |-> "New", content |-> Nothing]],
                 criteria |-> [g \in Guilds |-> {}], todo |-> {}, guild |-> Main,
                 left |-> {}, race |-> r0, listed |-> Unlisted, made |-> 0]
    BY DEF Resting
<1> HIDE DEF r0
<1> QED BY <1>1, <1>2, <1>3, <1>4, <1>5 DEF Sync

LEMMA NoEventType == NoEvent \in Event
<1>1. (CHOOSE r \in Races : TRUE) \in Races /\ Main \in Guilds
    BY DataAssumption DEF DataAssumption
<1> QED BY <1>1, NothingType DEF NoEvent, Event

\* The id of a new event is in no row.
LEMMA FreeIdIsFree ==
    ASSUME Free # {}
    PROVE  FreeId \in EventIds /\ \A g \in Guilds, r \in Races : row[g][r] # FreeId
<1>1. FreeId \in Free
    BY DEF FreeId
<1> QED BY <1>1 DEF Free

-----------------------------------------------------------------------------
LEMMA InitIInv == Init => IInv
<1> SUFFICES ASSUME Init PROVE IInv
    OBVIOUS
<1>1. TypeOK
    <2>1. race \in [Races -> Race]
        BY NothingType DEF Init, Race
    <2>2. sync \in Sync
        BY RestingType DEF Init
    <2>3. event \in [EventIds -> Event]
        BY NoEventType DEF Init
    <2>4. row \in [Guilds -> [Races -> EventIds \cup {0}]]
        BY DEF Init
    <2>5. now \in 0..MaxTime /\ changes \in 0..MaxChanges /\ troubles \in 0..MaxTroubles
        BY DataAssumption DEF Init, DataAssumption
    <2>6. criteria \in [Guilds -> SUBSET Criteria] /\ criteria[Main] = {}
        BY DataAssumption DEF Init, DataAssumption
    <2> QED BY <2>1, <2>2, <2>3, <2>4, <2>5, <2>6 DEF Init, TypeOK
<1>2. RowIsOfItsRace
    BY DEF Init, RowIsOfItsRace
<1>3. NoteIsRight
    BY RestingType DEF Init, NoteIsRight
<1> QED BY <1>1, <1>2, <1>3 DEF IInv

\* Users change the tables; rows, events and the worker stay.
LEMMA UsersIInv ==
    ASSUME IInv, race' \in [Races -> Race], started' \in BOOLEAN,
           criteria' \in [Guilds -> SUBSET Criteria], criteria'[Main] = {},
           Change, Elsewhere
    PROVE  IInv'
<1>1. changes' \in 0..MaxChanges
    BY DataAssumption DEF Change, IInv, TypeOK, DataAssumption
<1>2. TypeOK'
    BY <1>1 DEF Elsewhere, IInv, TypeOK
<1> QED BY <1>2 DEF Elsewhere, IInv, RowIsOfItsRace, NoteIsRight

\* Events change their status and what they say, and nothing else does.
Kept(e) == event'[e].guild = event[e].guild /\ event'[e].race = event[e].race

LEMMA EventsIInv ==
    ASSUME IInv, event' \in [EventIds -> Event], \A e \in EventIds : Kept(e),
           UNCHANGED <<users, joined, row>>, sync' \in Sync,
           sync'.pc = "row" => sync' = sync,
           now' \in 0..MaxTime, changes' \in 0..MaxChanges,
           troubles' \in 0..MaxTroubles
    PROVE  IInv'
<1>1. TypeOK'
    BY DEF users, IInv, TypeOK
<1>2. RowIsOfItsRace'
    BY DEF IInv, TypeOK, RowIsOfItsRace, Kept
<1>3. NoteIsRight'
    <2>1. sync.made \in EventIds \cup {0}
        BY DEF IInv, TypeOK, Sync
    <2> QED BY <2>1 DEF IInv, NoteIsRight, Kept
<1> QED BY <1>1, <1>2, <1>3 DEF IInv

-----------------------------------------------------------------------------
(* Users, time and the gateway.                                             *)

\* A race whose state changes, and whose content is still content.
LEMMA RaceType ==
    ASSUME TypeOK, NEW r \in Races, NEW x \in Race
    PROVE  [race EXCEPT ![r] = x] \in [Races -> Race]
BY DEF TypeOK

LEMMA RaceCommandsIInv ==
    ASSUME IInv, NEW r \in Races,
           ScheduleRace(r) \/ Signup(r) \/ SetRestream(r) \/ Report(r)
    PROVE  IInv'
<1>1. race[r] \in Race /\ race[r].content \in Content /\ TypeOK
    BY DEF IInv, TypeOK, Race
<1>2. race' \in [Races -> Race]
    <2>1. CASE ScheduleRace(r)
        <3>1. PICK when \in Times :
                race' = [race EXCEPT ![r].state = "Scheduled", ![r].content.start = when,
                                     ![r].content.comms = FALSE]
            BY <2>1 DEF ScheduleRace
        <3> DEFINE x == [race[r] EXCEPT !.state = "Scheduled", !.content.start = when,
                                        !.content.comms = FALSE]
        <3>3. x \in Race
            BY <1>1 DEF Race, Content
        <3>4. race' = [race EXCEPT ![r] = x]
            BY <1>1, <3>1 DEF TypeOK, Race, Content
        <3> HIDE DEF x
        <3> QED BY <1>1, <3>3, <3>4, RaceType
    <2>2. CASE Signup(r)
        <3> DEFINE x == [race[r] EXCEPT !.content.comms = TRUE]
        <3>1. x \in Race
            BY <1>1 DEF Race, Content
        <3>2. race' = [race EXCEPT ![r] = x]
            BY <2>2 DEF Signup
        <3> HIDE DEF x
        <3> QED BY <1>1, <3>1, <3>2, RaceType
    <2>3. CASE SetRestream(r)
        <3> DEFINE x == [race[r] EXCEPT !.content.restream = TRUE]
        <3>1. x \in Race
            BY <1>1 DEF Race, Content
        <3>2. race' = [race EXCEPT ![r] = x]
            BY <2>3 DEF SetRestream
        <3> HIDE DEF x
        <3> QED BY <1>1, <3>1, <3>2, RaceType
    <2>4. CASE Report(r)
        <3> DEFINE x == [race[r] EXCEPT !.state = "Finished"]
        <3>1. x \in Race
            BY <1>1 DEF Race
        <3>2. race' = [race EXCEPT ![r] = x]
            BY <2>4 DEF Report
        <3> HIDE DEF x
        <3> QED BY <1>1, <3>1, <3>2, RaceType
    <2> QED BY <2>1, <2>2, <2>3, <2>4
<1>3. UNCHANGED <<started, criteria>> /\ Change /\ Elsewhere
    BY DEF ScheduleRace, Signup, SetRestream, Report
<1> QED BY <1>1, <1>2, <1>3, UsersIInv DEF TypeOK

LEMMA GuildCommandsIInv ==
    ASSUME IInv, NEW g \in Guilds, handle_add_criteria(g) \/ handle_remove_criteria(g)
    PROVE  IInv'
<1>1. /\ criteria' \in [Guilds -> SUBSET Criteria] /\ criteria'[Main] = {}
      /\ UNCHANGED <<race, started>> /\ Change /\ Elsewhere
    BY DataAssumption
       DEF handle_add_criteria, handle_remove_criteria, IInv, TypeOK, DataAssumption
<1> QED BY <1>1, UsersIInv DEF IInv, TypeOK

LEMMA OthersIInv ==
    ASSUME IInv,
           \/ FinishSeason \/ Tick \/ Restart
           \/ \E g \in Guilds : Join(g)
           \/ \E e \in EventIds : Delete(e)
    PROVE  IInv'
<1>1. CASE FinishSeason
    BY <1>1, UsersIInv DEF FinishSeason, IInv, TypeOK
<1>2. CASE Tick
    <2>1. now' \in 0..MaxTime
        BY <1>2, DataAssumption DEF Tick, IInv, TypeOK, DataAssumption
    <2>2. \A e \in EventIds : event[e] \in Event /\ StatusAt(now + 1, e)
                                \in {"none", "scheduled", "active", "over"}
        BY DEF IInv, TypeOK, Event, StatusAt, Live
    <2>3. event' \in [EventIds -> Event] /\ \A e \in EventIds : Kept(e)
        BY <1>2, <2>2 DEF Tick, Event, Kept
    <2> QED BY <1>2, <2>1, <2>3, EventsIInv DEF Tick, users, IInv, TypeOK
<1>3. CASE Restart
    <2>1. troubles' \in 0..MaxTroubles
        BY <1>3, DataAssumption DEF Restart, Trouble, IInv, TypeOK, DataAssumption
    <2>2. TypeOK'
        BY <1>3, <2>1, RestingType DEF Restart, users, IInv, TypeOK
    <2> QED BY <1>3, <2>2, RestingType DEF Restart, IInv, RowIsOfItsRace, NoteIsRight
<1>4. ASSUME NEW g \in Guilds, Join(g) PROVE IInv'
    BY <1>4 DEF Join, users, IInv, TypeOK, RowIsOfItsRace, NoteIsRight
<1>5. ASSUME NEW e \in EventIds, Delete(e) PROVE IInv'
    <2>1. changes' \in 0..MaxChanges
        BY <1>5, DataAssumption DEF Delete, Change, IInv, TypeOK, DataAssumption
    <2>2. event \in [EventIds -> Event] /\ event' = [event EXCEPT ![e].status = "over"]
        BY <1>5 DEF Delete, IInv, TypeOK
    <2>3. [event[e] EXCEPT !.status = "over"] \in Event
        BY <2>2 DEF Event
    <2>4. event' \in [EventIds -> Event]
        BY <2>2, <2>3
    <2>5. \A f \in EventIds : Kept(f)
        BY <2>2 DEF Event, Kept
    <2> QED BY <1>5, <2>1, <2>4, <2>5, EventsIInv DEF Delete, users, IInv, TypeOK
<1> QED BY <1>1, <1>2, <1>3, <1>4, <1>5

-----------------------------------------------------------------------------
(* The worker.                                                              *)

\* A failed step is counted.
LEMMA TroublesType ==
    ASSUME IInv, UNCHANGED troubles \/ Trouble
    PROVE  troubles' \in 0..MaxTroubles
BY DataAssumption DEF Trouble, IInv, TypeOK, DataAssumption

\* A step of the worker that only changes its own state.
LEMMA QuietIInv ==
    ASSUME IInv, Quiet, UNCHANGED <<event, row>>, UNCHANGED troubles \/ Trouble,
           sync' \in Sync, sync'.pc = "row" => sync' = sync
    PROVE  IInv'
<1>1. event' \in [EventIds -> Event] /\ \A e \in EventIds : Kept(e)
    BY DEF IInv, TypeOK, Kept
<1> QED BY <1>1, TroublesType, EventsIInv DEF Quiet, IInv, TypeOK

LEMMA LoadIInv ==
    ASSUME IInv, Load \/ guild_criteria \/ NextGuild \/ Done \/ GuildDone
    PROVE  IInv'
<1>1. sync \in Sync /\ Resting \in Sync /\ Resting.pc = "idle"
    BY RestingType DEF IInv, TypeOK
<1>2. CASE Load
    <2>1. [Resting EXCEPT !.pc = "guilds", !.infos = race,
                          !.left = IF started THEN Races ELSE {}] \in Sync
        BY <1>1 DEF IInv, TypeOK, Sync
    <2>2. sync' \in Sync /\ (sync'.pc = "row" => sync' = sync)
        BY <1>1, <1>2, <2>1 DEF Load, Sync
    <2> QED BY <1>2, <2>2, QuietIInv DEF Load
<1>3. CASE guild_criteria
    <2>1. [sync EXCEPT !.pc = "guild", !.criteria = criteria, !.todo = joined] \in Sync
        BY <1>1 DEF IInv, TypeOK, Sync
    <2>2. sync' \in Sync /\ (sync'.pc = "row" => sync' = sync)
        BY <1>1, <1>3, <2>1 DEF guild_criteria, Sync
    <2> QED BY <1>3, <2>2, QuietIInv DEF guild_criteria
<1>4. CASE NextGuild
    <2>1. PICK g \in sync.todo :
            \/ sync' = [sync EXCEPT !.pc = "races", !.todo = @ \ {g}, !.guild = g, !.left = Races,
                    !.listed = [e \in EventIds |->
                        IF Live(e) /\ event[e].guild = g THEN event[e].status ELSE "none"]]
            \/ sync' = [sync EXCEPT !.todo = @ \ {g}]
        BY <1>4 DEF NextGuild
    <2>2. g \in Guilds
        BY <1>1 DEF Sync
    <2> DEFINE listed == [e \in EventIds |->
                 IF Live(e) /\ event[e].guild = g THEN event[e].status ELSE "none"]
    <2>3. listed \in [EventIds -> {"none", "scheduled", "active"}]
        BY DEF Live
    <2> HIDE DEF listed
    <2>4. sync' \in Sync /\ (sync'.pc = "row" => sync' = sync)
        <3>1. CASE sync' = [sync EXCEPT !.pc = "races", !.todo = @ \ {g}, !.guild = g,
                                        !.left = Races, !.listed = listed]
            BY <1>1, <2>2, <2>3, <3>1 DEF Sync
        <3>2. CASE sync' = [sync EXCEPT !.todo = @ \ {g}]
            BY <1>1, <1>4, <3>2 DEF Sync, NextGuild
        <3> QED BY <2>1, <3>1, <3>2 DEF listed
    <2> QED BY <1>4, <2>4, QuietIInv DEF NextGuild
<1>5. CASE Done
    BY <1>1, <1>5, QuietIInv DEF Done
<1>6. CASE GuildDone
    <2>1. sync' \in Sync /\ sync'.pc = "guild"
        BY <1>1, <1>6 DEF GuildDone, Unlisted, Sync
    <2> QED BY <1>6, <2>1, QuietIInv DEF GuildDone
<1> QED BY <1>2, <1>3, <1>4, <1>5, <1>6

\* At a race, the worker goes on to the next.
LEMMA NextRaceType ==
    ASSUME IInv, NEW r \in Races, AtRace(r)
    PROVE  NextRace(r) \in Sync /\ NextRace(r).pc = "races"
BY DEF IInv, TypeOK, AtRace, NextRace, Sync

LEMMA ExistingType ==
    ASSUME IInv, NEW r \in Races, Existing(r) # 0
    PROVE  Existing(r) \in EventIds
BY DEF IInv, TypeOK, Sync, Existing

\* An event changes its status or its content.
LEMMA EventChanged ==
    ASSUME TypeOK, NEW e \in EventIds, NEW x \in Event,
           x.guild = event[e].guild, x.race = event[e].race,
           event' = event \/ event' = [event EXCEPT ![e] = x]
    PROVE  event' \in [EventIds -> Event] /\ \A f \in EventIds : Kept(f)
BY DEF TypeOK, Kept

LEMMA EndIInv ==
    ASSUME IInv, NEW r \in Races, End(r)
    PROVE  IInv'
<1>1. Existing(r) \in EventIds /\ AtRace(r)
    BY ExistingType DEF End
<1>2. event' = event \/ event' = Ended(Existing(r))
    BY DEF End
<1>3. event' \in [EventIds -> Event] /\ \A e \in EventIds : Kept(e)
    <2> DEFINE x == [event[Existing(r)] EXCEPT !.status = "over"]
    <2>1. /\ x \in Event /\ x.guild = event[Existing(r)].guild
          /\ x.race = event[Existing(r)].race
        BY <1>1 DEF IInv, TypeOK, Event
    <2>2. Ended(Existing(r)) = [event EXCEPT ![Existing(r)] = x]
        BY DEF Ended
    <2> HIDE DEF x
    <2> QED BY <1>1, <1>2, <2>1, <2>2, EventChanged DEF IInv
<1>4. sync' \in Sync /\ sync'.pc = "races"
    BY <1>1, NextRaceType DEF End
<1>5. troubles' \in 0..MaxTroubles
    BY TroublesType DEF End
<1> QED BY <1>3, <1>4, <1>5, EventsIInv DEF End, Quiet, IInv, TypeOK

LEMMA UpdateIInv ==
    ASSUME IInv, NEW r \in Races, Update(r)
    PROVE  IInv'
<1> DEFINE e == Existing(r)
           content == sync.infos[r].content
<1>1. e \in EventIds /\ AtRace(r) /\ content \in Content
    BY ExistingType DEF Update, IInv, TypeOK, Sync, Race
<1>2. event' = event \/ event' = [event EXCEPT ![e].content = content]
    BY DEF Update
<1>3. event' \in [EventIds -> Event] /\ \A f \in EventIds : Kept(f)
    <2> DEFINE x == [event[e] EXCEPT !.content = content]
    <2> HIDE DEF e, content
    <2>1. x \in Event /\ x.guild = event[e].guild /\ x.race = event[e].race
        BY <1>1 DEF IInv, TypeOK, Event
    <2>2. event' = event \/ event' = [event EXCEPT ![e] = x]
        BY <1>2
    <2> HIDE DEF x
    <2> QED BY <1>1, <2>1, <2>2, EventChanged DEF IInv
<1>4. sync' \in Sync /\ sync'.pc = "races"
    BY <1>1, NextRaceType DEF Update
<1>5. troubles' \in 0..MaxTroubles
    BY TroublesType DEF Update
<1> QED BY <1>3, <1>4, <1>5, EventsIInv DEF Update, Quiet, IInv, TypeOK

LEMMA LeaveIInv ==
    ASSUME IInv, NEW r \in Races, Leave(r)
    PROVE  IInv'
<1>1. NextRace(r) \in Sync /\ NextRace(r).pc = "races"
    BY NextRaceType DEF Leave
<1> QED BY <1>1, QuietIInv DEF Leave

\* A new event has an id that no row has, so that only the worker's note
\* leads to it.
LEMMA CreateIInv ==
    ASSUME IInv, NEW r \in Races, Create(r)
    PROVE  IInv'
<1>1. FreeId \in EventIds /\ \A g \in Guilds, q \in Races : row[g][q] # FreeId
    BY FreeIdIsFree DEF Create
<1>2. sync \in Sync /\ sync.guild \in Guilds /\ sync.infos[r].content \in Content
    BY DEF IInv, TypeOK, Sync, Race
<1> DEFINE x == [status |-> IF sync.infos[r].content.start = now THEN "active" ELSE "scheduled",
                 guild |-> sync.guild, race |-> r,
                 content |-> [sync.infos[r].content EXCEPT !.comms = FALSE]]
           noted == [sync EXCEPT !.pc = "row", !.race = r, !.made = FreeId]
<1>3. x \in Event /\ x.guild = sync.guild /\ x.race = r
    BY <1>2 DEF Event, Content
<1>4. Created(r) = [event EXCEPT ![FreeId] = x]
    BY DEF Created
<1>5. noted \in Sync /\ noted.guild = sync.guild /\ noted.race = r /\ noted.made = FreeId
    BY <1>1, <1>2 DEF Sync
<1>6. NextRace(r) \in Sync /\ NextRace(r).pc = "races"
    BY NextRaceType DEF Create
<1>7. /\ UNCHANGED row /\ Quiet /\ troubles' \in 0..MaxTroubles
      /\ \/ event' = Created(r) /\ sync' = noted
         \/ (event' = event \/ event' = Created(r)) /\ sync' = NextRace(r)
    BY TroublesType DEF Create
<1> HIDE DEF x, noted
<1>8. TypeOK'
    <2>1. event' \in [EventIds -> Event]
        BY <1>1, <1>3, <1>4, <1>7 DEF IInv, TypeOK
    <2>2. sync' \in Sync
        BY <1>5, <1>6, <1>7
    <2> QED BY <1>7, <2>1, <2>2 DEF Quiet, users, IInv, TypeOK
<1>9. RowIsOfItsRace'
    BY <1>1, <1>4, <1>7 DEF IInv, TypeOK, RowIsOfItsRace
<1>10. NoteIsRight'
    <2>1. CASE event' = Created(r) /\ sync' = noted
        <3>1. sync'.made # 0
            BY <1>1, <1>5, <2>1, DataAssumption DEF DataAssumption
        <3>2. event'[FreeId] = x
            BY <1>1, <1>4, <2>1 DEF IInv, TypeOK
        <3> QED BY <1>3, <1>5, <2>1, <3>1, <3>2 DEF NoteIsRight
    <2>2. CASE sync' = NextRace(r)
        BY <1>6, <2>2 DEF NoteIsRight
    <2> QED BY <1>7, <2>1, <2>2
<1> QED BY <1>8, <1>9, <1>10 DEF IInv

\* The note becomes the row.
LEMMA SaveRowIInv ==
    ASSUME IInv, SaveRow
    PROVE  IInv'
<1>1. /\ sync \in Sync /\ sync.guild \in Guilds /\ sync.race \in Races
      /\ sync.made \in EventIds \cup {0}
    BY DEF IInv, TypeOK, Sync
<1>2. sync' \in Sync /\ sync'.pc = "races"
    BY <1>1 DEF SaveRow, Sync
<1>3. row' = row \/ row' = [row EXCEPT ![sync.guild][sync.race] = sync.made]
    BY DEF SaveRow
<1>4. TypeOK'
    <2>1. row' \in [Guilds -> [Races -> EventIds \cup {0}]]
        BY <1>1, <1>3 DEF IInv, TypeOK
    <2> QED BY <1>2, <2>1, TroublesType DEF SaveRow, Quiet, users, IInv, TypeOK
<1>5. RowIsOfItsRace'
    <2> SUFFICES ASSUME NEW g \in Guilds, NEW r \in Races, row'[g][r] # 0
                 PROVE  event[row'[g][r]].guild = g /\ event[row'[g][r]].race = r
        BY DEF SaveRow, RowIsOfItsRace
    <2>1. CASE row'[g][r] = row[g][r]
        BY <2>1 DEF IInv, RowIsOfItsRace
    <2>2. CASE g = sync.guild /\ r = sync.race /\ row'[g][r] = sync.made
        BY <2>2 DEF IInv, NoteIsRight, SaveRow
    <2> QED BY <1>1, <1>3, <2>1, <2>2 DEF IInv, TypeOK
<1>6. NoteIsRight'
    BY <1>2 DEF NoteIsRight
<1> QED BY <1>4, <1>5, <1>6 DEF IInv

-----------------------------------------------------------------------------
LEMMA NextIInv == IInv /\ [Next]_vars => IInv'
<1> SUFFICES ASSUME IInv, [Next]_vars PROVE IInv'
    OBVIOUS
<1>1. CASE Users
    BY <1>1, RaceCommandsIInv, GuildCommandsIInv, OthersIInv DEF Users
<1>2. CASE Tick \/ Restart
    BY <1>2, OthersIInv
<1>3. CASE sync_race_status
    BY <1>3, LoadIInv, EndIInv, UpdateIInv, LeaveIInv, CreateIInv, SaveRowIInv
       DEF sync_race_status
<1>4. CASE UNCHANGED vars
    BY <1>4 DEF vars, users, IInv, TypeOK, RowIsOfItsRace, NoteIsRight
<1> QED BY <1>1, <1>2, <1>3, <1>4 DEF Next

\* Every variable of the helper bot keeps its type.
THEOREM TypeCorrect == Spec => []TypeOK
<1>1. IInv => TypeOK
    BY DEF IInv
<1> QED BY InitIInv, NextIInv, <1>1, PTL DEF Spec

\* A row never leads to an event of another guild or race, so that the worker
\* never changes or ends one: not after failed calls, lost answers, restarts,
\* or while users change races and criteria under the worker's hands.
THEOREM RowsAreRight == Spec => []RowIsOfItsRace
<1>1. IInv => RowIsOfItsRace
    BY DEF IInv
<1> QED BY InitIInv, NextIInv, <1>1, PTL DEF Spec
-----------------------------------------------------------------------------
(* One event each.                                                          *)

\* The event that only the worker's note leads to, until its row is saved.
Noted(g, r) == IF sync.pc = "row" /\ sync.guild = g /\ sync.race = r THEN {sync.made} ELSE {}

\* The live events for a race that neither its row nor the worker's note
\* leads to: nobody will ever look after them.
Lost(g, r) == EventsFor(g, r) \ ({row[g][r]} \cup Noted(g, r))

\* Each lost event is the price of one failure.
LostAreCounted ==
    \A g \in Guilds, r \in Races :
        IsFiniteSet(Lost(g, r)) /\ Cardinality(Lost(g, r)) <= troubles

\* The list of a guild's events may be out of date, but the events of the
\* races that are still to come and that are alive now are in it.
ListIsRight ==
    sync.pc \in {"races", "row"} =>
        \A r \in sync.left :
            LET e == row[sync.guild][r] IN e # 0 /\ Live(e) => sync.listed[e] # "none"

\* While the worker holds a note, the old event of the race is not alive.
NoteIsAlone ==
    sync.pc = "row" =>
        LET e == row[sync.guild][sync.race] IN e # 0 => ~Live(e)

LostInv == LostAreCounted /\ ListIsRight /\ NoteIsAlone

LEMMA InitLostInv == Init => LostInv
<1> SUFFICES ASSUME Init PROVE LostInv
    OBVIOUS
<1>1. sync.pc = "idle"
    BY RestingType DEF Init
<1>2. ASSUME NEW g \in Guilds, NEW r \in Races PROVE Lost(g, r) = {}
    <2>1. \A e \in EventIds : ~Live(e)
        BY DEF Init, Live, NoEvent
    <2> QED BY <2>1 DEF Lost, EventsFor
<1>3. LostAreCounted
    <2>1. troubles = 0
        BY DEF Init
    <2>2. IsFiniteSet({}) /\ Cardinality({}) = 0
        BY FS_EmptySet
    <2> QED BY <1>2, <2>1, <2>2 DEF LostAreCounted
<1> QED BY <1>1, <1>3 DEF LostInv, ListIsRight, NoteIsAlone

\* A step loses no event, or one, and then it counts a failure.
LEMMA LoseAtMostOne ==
    ASSUME IInv, LostAreCounted,
           \A g \in Guilds, r \in Races :
               \/ Lost(g, r)' \subseteq Lost(g, r) /\ (troubles' = troubles \/ troubles' = troubles + 1)
               \/ \E x : Lost(g, r)' \subseteq Lost(g, r) \cup {x} /\ troubles' = troubles + 1
    PROVE  LostAreCounted'
<1> SUFFICES ASSUME NEW g \in Guilds, NEW r \in Races
             PROVE  (IsFiniteSet(Lost(g, r)) /\ Cardinality(Lost(g, r)) <= troubles)'
    BY DEF LostAreCounted
<1> DEFINE S == Lost(g, r)
           T == Lost(g, r)'
<1>1. IsFiniteSet(S) /\ Cardinality(S) <= troubles /\ troubles \in Nat
    BY DEF LostAreCounted, IInv, TypeOK
<1>2. Cardinality(S) \in Nat
    BY <1>1, FS_CardinalityType
<1>3. \/ T \subseteq S /\ (troubles' = troubles \/ troubles' = troubles + 1)
      \/ \E x : T \subseteq S \cup {x} /\ troubles' = troubles + 1
    OBVIOUS
<1> HIDE DEF S, T
<1>4. CASE T \subseteq S /\ (troubles' = troubles \/ troubles' = troubles + 1)
    <2>1. IsFiniteSet(T) /\ Cardinality(T) <= Cardinality(S)
        BY <1>1, <1>4, FS_Subset
    <2>2. Cardinality(T) \in Nat
        BY <2>1, FS_CardinalityType
    <2> QED BY <1>1, <1>2, <1>4, <2>1, <2>2 DEF T
<1>5. CASE \E x : T \subseteq S \cup {x} /\ troubles' = troubles + 1
    <2>1. PICK x : T \subseteq S \cup {x} /\ troubles' = troubles + 1
        BY <1>5
    <2>2. /\ IsFiniteSet(S \cup {x})
          /\ Cardinality(S \cup {x}) = IF x \in S THEN Cardinality(S) ELSE Cardinality(S) + 1
        BY <1>1, FS_AddElement
    <2>3. IsFiniteSet(T) /\ Cardinality(T) <= Cardinality(S \cup {x})
        BY <2>1, <2>2, FS_Subset
    <2>4. Cardinality(T) \in Nat
        BY <2>3, FS_CardinalityType
    <2>5. Cardinality(T) <= troubles'
        BY <1>1, <1>2, <2>1, <2>2, <2>3, <2>4
    <2> QED BY <2>3, <2>5 DEF T
<1> QED BY <1>3, <1>4, <1>5

\* No event comes alive, and events stay with their race.
Fading == \A e \in EventIds : Kept(e) /\ (Live(e)' => Live(e))

LEMMA Faded ==
    ASSUME Fading, row' = row, NEW g \in Guilds, NEW r \in Races,
           Noted(g, r) \subseteq Noted(g, r)'
    PROVE  Lost(g, r)' \subseteq Lost(g, r)
<1>1. EventsFor(g, r)' \subseteq EventsFor(g, r)
    BY DEF Fading, Kept, EventsFor
<1> QED BY <1>1 DEF Lost

\* A failure is counted once.
LEMMA TroubleCounts ==
    ASSUME UNCHANGED troubles \/ Trouble
    PROVE  troubles' = troubles \/ troubles' = troubles + 1
BY DEF Trouble

\* Steps that only end or change events, while the worker keeps its note or
\* has none.
LEMMA FadingLostInv ==
    ASSUME IInv, LostInv, Fading, row' = row, UNCHANGED troubles \/ Trouble,
           \/ sync' = sync
           \/ sync.pc # "row" /\ sync'.pc # "row" /\ ListIsRight'
    PROVE  LostInv'
<1>1. \A g \in Guilds, r \in Races : Noted(g, r)' = Noted(g, r)
    BY DEF Noted
<1>2. LostAreCounted'
    BY <1>1, Faded, TroubleCounts, LoseAtMostOne DEF LostInv
<1>3. ListIsRight'
    <2>1. CASE sync' = sync
        <3>1. \A g \in Guilds, r \in Races : row[g][r] # 0 => row[g][r] \in EventIds
            BY DEF IInv, TypeOK
        <3>2. sync.guild \in Guilds /\ sync.left \subseteq Races
            BY DEF IInv, TypeOK, Sync
        <3> QED BY <2>1, <3>1, <3>2 DEF ListIsRight, LostInv, Fading
    <2> QED BY <2>1
<1>4. NoteIsAlone'
    <2>1. CASE sync' = sync /\ sync.pc = "row"
        <3>1. sync.guild \in Guilds /\ sync.race \in Races
            BY DEF IInv, TypeOK, Sync
        <3>2. row[sync.guild][sync.race] # 0 => row[sync.guild][sync.race] \in EventIds
            BY <3>1 DEF IInv, TypeOK
        <3> QED BY <2>1, <3>1, <3>2 DEF NoteIsAlone, LostInv, Fading
    <2> QED BY <2>1 DEF NoteIsAlone
<1> QED BY <1>2, <1>3, <1>4 DEF LostInv

LEMMA SameEventsFade ==
    ASSUME event' = event
    PROVE  Fading
BY DEF Fading, Kept, Live

-----------------------------------------------------------------------------
LEMMA UsersLostInv ==
    ASSUME IInv, LostInv, Users
    PROVE  LostInv'
<1>1. row' = row /\ sync' = sync /\ troubles' = troubles
    BY DEF Users, ScheduleRace, Signup, SetRestream, Report, handle_add_criteria,
           handle_remove_criteria, Join, FinishSeason, Delete, Elsewhere
<1>2. Fading
    <2>1. CASE event' = event
        BY <2>1, SameEventsFade
    <2>2. ASSUME NEW e \in EventIds, Delete(e) PROVE Fading
        <3>1. event' = [event EXCEPT ![e].status = "over"]
            BY <2>2 DEF Delete
        <3> QED BY <3>1 DEF Fading, Kept, Live, IInv, TypeOK, Event
    <2> QED BY <2>1, <2>2
            DEF Users, ScheduleRace, Signup, SetRestream, Report, handle_add_criteria,
                handle_remove_criteria, Join, FinishSeason, Elsewhere
<1> QED BY <1>1, <1>2, FadingLostInv

LEMMA TickLostInv ==
    ASSUME IInv, LostInv, Tick
    PROVE  LostInv'
<1>1. Fading
    <2> SUFFICES ASSUME NEW e \in EventIds PROVE Kept(e) /\ (Live(e)' => Live(e))
        BY DEF Fading
    <2>1. event[e] \in Event
        BY DEF IInv, TypeOK
    <2>2. event'[e] = [event[e] EXCEPT !.status = StatusAt(now + 1, e)]
        BY DEF Tick
    <2>3. ~Live(e) => StatusAt(now + 1, e) = event[e].status
        BY DEF StatusAt
    <2> QED BY <2>1, <2>2, <2>3 DEF Kept, Live, Event
<1> QED BY <1>1, FadingLostInv DEF Tick

\* A worker that dies forgets its note.
LEMMA RestartLostInv ==
    ASSUME IInv, LostInv, Restart
    PROVE  LostInv'
<1>1. sync'.pc = "idle" /\ row' = row /\ event' = event
    BY RestingType DEF Restart
<1>2. ASSUME NEW g \in Guilds, NEW r \in Races
      PROVE  Lost(g, r)' \subseteq Lost(g, r) \cup {sync.made}
    <2>1. EventsFor(g, r)' = EventsFor(g, r)
        BY <1>1 DEF EventsFor, Live
    <2> QED BY <1>1, <2>1 DEF Lost, Noted
<1>3. troubles' = troubles + 1
    BY DEF Restart, Trouble
<1>4. LostAreCounted'
    BY <1>2, <1>3, LoseAtMostOne DEF LostInv
<1> QED BY <1>1, <1>4 DEF LostInv, ListIsRight, NoteIsAlone

-----------------------------------------------------------------------------
\* The list of a guild's events has all that are alive.
LEMMA NextGuildLostInv ==
    ASSUME IInv, LostInv, NextGuild
    PROVE  LostInv'
<1>1. PICK g \in sync.todo :
        \/ sync' = [sync EXCEPT !.pc = "races", !.todo = @ \ {g}, !.guild = g, !.left = Races,
                !.listed = [e \in EventIds |->
                    IF Live(e) /\ event[e].guild = g THEN event[e].status ELSE "none"]]
        \/ sync' = [sync EXCEPT !.todo = @ \ {g}]
    BY DEF NextGuild
<1>2. sync \in Sync /\ g \in Guilds /\ sync.pc = "guild" /\ event' = event /\ row' = row
    BY DEF IInv, TypeOK, Sync, NextGuild
<1> DEFINE listed == [e \in EventIds |->
             IF Live(e) /\ event[e].guild = g THEN event[e].status ELSE "none"]
<1>3. \A e \in EventIds : Live(e) /\ event[e].guild = g => listed[e] # "none"
    BY DEF Live
<1> HIDE DEF listed
<1>4. sync'.pc # "row" /\ ListIsRight'
    <2>1. CASE sync' = [sync EXCEPT !.pc = "races", !.todo = @ \ {g}, !.guild = g,
                                    !.left = Races, !.listed = listed]
        <3>1. sync'.pc = "races" /\ sync'.guild = g /\ sync'.left = Races /\ sync'.listed = listed
            BY <1>2, <2>1 DEF Sync
        <3>2. ASSUME NEW r \in Races, row[g][r] # 0, Live(row[g][r])'
              PROVE  listed[row[g][r]] # "none"
            <4>1. row[g][r] \in EventIds
                BY <1>2, <3>2 DEF IInv, TypeOK
            <4>2. event[row[g][r]].guild = g
                BY <1>2, <3>2 DEF IInv, RowIsOfItsRace
            <4> QED BY <1>2, <1>3, <3>2, <4>1, <4>2 DEF Live
        <3> QED BY <1>2, <3>1, <3>2 DEF ListIsRight
    <2>2. CASE sync' = [sync EXCEPT !.todo = @ \ {g}]
        <3>1. sync'.pc = "guild"
            BY <1>2, <2>2 DEF Sync
        <3> QED BY <3>1 DEF ListIsRight
    <2> QED BY <1>1, <2>1, <2>2 DEF listed
<1>5. UNCHANGED troubles \/ Trouble
    BY DEF NextGuild
<1> QED BY <1>2, <1>4, <1>5, SameEventsFade, FadingLostInv

LEMMA LoadLostInv ==
    ASSUME IInv, LostInv, Load \/ guild_criteria \/ Done \/ GuildDone
    PROVE  LostInv'
<1>1. sync \in Sync /\ Resting \in Sync /\ Resting.pc = "idle"
    BY RestingType DEF IInv, TypeOK
<1>2. event' = event /\ row' = row /\ (UNCHANGED troubles \/ Trouble)
    BY DEF Load, guild_criteria, Done, GuildDone
<1>3. sync' = sync \/ (sync.pc # "row" /\ sync'.pc \in {"idle", "guilds", "guild"})
    BY <1>1 DEF Load, guild_criteria, Done, GuildDone, Sync
<1>4. sync' = sync \/ (sync.pc # "row" /\ sync'.pc # "row" /\ ListIsRight')
    BY <1>3 DEF ListIsRight
<1> QED BY <1>2, <1>4, SameEventsFade, FadingLostInv

\* The worker goes on to the next race, and no event came alive.
LEMMA NextRaceLostInv ==
    ASSUME IInv, LostInv, NEW r \in Races, AtRace(r), Fading, row' = row,
           sync' = NextRace(r), UNCHANGED troubles \/ Trouble
    PROVE  LostInv'
<1>1. /\ sync.pc = "races" /\ sync.guild \in Guilds /\ sync.left \subseteq Races
      /\ sync'.pc = "races" /\ sync'.guild = sync.guild /\ sync'.left \subseteq sync.left
      /\ sync'.listed = sync.listed
    BY DEF IInv, TypeOK, AtRace, NextRace, Sync
<1>2. \A q \in Races : row[sync.guild][q] # 0 => row[sync.guild][q] \in EventIds
    BY <1>1 DEF IInv, TypeOK
<1>3. ListIsRight'
    BY <1>1, <1>2 DEF ListIsRight, LostInv, Fading
<1> QED BY <1>1, <1>3, FadingLostInv

\* An event that ends, or says something else.
LEMMA EventFades ==
    ASSUME TypeOK, NEW e \in EventIds, NEW x,
           x.guild = event[e].guild, x.race = event[e].race,
           x.status \in {event[e].status, "over"},
           event' = event \/ event' = [event EXCEPT ![e] = x]
    PROVE  Fading
<1>1. CASE event' = event
    BY <1>1, SameEventsFade
<1>2. CASE event' = [event EXCEPT ![e] = x]
    <2>1. \A f \in EventIds : event'[f] = IF f = e THEN x ELSE event[f]
        BY <1>2 DEF TypeOK
    <2> QED BY <2>1 DEF Fading, Kept, Live
<1> QED BY <1>1, <1>2

LEMMA EndLostInv ==
    ASSUME IInv, LostInv, NEW r \in Races, End(r) \/ Leave(r) \/ Update(r)
    PROVE  LostInv'
<1>1. AtRace(r) /\ row' = row /\ sync' = NextRace(r) /\ (UNCHANGED troubles \/ Trouble)
    BY DEF End, Leave, Update
<1>2. CASE End(r)
    <2>1. Existing(r) \in EventIds
        BY <1>2, ExistingType DEF End
    <2>2. event' = event \/ event' = Ended(Existing(r))
        BY <1>2 DEF End
    <2> DEFINE x == [event[Existing(r)] EXCEPT !.status = "over"]
    <2>3. /\ x.guild = event[Existing(r)].guild /\ x.race = event[Existing(r)].race
          /\ x.status = "over"
        BY <2>1 DEF IInv, TypeOK, Event
    <2>4. Ended(Existing(r)) = [event EXCEPT ![Existing(r)] = x]
        BY DEF Ended
    <2> HIDE DEF x
    <2>5. Fading
        BY <2>1, <2>2, <2>3, <2>4, EventFades DEF IInv
    <2> QED BY <1>1, <2>5, NextRaceLostInv
<1>3. CASE Leave(r)
    BY <1>1, <1>3, SameEventsFade, NextRaceLostInv DEF Leave
<1>4. CASE Update(r)
    <2> DEFINE e == Existing(r)
               content == sync.infos[r].content
    <2>1. e \in EventIds
        BY <1>4, ExistingType DEF Update
    <2>2. event' = event \/ event' = [event EXCEPT ![e].content = content]
        BY <1>4 DEF Update
    <2> HIDE DEF e, content
    <2> DEFINE x == [event[e] EXCEPT !.content = content]
    <2>3. x.guild = event[e].guild /\ x.race = event[e].race /\ x.status = event[e].status
        BY <2>1 DEF IInv, TypeOK, Event
    <2>4. event' = event \/ event' = [event EXCEPT ![e] = x]
        BY <2>2
    <2> HIDE DEF x
    <2>5. Fading
        BY <2>1, <2>3, <2>4, EventFades DEF IInv
    <2> QED BY <1>1, <2>5, NextRaceLostInv
<1> QED BY <1>2, <1>3, <1>4

\* An event is created when the row of its race leads to none that is alive;
\* the note leads to it, or a failure was counted.
LEMMA CreateLostInv ==
    ASSUME IInv, LostInv, NEW r \in Races, Create(r)
    PROVE  LostInv'
<1>1. /\ FreeId \in EventIds /\ ~Live(FreeId)
      /\ \A g \in Guilds, q \in Races : row[g][q] # FreeId
    <2>1. FreeId \in Free
        BY DEF Create, FreeId
    <2> QED BY <2>1 DEF Free
<1>2. /\ sync \in Sync /\ sync.pc = "races" /\ sync.guild \in Guilds
      /\ sync.left \subseteq Races /\ r \in sync.left
    BY DEF IInv, TypeOK, Sync, Create, AtRace
<1> DEFINE noted == [sync EXCEPT !.pc = "row", !.race = r, !.made = FreeId]
           x == [status |-> IF sync.infos[r].content.start = now THEN "active" ELSE "scheduled",
                 guild |-> sync.guild, race |-> r,
                 content |-> [sync.infos[r].content EXCEPT !.comms = FALSE]]
<1>3. x.guild = sync.guild /\ x.race = r /\ Created(r) = [event EXCEPT ![FreeId] = x]
    BY DEF Created
<1>4. /\ noted.pc = "row" /\ noted.race = r /\ noted.made = FreeId
      /\ noted.guild = sync.guild /\ noted.left = sync.left /\ noted.listed = sync.listed
    BY <1>2 DEF Sync
<1>5. \/ event' = Created(r) /\ UNCHANGED troubles /\ sync' = noted
      \/ (event' = event \/ event' = Created(r)) /\ Trouble /\ sync' = NextRace(r)
    BY DEF Create
<1>6. row' = row
    BY DEF Create
<1> HIDE DEF noted, x
<1>7. ASSUME NEW e \in EventIds, e # FreeId
      PROVE  event'[e] = event[e]
    BY <1>1, <1>3, <1>5, <1>7 DEF IInv, TypeOK
<1>8. \A g \in Guilds, q \in Races : LET e == row[g][q] IN
        e # 0 => e \in EventIds /\ event'[e] = event[e]
    BY <1>1, <1>7 DEF IInv, TypeOK
<1>9. /\ sync'.pc \in {"races", "row"} /\ sync'.guild = sync.guild
      /\ sync'.left \subseteq sync.left /\ sync'.listed = sync.listed
    BY <1>2, <1>4, <1>5 DEF NextRace, Sync
<1>10. ListIsRight'
    BY <1>2, <1>6, <1>8, <1>9 DEF ListIsRight, LostInv, Live
<1>11. NoteIsAlone'
    <2>1. CASE sync' = noted
        <3>1. row[sync.guild][r] # 0 => sync.listed[row[sync.guild][r]] = "none"
            BY DEF Create, Existing
        <3>2. row[sync.guild][r] # 0 => ~Live(row[sync.guild][r])
            BY <1>2, <3>1 DEF ListIsRight, LostInv
        <3> QED BY <1>2, <1>4, <1>6, <1>8, <2>1, <3>2 DEF NoteIsAlone, Live
    <2>2. CASE sync' = NextRace(r)
        <3>1. sync'.pc = "races"
            BY <1>2, <2>2 DEF NextRace, Sync
        <3> QED BY <3>1 DEF NoteIsAlone
    <2> QED BY <1>5, <2>1, <2>2
<1>12. LostAreCounted'
    <2>1. \A g \in Guilds, q \in Races : Noted(g, q) = {}
        BY <1>2 DEF Noted
    <2>2. ASSUME NEW g \in Guilds, NEW q \in Races
          PROVE  EventsFor(g, q)' \subseteq EventsFor(g, q) \cup {FreeId}
        BY <1>7 DEF EventsFor, Live
    <2>3. CASE sync' = noted /\ event' = Created(r) /\ UNCHANGED troubles
        <3>1. ASSUME NEW g \in Guilds, NEW q \in Races
              PROVE  Lost(g, q)' \subseteq Lost(g, q)
            <4>1. event'[FreeId] = x
                BY <1>1, <1>3, <2>3 DEF IInv, TypeOK
            <4>2. FreeId \in EventsFor(g, q)' => FreeId \in Noted(g, q)'
                BY <1>3, <1>4, <2>3, <4>1 DEF EventsFor, Noted
            <4> QED BY <1>6, <2>1, <2>2, <4>2 DEF Lost
        <3> QED BY <2>3, <3>1, LoseAtMostOne DEF LostInv
    <2>4. CASE Trouble
        <3>1. ASSUME NEW g \in Guilds, NEW q \in Races
              PROVE  Lost(g, q)' \subseteq Lost(g, q) \cup {FreeId}
            BY <1>6, <2>1, <2>2 DEF Lost
        <3>2. troubles' = troubles + 1
            BY <2>4 DEF Trouble
        <3> QED BY <3>1, <3>2, LoseAtMostOne DEF LostInv
    <2> QED BY <1>5, <2>3, <2>4
<1> QED BY <1>10, <1>11, <1>12 DEF LostInv

\* The row takes over from the note, or the event is lost.
LEMMA SaveRowLostInv ==
    ASSUME IInv, LostInv, SaveRow
    PROVE  LostInv'
<1>1. /\ sync \in Sync /\ sync.pc = "row" /\ sync.guild \in Guilds /\ sync.race \in Races
      /\ sync.left \subseteq Races
    BY DEF IInv, TypeOK, Sync, SaveRow
<1>2. /\ sync'.pc = "races" /\ sync'.guild = sync.guild
      /\ sync'.left = sync.left \ {sync.race} /\ sync'.listed = sync.listed
    BY <1>1 DEF SaveRow, Sync
<1>3. \/ row' = [row EXCEPT ![sync.guild][sync.race] = sync.made] /\ UNCHANGED troubles
      \/ row' = row /\ Trouble
    BY DEF SaveRow
<1>4. event' = event
    BY DEF SaveRow
<1>5. \A g \in Guilds, r \in Races :
        g # sync.guild \/ r # sync.race => row'[g][r] = row[g][r]
    BY <1>3 DEF IInv, TypeOK
<1>6. ListIsRight'
    BY <1>1, <1>2, <1>4, <1>5 DEF ListIsRight, LostInv, Live
<1>7. NoteIsAlone'
    BY <1>2 DEF NoteIsAlone
<1>8. ASSUME NEW g \in Guilds, NEW r \in Races
      PROVE  EventsFor(g, r)' = EventsFor(g, r) /\ Noted(g, r)' = {}
    BY <1>2, <1>4 DEF EventsFor, Live, Noted
<1>9. LostAreCounted'
    <2>1. CASE row' = [row EXCEPT ![sync.guild][sync.race] = sync.made] /\ UNCHANGED troubles
        <3>1. ASSUME NEW g \in Guilds, NEW r \in Races
              PROVE  Lost(g, r)' \subseteq Lost(g, r)
            <4>1. CASE g = sync.guild /\ r = sync.race
                <5>1. row'[g][r] = sync.made /\ Noted(g, r) = {sync.made}
                    BY <1>1, <2>1, <4>1 DEF IInv, TypeOK, Noted
                <5>2. row[g][r] # 0 => ~Live(row[g][r])
                    BY <1>1, <4>1 DEF LostInv, NoteIsAlone
                <5>3. 0 \notin EventIds
                    BY DataAssumption DEF DataAssumption
                <5>4. row[g][r] \notin EventsFor(g, r)
                    BY <5>2, <5>3 DEF EventsFor
                <5> QED BY <1>8, <5>1, <5>4 DEF Lost
            <4>2. CASE g # sync.guild \/ r # sync.race
                BY <1>5, <1>8, <4>2 DEF Lost, Noted
            <4> QED BY <4>1, <4>2
        <3> QED BY <2>1, <3>1, LoseAtMostOne DEF LostInv
    <2>2. CASE row' = row /\ Trouble
        <3>1. ASSUME NEW g \in Guilds, NEW r \in Races
              PROVE  Lost(g, r)' \subseteq Lost(g, r) \cup {sync.made}
            BY <1>8, <2>2 DEF Lost, Noted
        <3>2. troubles' = troubles + 1
            BY <2>2 DEF Trouble
        <3> QED BY <3>1, <3>2, LoseAtMostOne DEF LostInv
    <2> QED BY <1>3, <2>1, <2>2
<1> QED BY <1>6, <1>7, <1>9 DEF LostInv

LEMMA NextLostInv == IInv /\ LostInv /\ [Next]_vars => LostInv'
<1> SUFFICES ASSUME IInv, LostInv, [Next]_vars PROVE LostInv'
    OBVIOUS
<1>1. CASE Users
    BY <1>1, UsersLostInv
<1>2. CASE Tick \/ Restart
    BY <1>2, TickLostInv, RestartLostInv
<1>3. CASE sync_race_status
    BY <1>3, LoadLostInv, NextGuildLostInv, EndLostInv, CreateLostInv, SaveRowLostInv
       DEF sync_race_status
<1>4. CASE UNCHANGED vars
    BY <1>4, SameEventsFade, FadingLostInv DEF vars
<1> QED BY <1>1, <1>2, <1>3, <1>4 DEF Next

\* A guild has one event for a race, and one more for each failure, whatever
\* users and moderators do between the calls of the worker.  The list of events
\* it works from may be old, but it never misses one that a row leads to.
THEOREM OneEvent == Spec => []OneEventEach
<1>1. ASSUME IInv, LostInv PROVE OneEventEach
    <2> SUFFICES ASSUME NEW g \in Guilds, NEW r \in Races
                 PROVE  Cardinality(EventsFor(g, r)) <= 1 + troubles
        BY DEF OneEventEach
    <2>1. IsFiniteSet(Lost(g, r)) /\ Cardinality(Lost(g, r)) <= troubles /\ troubles \in Nat
        BY <1>1 DEF LostInv, LostAreCounted, IInv, TypeOK
    <2>2. Cardinality(Lost(g, r)) \in Nat
        BY <2>1, FS_CardinalityType
    <2>3. 0 \notin EventIds
        BY DataAssumption DEF DataAssumption
    <2>4. PICK x : EventsFor(g, r) \subseteq Lost(g, r) \cup {x}
        <3>1. CASE row[g][r] \in EventsFor(g, r)
            <4>1. Noted(g, r) = {}
                BY <1>1, <2>3, <3>1 DEF LostInv, NoteIsAlone, EventsFor, Noted
            <4> QED BY <4>1 DEF Lost
        <3>2. CASE row[g][r] \notin EventsFor(g, r)
            BY <3>2 DEF Lost, Noted
        <3> QED BY <3>1, <3>2
    <2>5. /\ IsFiniteSet(Lost(g, r) \cup {x})
          /\ Cardinality(Lost(g, r) \cup {x}) =
                IF x \in Lost(g, r) THEN Cardinality(Lost(g, r)) ELSE Cardinality(Lost(g, r)) + 1
        BY <2>1, FS_AddElement
    <2>6. /\ IsFiniteSet(EventsFor(g, r))
          /\ Cardinality(EventsFor(g, r)) <= Cardinality(Lost(g, r) \cup {x})
        BY <2>4, <2>5, FS_Subset
    <2>7. Cardinality(EventsFor(g, r)) \in Nat
        BY <2>6, FS_CardinalityType
    <2> QED BY <2>1, <2>2, <2>5, <2>6, <2>7
<1>2. Spec => [](IInv /\ LostInv)
    <2>1. Init => IInv /\ LostInv
        BY InitIInv, InitLostInv
    <2>2. IInv /\ LostInv /\ [Next]_vars => (IInv /\ LostInv)'
        BY NextIInv, NextLostInv
    <2> QED BY <2>1, <2>2, PTL DEF Spec
<1> QED BY <1>1, <1>2, PTL

=============================================================================
