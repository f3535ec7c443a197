---------------------------- MODULE RaceEvents ----------------------------
(***************************************************************************)
(* The helper bot keeps, in every Discord server (guild) it is in, one     *)
(* scheduled event for every scheduled race the guild cares about.  On     *)
(* every tick its worker takes a snapshot of the races of the season and   *)
(* of the guilds' criteria, and then goes through guilds and races one     *)
(* call at a time: it creates, updates, completes or cancels the event     *)
(* and remembers its id in a `race_events` row.  Races, criteria and the   *)
(* events themselves change while it does.                                 *)
(*                                                                         *)
(* Discord is external: an event begins at its time, ends Length later,    *)
(* is never given a time in the past, keeps its time once it has begun,    *)
(* and can only be cancelled before it begins and completed after.         *)
(***************************************************************************)
EXTENDS Naturals, FiniteSets

CONSTANTS
    Races,        \* races that have a bracket_race_infos row
    Guilds,       \* guilds the helper bot may be in
    Main,         \* the league's own guild, which gets every race
    Criteria,     \* criteria guilds may set
    PlayersOf,    \* the two players of each race
    Times,        \* times a race can be scheduled for
    MaxTime,      \* bound: the clock
    Length,       \* how long an event lasts
    EventIds,     \* bound: ids of events on Discord; that of an event which
                  \* is over and forgotten is used again
    MaxChanges,   \* bound: commands of users
    MaxTroubles   \* bound: failed calls, restarts

\* A criterion about no player in particular.
AnyPlayer == "any_player"

ASSUME DataAssumption ==
    /\ Main \in Guilds /\ Races # {} /\ Times # {}
    /\ Times \subseteq Nat /\ Length \in Nat \ {0} /\ EventIds \subseteq Nat \ {0}
    /\ \A c \in Criteria : c.restream \subseteq BOOLEAN
    /\ MaxTime \in Nat /\ MaxChanges \in Nat /\ MaxTroubles \in Nat

VARIABLES
    race,      \* race[r]: what the tables say of a race
    started,   \* whether the season is in state Started
    criteria,  \* criteria[g]: the criteria of guild g
    joined,    \* guilds in the bot's cache
    now,       \* the clock
    event,     \* event[e]: the scheduled event e on Discord
    row,       \* row[g][r]: the id in the race_events row; 0: there is none
    sync,      \* the worker
    changes,   \* these two only carry the bounds
    troubles

users == <<race, started, criteria>>
vars == <<users, joined, now, event, row, sync, changes, troubles>>

-----------------------------------------------------------------------------
(* Types.                                                                  *)

\* What an event says: when it is, where (on a restream or not), and whether
\* it names commentators.  Names of players and channels are left out.
Content == [start : Times, restream : BOOLEAN, comms : BOOLEAN]

Race == [state : {"New", "Scheduled", "Finished"}, content : Content]

Event == [status : {"none", "scheduled", "active", "over"}, guild : Guilds,
          race : Races, content : Content]

SomeTime == CHOOSE t \in Times : TRUE
Nothing == [start |-> SomeTime, restream |-> FALSE, comms |-> FALSE]
NoEvent == [status |-> "none", guild |-> Main, race |-> CHOOSE r \in Races : TRUE,
            content |-> Nothing]

\* The worker: infos and criteria are its snapshots, listed the events Discord
\* listed for the guild, with their status; made the event just created.
Sync == [pc : {"idle", "guilds", "guild", "races", "row"},
         infos : [Races -> Race], criteria : [Guilds -> SUBSET Criteria],
         todo : SUBSET Guilds, guild : Guilds, left : SUBSET Races, race : Races,
         listed : [EventIds -> {"none", "scheduled", "active"}], made : EventIds \cup {0}]

Unlisted == [e \in EventIds |-> "none"]

Resting == [pc |-> "idle", infos |-> [r \in Races |-> [state |-> "New", content |-> Nothing]],
            criteria |-> [g \in Guilds |-> {}], todo |-> {}, guild |-> Main, left |-> {},
            race |-> CHOOSE r \in Races : TRUE, listed |-> Unlisted, made |-> 0]

TypeOK ==
    /\ race \in [Races -> Race]
    /\ started \in BOOLEAN
    /\ criteria \in [Guilds -> SUBSET Criteria] /\ criteria[Main] = {}
    /\ joined \subseteq Guilds
    /\ now \in 0..MaxTime
    /\ event \in [EventIds -> Event]
    /\ row \in [Guilds -> [Races -> EventIds \cup {0}]]
    /\ sync \in Sync
    /\ changes \in 0..MaxChanges /\ troubles \in 0..MaxTroubles

Init ==
    /\ race = [r \in Races |-> [state |-> "New", content |-> Nothing]]
    /\ started = TRUE
    /\ criteria = [g \in Guilds |-> {}]
    /\ joined = {}
    /\ now = 0
    /\ event = [e \in EventIds |-> NoEvent]
    /\ row = [g \in Guilds |-> [r \in Races |-> 0]]
    /\ sync = Resting
    /\ changes = 0 /\ troubles = 0

Live(e) == event[e].status \in {"scheduled", "active"}

-----------------------------------------------------------------------------
(* Users, time and the gateway.                                            *)

Change == changes < MaxChanges /\ changes' = changes + 1
Elsewhere == UNCHANGED <<joined, now, event, row, sync, troubles>>

\* The commentators who signed up for another time are forgotten.
ScheduleRace(r) ==
    /\ Change /\ race[r].state # "Finished"
    /\ \E when \in Times :
        race' = [race EXCEPT ![r].state = "Scheduled", ![r].content.start = when,
                             ![r].content.comms = FALSE]
    /\ UNCHANGED <<started, criteria>> /\ Elsewhere

Signup(r) ==
    /\ Change /\ race[r].state = "Scheduled" /\ ~race[r].content.comms
    /\ race' = [race EXCEPT ![r].content.comms = TRUE]
    /\ UNCHANGED <<started, criteria>> /\ Elsewhere

SetRestream(r) ==
    /\ Change /\ race[r].state = "Scheduled"
    /\ race' = [race EXCEPT ![r].content.restream = TRUE]
    /\ UNCHANGED <<started, criteria>> /\ Elsewhere

Report(r) ==
    /\ Change /\ race[r].state # "Finished"
    /\ race' = [race EXCEPT ![r].state = "Finished"]
    /\ UNCHANGED <<started, criteria>> /\ Elsewhere

\* The league's own guild cannot be filtered.
handle_add_criteria(g) ==
    /\ Change /\ g # Main
    /\ \E c \in Criteria \ criteria[g] : criteria' = [criteria EXCEPT ![g] = @ \cup {c}]
    /\ UNCHANGED <<race, started>> /\ Elsewhere

handle_remove_criteria(g) ==
    /\ Change /\ g # Main
    /\ \E c \in criteria[g] : criteria' = [criteria EXCEPT ![g] = @ \ {c}]
    /\ UNCHANGED <<race, started>> /\ Elsewhere

\* A season is finished when its races are.
FinishSeason ==
    /\ Change /\ started /\ \A r \in Races : race[r].state = "Finished"
    /\ started' = FALSE
    /\ UNCHANGED <<race, criteria>> /\ Elsewhere

Join(g) ==
    /\ g \notin joined /\ joined' = joined \cup {g}
    /\ UNCHANGED <<users, now, event, row, sync, changes, troubles>>

\* A moderator of the guild deletes an event.
Delete(e) ==
    /\ Change /\ Live(e)
    /\ event' = [event EXCEPT ![e].status = "over"]
    /\ UNCHANGED <<users, joined, now, row, sync, troubles>>

\* Discord begins and ends events.
StatusAt(t, e) ==
    LET start == event[e].content.start IN
    IF ~Live(e) THEN event[e].status
    ELSE IF t >= start + Length THEN "over"
    ELSE IF t >= start THEN "active" ELSE event[e].status

Tick ==
    /\ now < MaxTime /\ now' = now + 1
    /\ event' = [e \in EventIds |-> [event[e] EXCEPT !.status = StatusAt(now + 1, e)]]
    /\ UNCHANGED <<users, joined, row, sync, changes, troubles>>

Trouble == troubles < MaxTroubles /\ troubles' = troubles + 1

\* The worker stops wherever it is; the cache is empty until guilds come in.
Restart ==
    /\ Trouble
    /\ sync' = Resting /\ joined' = {}
    /\ UNCHANGED <<users, now, event, row, changes>>

-----------------------------------------------------------------------------
(* What an event should look like.                                         *)

race_is_interesting(cs, r, bri) ==
    \E c \in cs :
        /\ c.player = AnyPlayer \/ c.player \in PlayersOf[r]
        /\ bri.content.restream \in c.restream

\* Some content is wanted: the race is scheduled and the guild wants it.
Wanted(g, r, bri, cs) ==
    /\ bri.state = "Scheduled"
    /\ g = Main \/ race_is_interesting(cs, r, bri)

\* (Broken variant: descriptions are not compared.)
MatchButComms(there, wanted) == there.start = wanted.start /\ there.restream = wanted.restream

\* An event is created without a description, so that one which should have
\* commentators does not match until the next tick.
events_match(there, wanted) == there = wanted

\* What Discord makes of a new time, and of a new status.
Takes(e, content) ==
    \/ content.start = event[e].content.start
    \/ event[e].status = "scheduled" /\ content.start >= now

-----------------------------------------------------------------------------
(* The worker.                                                             *)

Quiet == UNCHANGED <<users, joined, now, changes>>

\* get_season_race_info: if anything goes wrong with any one race, there is no
\* sync.  (race_events rows are read here too; only this worker writes them.)
Load ==
    /\ sync.pc = "idle"
    /\ \/ sync' = [Resting EXCEPT !.pc = "guilds", !.infos = race,
                                  !.left = IF started THEN Races ELSE {}] /\ UNCHANGED troubles
       \/ UNCHANGED sync /\ Trouble
    /\ UNCHANGED <<event, row>> /\ Quiet

\* One guild's criteria are as good as none when there are no races.
guild_criteria ==
    /\ sync.pc = "guilds"
    /\ \/ /\ sync' = IF sync.left = {} THEN Resting
                     ELSE [sync EXCEPT !.pc = "guild", !.criteria = criteria, !.todo = joined]
          /\ UNCHANGED troubles
       \/ sync' = Resting /\ Trouble
    /\ UNCHANGED <<event, row>> /\ Quiet

\* The main guild goes first, the others in any order.
NextGuild ==
    /\ sync.pc = "guild" /\ sync.todo # {}
    /\ \E g \in sync.todo :
        /\ Main \in sync.todo => g = Main
        /\ \/ /\ sync' = [sync EXCEPT !.pc = "races", !.todo = @ \ {g}, !.guild = g, !.left = Races,
                    !.listed = [e \in EventIds |->
                        IF Live(e) /\ event[e].guild = g THEN event[e].status ELSE "none"]]
              /\ UNCHANGED troubles
           \/ sync' = [sync EXCEPT !.todo = @ \ {g}] /\ Trouble
    /\ UNCHANGED <<event, row>> /\ Quiet

Done ==
    /\ sync.pc = "guild" /\ sync.todo = {}
    /\ sync' = Resting
    /\ UNCHANGED <<event, row, troubles>> /\ Quiet

\* The event of the row, if the guild lists it; 0: there is none.
\* (Broken variant: only an event that has not begun counts.)
ExistingScheduled(r) ==
    LET e == row[sync.guild][r] IN
    IF e # 0 /\ sync.listed[e] = "scheduled" THEN e ELSE 0

Existing(r) ==
    LET e == row[sync.guild][r] IN
    IF e # 0 /\ sync.listed[e] # "none" THEN e ELSE 0

\* The worker turns to a race; what is wanted of it is in the snapshots.
AtRace(r) == sync.pc = "races" /\ r \in sync.left
WantedNow(r) == Wanted(sync.guild, r, sync.infos[r], sync.criteria[sync.guild])
NextRace(r) == [sync EXCEPT !.left = @ \ {r}]

Ended(e) == [event EXCEPT ![e].status = "over"]

\* The status asked for depends on what was listed: Discord refuses it when
\* the event has begun, or is over, in the meantime.  The row is saved again
\* with the id it has.
End(r) ==
    LET e == Existing(r) IN
    /\ AtRace(r) /\ ~WantedNow(r) /\ e # 0
    /\ \/ /\ event' = IF event[e].status = sync.listed[e] THEN Ended(e) ELSE event
          /\ UNCHANGED troubles
       \/ event' \in {event, Ended(e)} /\ Trouble /\ (event' = event \/ event[e].status = sync.listed[e])
    /\ sync' = NextRace(r)
    /\ UNCHANGED row /\ Quiet

Update(r) ==
    LET e == Existing(r)
        content == sync.infos[r].content
        updated == IF Live(e) /\ Takes(e, content)
                   THEN [event EXCEPT ![e].content = content] ELSE event IN
    /\ AtRace(r) /\ WantedNow(r) /\ e # 0 /\ ~events_match(event[e].content, content)
    /\ \/ event' = updated /\ UNCHANGED troubles
       \/ event' \in {event, updated} /\ Trouble
    /\ sync' = NextRace(r)
    /\ UNCHANGED row /\ Quiet

\* Nothing to do; or the event would be in the past.
Leave(r) ==
    LET e == Existing(r)
        content == sync.infos[r].content IN
    /\ AtRace(r)
    /\ IF WantedNow(r)
       THEN IF e # 0 THEN events_match(event[e].content, content) ELSE content.start < now
       ELSE e = 0
    /\ sync' = NextRace(r)
    /\ UNCHANGED <<event, row, troubles>> /\ Quiet

\* Ids of events that are over and in no row.
Free == {e \in EventIds : ~Live(e) /\ \A g \in Guilds, r \in Races : row[g][r] # e}
FreeId == CHOOSE e \in Free : TRUE

Created(r) ==
    [event EXCEPT ![FreeId] = [status |-> IF sync.infos[r].content.start = now THEN "active" ELSE "scheduled",
                               guild |-> sync.guild, race |-> r,
                               content |-> [sync.infos[r].content EXCEPT !.comms = FALSE]]]

\* The event is created without a description.  When the answer is lost the
\* bot does not know of the event.
Create(r) ==
    /\ AtRace(r) /\ WantedNow(r) /\ Existing(r) = 0
    /\ sync.infos[r].content.start >= now
    /\ Free # {}
    /\ \/ /\ event' = Created(r) /\ UNCHANGED troubles
          /\ sync' = [sync EXCEPT !.pc = "row", !.race = r, !.made = FreeId]
       \/ event' \in {event, Created(r)} /\ Trouble /\ sync' = NextRace(r)
    /\ UNCHANGED row /\ Quiet

\* (Broken variants: a row that is there is left as it is; the row saved is
\* that of the league's own guild.)
SaveNewRow ==
    /\ sync.pc = "row"
    /\ row' = [row EXCEPT ![sync.guild][sync.race] = IF @ = 0 THEN sync.made ELSE @]
    /\ sync' = [sync EXCEPT !.pc = "races", !.left = @ \ {sync.race}, !.made = 0]
    /\ UNCHANGED <<event, troubles>> /\ Quiet

SaveMainRow ==
    /\ sync.pc = "row"
    /\ row' = [row EXCEPT ![Main][sync.race] = sync.made]
    /\ sync' = [sync EXCEPT !.pc = "races", !.left = @ \ {sync.race}, !.made = 0]
    /\ UNCHANGED <<event, troubles>> /\ Quiet

\* The row is inserted, or given the new id; a failure is only logged.
SaveRow ==
    /\ sync.pc = "row"
    /\ \/ row' = [row EXCEPT ![sync.guild][sync.race] = sync.made] /\ UNCHANGED troubles
       \/ UNCHANGED row /\ Trouble
    /\ sync' = [sync EXCEPT !.pc = "races", !.left = @ \ {sync.race}, !.made = 0]
    /\ UNCHANGED event /\ Quiet

GuildDone ==
    /\ sync.pc = "races" /\ sync.left = {}
    /\ sync' = [sync EXCEPT !.pc = "guild", !.listed = Unlisted]
    /\ UNCHANGED <<event, row, troubles>> /\ Quiet

-----------------------------------------------------------------------------
Users ==
    \/ \E r \in Races : ScheduleRace(r) \/ Signup(r) \/ SetRestream(r) \/ Report(r)
    \/ \E g \in Guilds : handle_add_criteria(g) \/ handle_remove_criteria(g) \/ Join(g)
    \/ FinishSeason
    \/ \E e \in EventIds : Delete(e)

sync_race_status ==
    \/ Load \/ guild_criteria \/ NextGuild \/ Done
    \/ \E r \in Races : End(r) \/ Update(r) \/ Leave(r) \/ Create(r)
    \/ SaveRow \/ GuildDone

Next == Users \/ Tick \/ Restart \/ sync_race_status

Spec == Init /\ [][Next]_vars

\* The worker's loop goes on.  Nobody has to do or type anything, and time
\* need not pass.
FairSpec == Spec /\ WF_vars(sync_race_status)

-----------------------------------------------------------------------------
(* Properties.                                                             *)

\* Live events for race r in guild g.
EventsFor(g, r) == {e \in EventIds : Live(e) /\ event[e].guild = g /\ event[e].race = r}

\* Members of a guild see one event for a race, whatever happens to the race
\* and the guild's criteria while the worker is at it: each further one is the
\* price of one call, save or process that failed between the creation of the
\* event and its row.
OneEventEach ==
    \A g \in Guilds, r \in Races : Cardinality(EventsFor(g, r)) <= 1 + troubles

\* A row leads to an event of its own guild and race, and so never to the end
\* of somebody else's event.
RowIsOfItsRace ==
    \A g \in Guilds, r \in Races :
        LET e == row[g][r] IN e # 0 => event[e].guild = g /\ event[e].race = r

\* Whether the event of race r in guild g is what it should be: it says what
\* the tables say, or, if the guild does not want the race or it is not
\* scheduled, there is none.  Discord does not let the time of an event that
\* has begun be changed, nor one in the past be announced.
InSync(g, r) ==
    LET e == row[g][r] IN
    IF Wanted(g, r, race[r], criteria[g])
    THEN \/ race[r].content.start < now
         \/ e # 0 /\ Live(e) /\ event[e].content = race[r].content
         \/ e # 0 /\ event[e].status = "active" /\ event[e].content.start # race[r].content.start
    ELSE e = 0 \/ ~Live(e)

\* "Events will get reliably updated on any relevant change": once users are
\* done (and while the season is on), every guild the bot is in has the events
\* it should have, even after failures and restarts.
EventsFollow == <>[](started => \A g \in joined, r \in Races : InSync(g, r))

=============================================================================
