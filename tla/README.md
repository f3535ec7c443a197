# NMG-League-Bot in TLA+

These modules model the NMG League bot (`src/`, Rust): the Discord bot that runs
the league's seasons, brackets and races, the bot that opens race rooms on
racetime.gg, the helper bot that keeps scheduled events in Discord servers, and
the workers that tie them to one SQLite database.

1. [The system](#the-system)
2. [Inventory](#inventory)
3. [Modules](#modules)
4. [Runs](#runs)
5. [Proofs](#proofs)
6. [Where code and comments disagree](#where-code-and-comments-disagree)
7. [What is not modelled](#what-is-not-modelled)
8. [Plan](#plan)

Run anything from this directory, for instance

    tlc -workers 2 -config async_safety.cfg MCAsyncRace
    tlapm AsyncRaceProofs.tla
    tlapm BracketRaceProofs.tla
    tlapm LeagueProofs.tla
    tlapm RaceRoomsProofs.tla
    tlapm RaceEventsProofs.tla
    tlapm ScannerProofs.tla
    tlapm PlayerInfoProofs.tla
    tlapm StandingsProofs.tla

`PROJECT.json` lists components, runs, theorems, hazards, for each definition
the source lines it models ("map"), and for each property a plausible bug of
the code that breaks it ("mutants"; the variants of definitions that a comment
calls *broken* are these bugs, and no specification uses them).

## The system

`main.rs` starts one process on a multi-threaded tokio runtime:

| Task | Source | What it does |
|---|---|---|
| Discord bot | `discord/bot.rs`, `discord/mod.rs`, `discord/interaction_handlers/` , `discord/reaction_handlers.rs` | one task per gateway event: slash commands, buttons, modals, reactions |
| helper bot | `discord/helper_bot/` | a second Discord account: criteria commands, and a cron worker that syncs scheduled events |
| async race worker | `workers/async_race_worker.rs` | sweeps the open asynchronous races: contacts racers, posts results |
| self-forfeiting worker | `workers/forfeit_own_races.rs` | gives up the runs the bot itself was entered in |
| racetime scanner | `workers/racetime_scanner_worker.rs`, `worker_funcs.rs` | polls racetime for finished rooms of the league's pairs of players |
| upcoming races worker | `workers/upcoming_races_worker.rs` | asks for a room shortly before a race |
| racetime bot | `racetime_bot/mod.rs` | opens rooms, and runs a Handler and a RaceController per room |
| web site, public and internal API | `web/` | pages, JSON, qualifier deletion, room requests |

There is no shared mutable state besides the database (SQLite behind a bb8 pool
of ten connections), a few channels, and the map of known rooms. What makes the
system hard is the way it uses the database. A handler reads a row into a
struct, awaits Discord, racetime or the pool, and calls `update` or `save`,
which **writes the whole row back** (diesel's `AsChangeset` writes every column
except those that are `None`, unless `treat_none_as_null` says otherwise).
Cancelling an asynchronous race, scheduling a race and generating pairings end in a
transaction, but they too decide on copies read before it. So two tasks that hold copies of one row
can undo each other's work; a crash or an error between a call to Discord and
the save that records it leaves the two sides different; and the periodic
workers have to repair that.

The models therefore have the same shape throughout: **one step for each
statement on the database and each call to the outside, with the copies that
tasks hold as part of the state.** Everything a task does between two awaits
without touching shared state is part of the step it precedes or follows.

### Interactions

    racer, admin --interaction--> Discord bot --row--> races, race_runs <--row-- async race worker
                                     |                                            self-forfeiting worker
                                     +--row--> bracket_races, bracket_race_infos, commentator_signups
                                     |            ^         ^            ^
                                     |   racetime scanner   |      helper bot worker --call--> scheduled events
                                     |            upcoming races worker
                                     |                      | mpsc (requests for rooms)
    internal API --mpsc----------------------------> create_rooms --mutex map--> Handler --mpsc--> RaceController
                                     +--row--> seasons, brackets, rounds, entries, qualifiers <-- public API

## Inventory

For each part of the system: its state, its operations, what is hard about it,
and what makes it correct. The name after the dash is the module that models it.

**Asynchronous races** (`models/asyncs.rs`, `workers/async_race_worker.rs`,
`workers/forfeit_own_races.rs`, `discord/mod.rs`, the buttons and modals in
`discord/bot.rs` and `application_commands.rs`) — `AsyncRace`.
State: one `races` row, two `race_runs` rows, the DMs with their buttons, the
modals in users' clients. Operations: create, cancel (with a confirmation that may take any
time), notify, start, finish, submit time, submit VoD, forfeit, the sweep, the self-forfeit.
Hard: eight kinds of task write the same rows from copies; the DM is sent before the
row knows it; a modal outlives the state it was opened in; results are posted
before the race is saved. Correct when a contacted racer has a button
that works, records only grow, results are posted from complete records, and no
race stays open for ever through the bot's fault.

**Bracket races** (`models/bracket_races.rs`, `models/bracket_race_infos.rs`,
`worker_funcs.rs`, the schedule, report, commentator and restream commands,
`reaction_handlers.rs`) — `BracketRace`. State: a race's row, its info row, its
signups, posts in four channels. Hard: schedule, report, scanner, reactions and
room creation all save whole rows; posts are deleted and replaced around the saves.
Correct when a finished race has a result and keeps one, posts say what
rows say, and nobody is signed up for a time that is off.

**Racetime scanner** (`workers/racetime_scanner_worker.rs`, `worker_funcs.rs`) — `Scanner`,
and, among the other writers of one race, `BracketRace`. State: a map from racetime names to due
races and players, loaded before racetime is asked; the list of rooms. Hard: the map has one race
per first player; entrants are taken in the order of a hash map and are gone once looked at; the
url and the results are saved apart, from the copies that were loaded. Correct when a race only
gets the link and the results of a room in which both players raced, one that can be told
apart is found while its room is on the page that is read, and an earlier report is not lost.

**Room requests** (`upcoming_races_worker.rs`, `web/internal_api.rs`,
`racetime_bot::create_rooms`) — `BracketRace`, `RaceRooms`. A bounded channel with two
senders that do not know of each other. Correct when requests are idempotent.

**Racetime bot** (`racetime_bot/mod.rs`) — `RaceRooms`. State: known slugs, per
room two tasks with two bounded channels. Hard: the Handler waits when
the channel of commands is full, the controller waits for an answer that only the Handler can
pass on, either may die first, and whether a room was set up is read off its
chat. Correct when players are told once of a room they can enter and no
task waits for ever.

**Seasons, brackets, rounds, entries** (`models/season.rs`,
`models/brackets.rs`, `models/bracket_rounds.rs`,
`models/player_bracket_entries.rs` and their commands) — `League`. Hard:
commands decide on copies; only the generation of pairings is a transaction, and it
still decides on a bracket read before. Correct when rounds follow each
other, pairings are sound whoever is entered meanwhile, and seasons and brackets only go forward.

**Qualifiers** (`models/qualifer_submission.rs`, `web/api.rs`) — `League`.
Submitted while the season's qualifiers are open, deleted until it starts.

**Scheduled events** (`discord/helper_bot/`, `models/race_events.rs`,
`models/guild_race_criteria.rs`) — `RaceEvents`. State: per guild and race a row
with the id of a Discord event, criteria, the events themselves, which begin
and end with time. Hard: the event exists before its row; snapshots are
several calls old; Discord refuses some changes. Correct when a guild sees one
event per race it wants, and in the end the right one.

**Standings and pages** (`models/brackets.rs`, `models/bracket_races.rs`, `web/mod.rs`) —
`Standings`. Results become an outcome, outcomes become points, ties are broken by averages
in which a forfeit is three hours. Hard: a page is read in several statements while rounds are
drawn and results corrected; three pages decide on their own who won. Correct when a page is
one of whole rounds, the pages agree, and a faster finish never costs a place.

**Players and user info** (`models/player.rs`, the commands in `application_commands.rs`,
`bin/update_player_rtgg_ids.rs`) — `PlayerInfo`. One row per person with five unique columns,
read before Twitch and racetime are asked and written back whole after. Correct when name and id are
of one account and no column is lost.

**Connection pool** (`db.rs`, `discord_state.rs`, and everybody who calls `diesel_cxn`) —
`ConnectionPool`, composed with `PlayerInfo`. Ten connections; handlers hold one while they await
other services and ask for a second and a third. Correct when every handler ends and none needs more than there are.

**The rest** — other web pages, login and sessions, Discord caches, command definitions,
the racetime token, start-up and shutdown, the other maintenance programs, migrations and
templates: not modelled; the reasons are under [What is not modelled](#what-is-not-modelled).

`PROJECT.json` lists 40 hazards, each at the line where it bites, with the
properties that watch it.

## Modules

| Module | What it is |
|---|---|
| `AsyncRace` | an asynchronous race, its tasks and their copies |
| `AsyncRaceContract` | what such a race promises; `AsyncRace` refines it |
| `AsyncRaceProofs` | theorems about the types, the record, the posts and the DMs of `AsyncRace`; it implements `AsyncRaceContract` |
| `BracketRace` | one race of a bracket, its info, posts, signups and rooms |
| `BracketRaceProofs` | results under any overlap; with one handler at a time also posts, signups and rooms, and the contract |
| `BracketRaceContract` | what players and standings rely on; `BracketRace` refines it while one handler runs at a time |
| `League` | seasons, brackets, rounds, entries, qualifiers |
| `LeagueContract` | how seasons and brackets advance; `League` refines it when closing commands run alone |
| `LeagueProofs` | first rounds and round robins under any overlap; order and the contract when closing commands run alone |
| `RaceRooms` | the racetime bot: room creation, Handlers, RaceControllers |
| `RaceRoomsProofs` | players who are told of a room can enter it, and are told once |
| `RaceEvents` | the helper bot's scheduled events |
| `RaceEventsProofs` | rows lead to events of their own guild and race, and a race has one event in a guild |
| `Scanner` | several due races, racetime rooms, and how the scanner tells them apart |
| `ScannerProofs` | links and results are of a room the players raced in |
| `Standings` | outcome, points and order, and the pages that show them |
| `StandingsProofs` | the pages agree, count whole rounds, take nothing back, and reward the faster |
| `ConnectionPool` | handlers as sequences of operations that take and give back connections |
| `PlayerInfo` | the table of players; extends `ConnectionPool`, whose handlers run beside its own |
| `PlayerInfoProofs` | name and id are of one account, fit the Twitch name, and no column is emptied; only a crowd of handlers is refused a connection |
| `MC...` | one module per specification that gives constants for TLC |

The modules meet at the rows: `League` counts a race as open until it is
finished, and `BracketRace` models how that comes about; `BracketRace` models
requests for rooms and one `RoomCreate` step, `RaceRooms` what that step and the
room after it consist of; `RaceEvents` takes the states and times that
`BracketRace` writes as its input; `Scanner` has several races where `BracketRace` has one with
all its posts; `Standings` starts from rounds and results that `League` and `BracketRace` produce, late saves included. They are checked apart, because each hides
from the others everything but those rows.

### AsyncRace

| Model | Code |
|---|---|
| `race`, `run[r]` | the `races` row and the `race_runs` rows; of the nullable columns only whether they are filled (`filled`), and `message_id` (`mid`) |
| `dm[r][m]` | the components that the m-th DM shows: start; finish and forfeit (`"running"`); submit VoD (`"vod_ready"`); none (`"plain"`) |
| `modal[r][c]` | the modal that client c has open; it stays when the run moves on |
| `creator`, `notif`, `sweep`, `cancel`, `own`, `hand` | the tasks, each with its `pc` and the copies it read |
| `Save(row, copy)` | `AsyncRaceRun::save`: diesel leaves columns alone that are `None` in the copy, so a stale copy takes the state back but erases no column |
| `CreateRace`, `AddRun`, `CreateFails` | `handle_create_race`: three inserts, no transaction |
| `NotifySelf/Send/Save/Fails` | `notify_racer`; the create command runs two at once, the sweep one after the other |
| `SweepLoad` ... `SweepSaveFails` | `sweep`, `handle_race`, `handle_finished_race`; any error of `get_runs` (fewer than two runs, a failed query) abandons a race, a missing connection leaves it for the next tick |
| `CancelRead` ... `CancelDone` | the cancel command with its confirmation through `twilight_standby`, `AsyncRace::cancel`, and the edits of the DMs |
| `OwnLoad`, `OwnSave` | `forfeit_own_races` |
| `Click`, `OpenModal`, `Submit`, `HandlerSave`, `HandlerRespond`, `HandlerFails` | the button and modal handlers; no handler checks the state of the run |
| `Restart` | the process dies and starts again |

### BracketRace

`race` and `info` are the rows, `signup` the one commentator's signup (with the
time it was made for), `post` the posts in the commentary channel, `reported`
the result last announced, `queue` the channel of room requests, `made` the
rooms opened, `page` the rooms of the two players on the first page of racetime's past rooms. A room counts only for
times up to three hours after it started (`CountsFor`, the check in `interesting_race`), so moving the race may put it out of
sight, and `OffThePage` is what happens when enough later rooms end. `task[t]` is a command or a reaction: `Schedule...`
(`_handle_schedule_race_cmd`, `schedule_race`, `BracketRace::schedule`),
`Report...`/`Finish`/`Announce` (`handle_report_race`, `trigger_race_finish`),
`Confirm...`, `Signup...`, `Restream...` (reactions), `SetRestream`, `RemoveReaction` and
`Commentators` (the remaining commands). `Scan...` is the racetime scanner,
`Upcoming`, `start_race_for`, `RoomTake/Create/Save` the way to a room. The
info row is declared `treat_none_as_null`, so, unlike a run, a
stale copy of it erases what others wrote. `MaxBusy` says how many tasks run at once.

### League

`season`, `bracket`, `entry`, `round`, `qualifiers` are the tables. A command
begins with what it reads (`Begin`), and each later statement is a step. Which
pairings the Swiss library picks is any perfect matching of
those who have not met, if the library finds one. `Alone` names the commands
that nothing else overlaps with; the league's properties under any overlap
are checked with the closing commands in it, and
`league_bracket_over` shows why they have to be.

### RaceRooms

`create_rooms`, `create_room_for_race`, `handle_one_bri`, `learn_about_bri` are the loop
that opens rooms; `StartHandler`, `Command`/`Unblock`, `chat_history`, `error`,
`StopHandler` the Handler; `gethistory`, `GotHistory`, `Greet`, `get_players`,
`Invite`, `SetOpen`, `Announce`, `SetupFails`, `handle_event`, `ControllerEnds` the
RaceController. The racetime library is external: `DropHandler` is its dropping a
handler whose connection breaks, `run_bot` a crash and a restart. `greeted` is
what gethistory sees.

### RaceEvents

`Load` is `get_season_race_info`, `guild_criteria` the snapshot of all
criteria, `NextGuild` the list of a guild's events; then for
each race of the snapshot `End`, `Update`, `Leave` or `Create` (the four branches
of `update_discord_events`) and `SaveRow`. Discord (events begin and end,
refuse a time in the past and other illegal changes, may be deleted by moderators) is external.

### Scanner

`StartRoom`, `EndRoom` and `OffThePage` (a room is pushed off the first page of past rooms, the only one asked for) are racetime; `schedule`, `report` and `NameIsKnown` what users do meanwhile.
`load` is the first half of `scan` with `races_by_player_rtgg` (any of the races that share a
first player may end up in the map: `Keyed`), `query` the answer of racetime, `next` one room of the list
with the checks of `interesting_race` that do not depend on the race, and
`interesting_race` one entrant: any that is left, since the order is that of a hash map. A match is
followed by `results`, `SaveInfo` and `trigger_race_finish`. As in the code, an entrant
who was looked at, or whose race has the other player missing, is not there for the next one.

### Standings

`bracket`, `entered` and `race` are tables, `page` is a standings page between two of its statements:
`LoadBracket`, `LoadPlayers`, `LoadRounds`, `LoadRacesOfRound` (once for each round), `Show`. `OutcomeOf`,
`points`, `opponent_points`, `time_adjusted`, `Key` and `Ahead` are the functions of the code over
a set of counted races; `history` and `DisplayRace` are how the player's page and the bracket's page see the same
row. `LateSave` is a handler that writes a state from before the report, and `Correct` a re-report. Times are
small numbers on both sides of `ForfeitTime`.

### ConnectionPool and PlayerInfo

A running handler is the sequence of what it has yet to do (`todo[h]`). A connection is given back when its guard leaves
its scope, so the connections held are those yet to be given back (`Held`). Every operation says how
many of the following ones an error skips: all but the end of the scope when the error
ends the handler, up to the end of the call when the caller logs it and goes on. `Page`, `Schedule`, `Signup`, `Confirmation`,
`Sweep` and `Scan` are the handlers that nest, with up to three connections at once. `PlayerInfo` adds the handlers that read and write
players; the commands that update, show and create them keep a connection across their calls to Twitch and racetime.
`LoadPlayers` and `SetId` are the program that looks up ids, which is run beside the bot
with a connection of its own.

## Runs

Every run ends within three minutes on two workers. "States" are distinct states.

| Run | States | Instance and question |
|---|---|---|
| `async_safety` | 725 087 | a racer and the bot itself, a cancel, at most one failed call or crash anywhere. `PostedOnce`, `RunnerCanGoOn`, `PostedResultsAreComplete`, `ImplementsContract`, `FinishedRaceIsClosed` |
| `async_live_contact` | 77 340 | failures, a crash and a cancel, up to five DMs, no clicks: `ContactedCanStart`, `RacerIsContacted`, `IncompleteRaceIsClosed`, `BotForfeits` |
| `race_serial` | 986 432 | any three commands and reactions one after the other, the scanner and the room loop in between, one failure and one restart: rows, posts, signups and rooms agree, the contract holds, and a played race is finished while its room is in sight: `FinishedHasResult`, `OneRoom`, `AnnouncedIsRecorded`, `SignupIsForTheScheduledTime`, `PostedIsRecorded`, `ImplementsContract`, `PlayedRaceIsFinished` |
| `race_outcome` | violation | `OutcomeOnlyWhenFinished` |
| `league_commands` | 1 510 718 | two commands at a time on two seasons, four players and two rounds: `TypeOK`, `NobodyIsLeftOut`, `EverybodyMeetsOnce`, `ImplementsContract` |
| `league_bracket_over` | violation | `FinishedBracketIsOver` |
| `rooms_handlers` | 179 099 | one room, two handlers, a channel of one command, one failure, broken connection or crash: `PlayersCanEnter`, `ToldOnce`, `HandlerGoesOn`, `ControllerFollows`, `RoomIsTakenUp` |
| `rooms_season` | violation | two races of two seasons: `RoomIsOfItsSeason` |
| `events_sync` | 233 816 | one race, the league's guild and one that filters, three changes by users anywhere between the worker's calls, one failure or restart: `OneEventEach`, `RowIsOfItsRace`, `EventsFollow` |
| `scanner` | 1 218 649 | three races among four players, one of whom has no racetime name at first, a room that two or three of them enter, three commands and one failure or crash anywhere: `UrlIsOfItsRace`, `ResultsAreOfOneRoom`, `FindableIsFound` |
| `standings` | 534 285 | a Swiss bracket of four and a round robin of three, two rounds, and one correction, entry or late save between any two statements of the pages: `PageIsOfWholeRounds`, `PagesAgree`, `FasterNeverRanksLower`, `PagesNeverGoBack` |
| `handlers` | 323 481 | three handlers of any kind, two at a time, on a pool of three connections, two people and two racetime accounts: `PairIsOfOneAccount`, `NothingIsForgotten`, `ToldAccountFits`, `RefusedOnlyInACrowd`, `HandlersEnd` |

### Bounds

* **Racers.** A race has two runs that meet only in the sweep (which wants both
  finished), in the create command and in the cancel command; one racer who clicks and
  one who is the bot keep those meetings and halve the rest. The proofs below are for two
  racers who click.
* **DMs.** A second DM is what makes the first stale; that needs a failure, or the
  create command and the sweep at the same time. More DMs repeat the second. The
  liveness run has five, so that the bound does not stop a retry, and two failures, so that the save of an abandoned
  race can fail too.
* **Troubles.** One failed call, crash or cancel at any point is what the
  handlers' error paths are for. Properties that count (`PostedOnce`, `OneRoom`,
  `ToldOnce`, `OneEventEach`) say what each further one may cost.
* **Slots, Tasks, MaxBusy.** Two tasks that hold copies of a row are enough for a stale
  write; a third writer (worker or loop) is there in every run that allows two.
* **MaxBegun** commands per history: three allow schedule, report, and a correction or
  a second schedule. `MaxRooms` and `MaxDM` refuse the next one, as
  Discord or racetime may; they never block a task.
* **Past rooms.** A page is whatever rooms are still on it, instead of a number: a room may drop off at any time. In
  `race_serial` the room with one result is too old for one of the two times, the other is not.
* **League.** Four players give two races per Swiss round and two rounds without
  a repeated pairing; two seasons give an active and a later one.
* **Channel.** Capacity 1 (10 in the code) with two commands fills it.
* **Pool.** The widest handler of the code holds three connections, the pool of the model has three and two
  handlers: enough for each to hold what the other waits for. The code's ten need five such handlers at once.
* **Rooms** in `Scanner`: a scan treats each room by itself, with the map it loaded once; what rooms may do to each
  other is to finish races whose copies the scan still has, which reports do in the model as well. The
  theorems are for any number of rooms.
* **Rounds** in `Standings`: two, so that the second may be half reported while the first is shown.
* **Time** in `RaceEvents`: times 1 and 2 and a clock that ends at 2 allow an
  event in the future, one that has begun, and one that is over.

### Fairness

Weak fairness is given to the bot's own tasks only: the workers, which loop on a
timer for as long as the process runs (`cron` in `workers/*.rs`, `launch` in
`helper_bot/mod.rs`), handlers that have begun, the Handler and the
RaceController, which tokio polls. The scanner's `ScanLoad` has strong fairness
because in a run with `MaxBusy = 1` commands take turns with it; the code's scanner needs no turn.
A handler of `ConnectionPool` takes its next step when it can: the pool refuses a request after its time limit (bb8's
`connection_timeout`, thirty seconds unless configured), and a call to Discord, Twitch or racetime is assumed to return or fail
some time; the code sets no limit of its own there. Otherwise nothing is assumed of users, admins, time, or the success of a call: a call may fail as
often as the bound allows, and the properties hold because failures end, not because a certain
step is lucky. No run uses a state constraint.

### Overlapping handlers

Several properties hold only while handlers of one race do not overlap, and
say so in their comment: `RunnerCanGoOn` (one interaction of a racer at a
time), the properties of `race_serial` (one command at a time), and the contract of
`League` (closing commands alone). The code has no lock that makes it so; it is
how the bot is used. What still holds when they overlap is in the theorems, which allow any number of
overlapping tasks (`RecordsAreKept`, `ResultsAreComplete`, `ContactedRacersCanStart`, `RefinesContract`,
`FinishedRacesHaveResults`, `ResultsAreKept`), and in `league_commands`; the theorems `ContractKept` to `SignupsUnlessOverlap` say
which overlaps may break the properties of `race_serial`; the violation runs and
the list below show what does not. The properties of `Scanner`, `Standings` and `PlayerInfo` need no such
restriction: commands there overlap with everything.

## Proofs

| Theorem | Statement | Module |
|---|---|---|
| `TypeCorrect` | `Spec => []TypeOK` | `AsyncRaceProofs` |
| `RecordsAreKept` | `Spec => []RecordInv` | `AsyncRaceProofs` |
| `ResultsAreComplete` | `Spec => []PostedResultsAreComplete` | `AsyncRaceProofs` |
| `RefinesContract` | `Spec => ImplementsContract` | `AsyncRaceProofs` |
| `ResultIsPostedOnce` | `Spec => []PostedOnce` | `AsyncRaceProofs` |
| `MessagesAreApart` | `Spec => []MessageInv` | `AsyncRaceProofs` |
| `ContactedRacersCanStart` | `Spec => []ContactedCanStart` | `AsyncRaceProofs` |
| `RunsHaveMessages` | `Spec => []RunHasMessage` | `AsyncRaceProofs` |
| `RunnersCanGoOn` | `Spec => []RunnerCanGoOn`, if `Slots` and `Clients` have one element at most | `AsyncRaceProofs` |
| `TypeCorrect` | `Spec => []TypeOK` | `BracketRaceProofs` |
| `FinishedRacesHaveResults` | `Spec => []FinishedHasResult` | `BracketRaceProofs` |
| `ResultsAreKept` | `Spec => ResultIsKept` | `BracketRaceProofs` |
| `HandlersAlone` | `Spec => []OneAtATime`, if `MaxBusy = 1` | `BracketRaceProofs` |
| `RoomsAreNotRepeated` | `Spec => []OneRoom`, if `MaxBusy = 1` | `BracketRaceProofs` |
| `PostsAreRecorded` | `Spec => []AnnouncedIsRecorded`, if `MaxBusy = 1` | `BracketRaceProofs` |
| `SignupsFollow` | `Spec => []SignupIsForTheScheduledTime`, if `MaxBusy = 1` | `BracketRaceProofs` |
| `PostedResultsAreRecorded` | `Spec => []PostedIsRecorded`, if `MaxBusy = 1` | `BracketRaceProofs` |
| `RefinesContract` | `Spec => ImplementsContract`, if `MaxBusy = 1` | `BracketRaceProofs` |
| `ContractKept` | `Spec => (ImplementsContract <=> [][SavesUnfinished]_vars)` | `BracketRaceProofs` |
| `OutcomesKept` | `Spec => ([]OutcomeOnlyWhenFinished <=> [][SavesUnfinished]_vars)` | `BracketRaceProofs` |
| `ContractUnlessOverlap` | `Spec /\ []FinishesApart => ImplementsContract` | `BracketRaceProofs` |
| `PostedUnlessOverlap` | `Spec /\ []FinishesApart /\ []ResultsOneByOne => []PostedIsRecorded` | `BracketRaceProofs` |
| `OneRoomUnlessOverlap` | `Spec /\ []RoomsApart => []OneRoom` | `BracketRaceProofs` |
| `PostsUnlessOverlap` | `Spec /\ []ScheduleApart => []AnnouncedIsRecorded` | `BracketRaceProofs` |
| `SignupsUnlessOverlap` | `Spec /\ []ScheduleApart => []SignupIsForTheScheduledTime` | `BracketRaceProofs` |
| `AloneIsApart` | `Spec => [](FinishesApart /\ ResultsOneByOne /\ RoomsApart /\ ScheduleApart)`, if `MaxBusy = 1` | `BracketRaceProofs` |
| `LeagueInvariant` | `Spec => []IInv` | `LeagueProofs` |
| `LeagueTypes` | `Spec => []TypeOK` | `LeagueProofs` |
| `NobodyIsEverLeftOut` | `Spec => []NobodyIsLeftOut` | `LeagueProofs` |
| `EverybodyOnlyMeetsOnce` | `Spec => []EverybodyMeetsOnce` | `LeagueProofs` |
| `CommandsAreOrdered` | `Spec => [](RowsInv /\ OrderInv)`, if `Closing \subseteq Alone` | `LeagueProofs` |
| `LeagueKeepsItsContract` | `Spec => ImplementsContract`, if `Closing \subseteq Alone` | `LeagueProofs` |
| `FinishedBracketStaysOver` | `Spec => []FinishedBracketIsOver`, if `Closing \subseteq Alone` | `LeagueProofs` |
| `FinishedBracketUnlessPaired` | `Spec /\ []PairingsApart => []FinishedBracketIsOver` | `LeagueProofs` |
| `TypeCorrect` | `Spec => []TypeOK` | `RaceRoomsProofs` |
| `PlayersEnter` | `Spec => []PlayersCanEnter` | `RaceRoomsProofs` |
| `PlayersAreToldOnce` | `Spec => []ToldOnce` | `RaceRoomsProofs` |
| `RoomIsOfNamesake` | `Spec => []NamesakeSeason` | `RaceRoomsProofs` |
| `SeasonByChance` | `Spec => [](RoomIsOfItsSeason <=> AlikeNamesakes)` | `RaceRoomsProofs` |
| `OneSeasonIsFine` | `Spec => []RoomIsOfItsSeason`, if all races are of one season | `RaceRoomsProofs` |
| `TypeCorrect` | `Spec => []TypeOK` | `RaceEventsProofs` |
| `RowsAreRight` | `Spec => []RowIsOfItsRace` | `RaceEventsProofs` |
| `OneEvent` | `Spec => []OneEventEach` | `RaceEventsProofs` |
| `Typing` | `Spec => []TypeOK` | `ScannerProofs` |
| `UrlRight` | `Spec => []UrlIsOfItsRace` | `ScannerProofs` |
| `ResultsRight` | `Spec => []ResultsAreOfOneRoom` | `ScannerProofs` |
| `Typing` | `Spec => []TypeOK` | `PlayerInfoProofs` |
| `PairsRight` | `Spec => []PairIsOfOneAccount` | `PlayerInfoProofs` |
| `NothingForgotten` | `Spec => NothingIsForgotten` | `PlayerInfoProofs` |
| `ToldAccountsFit` | `Spec => ToldAccountFits` | `PlayerInfoProofs` |
| `OnlyACrowdIsRefused` | `Spec => RefusedOnlyInACrowd`, if `Handlers` is finite and `MaxSize >= 3` | `PlayerInfoProofs` |
| `InvHolds` | `Spec => []IInv` | `StandingsProofs` |
| `NeverGoBack` | `Spec => PagesNeverGoBack` | `StandingsProofs` |
| `AllPagesAgree` | `Spec => []PagesAgree` | `StandingsProofs` |
| `OfWholeRounds` | `Spec => []PageIsOfWholeRounds` | `StandingsProofs` |
| `FasterIsNotLower` | `Spec => []FasterNeverRanksLower` | `StandingsProofs` |

**Assumptions.** The theorems hold for any numbers and sets of racers' clients, slots, times, results, tasks,
commands, seasons, brackets, rooms, handlers, guilds, players and accounts, and for any bounds on failures, restarts and
histories; they assume only what the modules state about their constants (`RacersAssumption`, `BoundsAssumption`,
`DataAssumption` and so on), which TLC evaluates in the runs. Unless the table says otherwise any number of tasks may
overlap. Four hypotheses say more:

* `MaxBusy = 1`: one command, reaction, scan or room is worked on at a time; failures, restarts and stops between any two
  steps remain. This is not enforced by the code; it is how one race is used, and `race_outcome` shows that it matters.
  The theorems named `...UnlessOverlap` replace it by what it is needed for: a condition on which steps of handlers overlap
  (`FinishesApart`, `ResultsOneByOne`, `RoomsApart`, `ScheduleApart`), assumed of every state of the behaviour, with any `MaxBusy`.
  `AloneIsApart` says that `MaxBusy = 1` implies all four.
* `Closing \subseteq Alone`: no other command of the league overlaps with one that sets the state of a season, finishes a
  bracket or deletes a qualifier; all other commands may overlap with each other. `league_bracket_over` shows that it matters;
  `FinishedBracketUnlessPaired` replaces it, for that property, by `PairingsApart`: no command to generate pairings of a bracket is under way
  while `finish_bracket` is between its check and its save of the same bracket.
* `Slots` and `Clients` have one element at most: a racer has one client, and the bot has handled its last click before
  the next. Workers, notifications, the cancel command and other racers still overlap with it. Discord does not enforce it; see
  [Overlapping handlers](#overlapping-handlers) and the comment at `RunnerCanGoOn`.
* `MaxSize >= 3`: the pool has ten connections unless it is configured otherwise (`Pool::builder()` in `db.rs`), and a
  handler holds two while it asks for a third at most; a pool of two could be emptied by one handler alone. That `Handlers` is finite only gives
  the sum of what they hold a value.

The inductive invariants, `RunHasMessage` and `ResultIsKept` were checked by TLC on the way to their
proofs; no run repeats what a theorem says of every instance.

### An asynchronous race

`PostedResultsAreComplete` is not inductive: that the sweep's copy is complete
depends on what rows may say, what a row says on the copies that handlers are about to save, and those
on what buttons and modals offered. `RecordInv` closes this circle. It is a conjunction:

* `RowsInv`: the columns that precede the state of a run are filled;
* `ViewsInv`, `ModalsInv`: so are those that precede a button of a DM or an open modal;
* `HandsInv`: a handler's copy has them too, and only columns that the row has already, plus the
  one it adds; once it only has to respond, the row has them;
* `OwnInv`, `NotifInv`, `SweepInv`: copies that workers and notifications hold never have a
  column that the row lacks, and are saved only in states that need none.

That a stale save keeps this rests on one fact about `Save`: it never
empties a column (`SaveRecord`). So columns of a row only grow (`Grow`), and everything that
was true of what they allow stays true, whatever state a stale copy writes.
`TypeOK` is proved first (`TypeCorrect`), because the leaves need types. Each
action has a lemma of its own (`CreateRecord`, `NotifyRecord`, ...), with one step per
conjunct that it can disturb.

`ContactedCanStart` needs to know who may touch which DM. `MessageInv` says, for a racer
who is not the bot:

* `UnsavedInv`: a DM that was sent but whose id is not in the row yet is known to its
  notification alone: no row, copy, modal, handler or cancellation has its id;
* `RefersInv`: every id that any of these holds is the id of a DM that was sent, a run past
  `CREATED` has one, and a handler or modal for anything but a start has the id of a DM that no
  longer shows the start button;
* `ContactInv`: while the row says `CONTACTED`, its DM shows the start button, and every
  handler or cancellation that is about to change a message has another DM in mind.

Most steps touch none of this for a given racer, so the proof goes racer by racer: `Harmless`
describes the steps that leave a racer's row and DM alone and only forget copies, one lemma shows
that these keep the invariant, and the actions that do more (`NotifySend`, `NotifySave`,
`HandlerSave`, `HandlerRespond`, `Click`) have lemmas of their own.

`RefinesContract` of `AsyncRace` maps `record` to the filled columns and `result` to what the sweep is posting.
It uses `RecordInv` (a handler's save fills at most one column, and those before it are
filled) and `CourseInv`: a race that was not created yet is not swept or cancelled, and
`FINISHED` is written only after a post. Each action has a lemma that names the step of the
contract that it takes: `SweepGetRuns` is `Decide` or a stutter, `SweepAnnounce` is `Announce`,
`SweepSaveRace` is `Finish` or `Drop`, `SweepSaveFails` and `Restart` are `Withdraw`, `CancelRace` is
`Drop`, a handler's save is `Record` or a stutter, and the rest stutter.

`PostedOnce` counts: every post but the last was followed by a failure or a restart before `FINISHED` was
saved. `PostedInv` adds when there is one post fewer, that is, while the race may yet be swept, or the sweep is before its post. It needs
`CourseInv`, and from the contract only that a race that is not open never is again.

`RunnerCanGoOn` looks at rows and DMs only, but what moves a run on and what takes buttons away are clicks that may be old. `GoOnInv` says
of every racer of an open race (`GoesOn`): a run on its way refers to a DM with a button; an interaction that is about to move it on, and a modal
for the reported time, belong to a DM with a button; and a forfeit about to be answered, which takes the buttons of its DM away, has
left the run over or is about another DM than the run's. `Calm` describes the steps that move no run on and take no button away: those of
workers and commands, and of other racers. What is left is the racer's own click, modal, save and answer (`UserGoesOn`, `HandleGoesOn`); there the
hypothesis is used, since the one slot that holds the forfeit can hold nothing that writes over it.

### A race of a bracket

The types of `BracketRace` are not inductive alone: a schedule command takes the next unused post,
and a signup reads the post that its copy of the info names. `PostInv` says that posts made and
commands still to make one are together at most the commands begun (`PostsAreLeft`, a
count that only the finite-set theorems can carry), and that a signup being handled names a
post (`SignupsArePosted`). `RaceSteps` then says all that any step may do to the row of the race:
nothing, save a copy as `Scheduled`, or save one with a result and `Finished`; with
`ScanHasResult` (the scanner finishes only races it found) both result theorems follow from
`SaveRace`, which skips a result that is absent from the copy.

Everything else that players rely on is lost when handlers overlap, because the info is written back whole. With
`MaxBusy = 1` the invariant is `OneAtATime`: either the scan, or the room loop, or one task is at work, and none of the others.
Its parts say what then holds of the rows (`Global`: rooms opened, the post that is shown, the signup, the result
announced), and of what the task at work has read and is about to write (`Local`). While a step failed or the process was
restarted rows and posts may differ, so those parts are stated for a clean history (`Clean`), and
`OneRoom`, which allows a room per failure, is not. The contract follows because a copy that is saved is a copy of the row as it is.

When handlers do overlap, what goes wrong is always that a copy is written back over what another handler has written
since; the last theorems say of which handlers. Each has an inductive invariant of its own, for any number of tasks:

* The contract, and an outcome only on a finished race, are lost by one step and no other: a schedule command that saves a race that was finished since
  it read it (`SavesUnfinished`; both directions are proved). `UnfinishedInv` has that the copy of such a command has no result, since a race that is not
  finished has none. Two reports, a report and a scan, or two schedule commands are harmless.
* The last result posted is the recorded one (`PostedInv`) if, besides, results are saved and posted one by one.
* `OneRoom` is lost when a command writes an info without the url over one with it. `RoomsInv` counts: an info in the row or in a copy that will be written back
  that has no url means one room fewer than there may be. The condition, `RoomsApart`, is only about the time while a room is opened; a
  scan fills the url itself, and copies made before or after are in the count.
* Posts and signups (`PostsInv`): each copy that will be written back has the row's time and names the one post that is shown, whoever
  holds it and however many do; only a schedule command changes the time and makes a post, so that its copy is the only one that others must keep away from (`ScheduleApart`).

TLC checked these invariants with three and four tasks at once before they were proved, and refutes each property when its condition is dropped.

### The league

`NobodyIsLeftOut` and `EverybodyMeetsOnce` speak of entries and first rounds. The transaction that
inserts a round reads the entries and the rounds itself, and only the state of the bracket is from an older copy; so a first round is right when it is made, and what has to be shown is that nothing disturbs
it, a second first round included. `FirstRoundInv` therefore states both properties with the entries there were (`1..k`), which later entries leave alone, and
`RowsInv` has that rounds refer to entries that exist and every command to rows that exist. That a
Swiss round serves everybody, and that the pairs of a round robin are all pairs, come from lemmas about perfect matchings and
`kSubset`.

With `Closing \subseteq Alone`, `OrderInv` says that what a command read still holds when it writes: `OpenReads` for the
commands that may overlap, which no other overlapping command can spoil (a season that was not finished stays so while no closing command
runs), `ClosingReads` for those that run alone, `AloneInv` that they do, and `RowsAgree` that a season has a
finished time exactly when it is finished. Each write then is a step of `LeagueContract`; and a bracket that is finished
keeps having no open race, which `league_bracket_over` refutes without the hypothesis.
That overlap is the only one: `FinishedBracketUnlessPaired` has no hypothesis on `Alone`. Its invariant, `OverInv`, is that what the two commands found still
holds when they write (`StillSo`): no race of a bracket about to be finished is open, and a copy of a finished bracket says so.

### Rooms, events, scans, players

`PlayersCanEnter` of `RaceRooms` needs to know that a room is never opened twice in one place. `InfosInv` says that there is one
info for each race that was scheduled, so that numbers of infos do not run out; `SavedInv` that the bot
learns of, handles and announces only rooms whose url is in the row, and that the creator only opens rooms whose url is not;
`AnnounceInv` that a controller that is about to announce has a room that is open, has its players invited, or refused an invitation.

That rooms are opened for the wrong season (`rooms_season`) has an exact description. `get_from_bracket_race_info` finds the race whose id is that of the
info, so a room has the season of that race (`NamesakeSeason`, which no later step changes); it is the right one when, and only
when, the two races are of one season (`SeasonByChance`). With one season it always is (`OneSeasonIsFine`), and so it is while races are first scheduled in
the order of their ids.

`ToldOnce` is a budget. `Paid` says that what was posted, the controllers that intend to tell the players (`Telling`), one more if nobody has greeted
or will (`Unseen`: the next Handler may), and the connections that broke without need for a second message (`Harmless`) are together at most one plus the late
answers and troubles. Each action moves an item within the sum or is paid by a trouble: a greeting turns `Unseen` off for good, a controller that finds
a greeting in the history leaves `Telling`, and a connection that breaks after the greeting is both a trouble and harmless, so that it buys no second message. `AskInv` adds that the history sent to
a controller was true, and that a room the bot has not saved has no greeting.

`RowIsOfItsRace` of `RaceEvents` is inductive with `NoteIsRight`: between the call that creates an
event and the save of its row, the worker's note of the event is of the guild and race at hand. `OneEventEach` counts the
*lost* events, those alive to which neither the row of their race nor the note leads: `LostAreCounted` says that there are at most as many as there were
troubles. A row gets a new event only when its old one is not alive (`NoteIsAlone`), and the worker knows: the list it works from may be older than what moderators did,
but no event of a race still to come that is alive now is missing from it (`ListIsRight`).

The two invariants of `Scanner` need the copies: the times a scan loaded are those a row may have had (a reschedule in
between erases the url, and the copy's older time comes back with the scan's own url), and a race that was matched stays one that both of its players
raced in, because a finished room does not change.

`PairIsOfOneAccount` is inductive with `CopiesArePairs` (the copy of a handler has a pair, or came from a row
that was added with a bare name) and `BatchIsBare` (the lookup program only has such rows). Rows that an admin
added with a name and no id are excepted: an update that began when the row was `(A, none)` writes `A` and leaves the id alone,
so over a row `(B, B)` it gives `(A, B)`.

`ToldAccountFits` depends on the order of what a handler has to do. `OrderInv` says that after racetime was asked nothing of the
program reads the row again or asks Twitch, and that racetime is not asked once the copy was dropped (`Ordered`); `GoesOn`, that an error, which skips
some of the operations, leaves a program with what is later in it, in the same order. `AccountInv`: who was told has a copy with an
account that fits its Twitch name. `Written` keeps a Twitch name the copy has, so the row has both.

`RefusedOnlyInACrowd` needs to know what a handler holds while it waits for more. `Modest` says of what is left of any program: it gives
connections back four times at most, and before it takes one, either the first of these is behind it or another take is still to come. Every
program of the bot is modest (`ProgramsAreModest`, `CommandsAreModest`), and so is what an error leaves of one, so that whoever waits holds two at most
(`WaitsWithTwo`). What all handlers hold together is a fold over the set of handlers; if no other holds any, it is at most
what this one holds (`SumBound`), and the pool is not empty.

### The standings

A page is put together from four kinds of reads, with reports, corrections and new rounds between them. `IInv` has four
parts: `RowsInv`, the outcome of a race is that of its results and who has raced is entered; `RoundsInv`, a round is drawn when the one before is complete, and
in a Swiss round everybody who has raced has exactly one race; `PageInv`, the page being loaded knows everybody who has raced before it looks at a
round and has counted whole complete rounds; `ListedInv`, the same of the last page, and that the page being loaded has, of each round that it has passed, what the
last one counted. `PagesNeverGoBack` follows from the last part. It had to be known that nobody is in two pairs of a round (`OncePaired`).

The other three are about sums. `MapThenSumSet` is a recursive function over the subsets of a finite set, so
what it computes is proved without an induction theorem that takes an operator: the numbers for which a claim holds form a set that contains 0 and with `n` also
`n + 1` (`NatSet`, from `NatLessThanWellFounded`). From this come existence of the sum, and how it adds up over a set and one more element,
over a union, and over equal or smaller terms (the lemmas `Total...`). Then

* `PagesAgree`: the points of a player are two for each win and one for each draw, by the three outcomes;
* `PageIsOfWholeRounds`: the points listed are a double sum, over players and their races; exchanged, it is the
  sum over races of the points of their two players, which is two (`TwoPerRace`); and a player's races and the rounds counted are as many, because each round has one race of the
  player (`OnceARound`);
* `FasterNeverRanksLower`: one race made faster leaves the other races as they are (`RenamedOf`), and either gives the player more points and
  the opponent no more, or leaves all points and takes time from the player alone (`FasterRace`); whoever the player was ahead of by points, points of
  opponents, time and number stays behind (`StaysAhead`).

### What is only model-checked

* Everything that must eventually happen (`FinishedRaceIsClosed`, `RacerIsContacted`, `IncompleteRaceIsClosed`, `BotForfeits`, `PlayedRaceIsFinished`, `HandlerGoesOn`,
  `ControllerFollows`, `RoomIsTakenUp`, `EventsFollow`, `FindableIsFound`, `HandlersEnd`): liveness and `ENABLED` are beyond the prover.

Every other property of a passing run is stated by a theorem.

## Where code and comments disagree

Shown by a run (and listed in `PROJECT.json` under "findings"):

* `race_outcome` — a schedule command that read the race before it was reported writes
  `Scheduled` over `Finished`; the outcome stays, so `is_complete()` is true of a
  race that is scheduled again (`bracket_races.rs:226`, comment at `:155`).
* `league_bracket_over` — pairings generated between the check and the save of
  `finish_bracket` stay open in a finished bracket (`application_commands.rs:1639`,
  comment at `brackets.rs:292`).
* `rooms_season` — the season of a room is looked up with the id of the info instead of that of the race
  (`season.rs:81`); rooms open for the wrong season once the two ids differ.

Seen while reading and modelling, and possible in the models, but without a run of their own:

* The sweep saves the race it loaded: `ABANDONED` or `FINISHED` may replace a
  `CANCELLED_BY_ADMIN` committed in between (`async_race_worker.rs:83`). Likewise a
  notification or an interaction in flight writes the state of a run of a cancelled race back,
  although `AsyncRace::cancel` "cancels this race and its associated" runs.
* One failed query for the runs makes the sweep abandon a race that has both of them (`async_race_worker.rs:78-87`): its racers are
  not contacted any more, and if both had finished, their result is never posted. `RacerIsContacted` and
  `FinishedRaceIsClosed` therefore allow a race to be given up.
* A race that was played and then moved to more than three hours after the room started is never finished by the scanner
  (`worker_funcs.rs:117`), nor one whose room has left the first page of past rooms when the scanner, or a missing racetime name,
  comes back (`racetime_scanner_worker.rs:85-90`); an admin has to report it. `PlayedRaceIsFinished` and `FindableIsFound` speak of
  rooms that count and stay on the page.
* A room's url is erased by a handler that saves an older copy of the info; the
  upcoming races worker then has a second room opened (`upcoming_races_worker.rs:39`).
* Signups are deleted before the transaction that saves the new time (`bracket_race_infos.rs:106`);
  if that fails, commentators are gone and the time is the old one.
* The scanner applies every finished room between two players to the same copies
  (`racetime_scanner_worker.rs:110`); the last one wins.
* `handle_report_race` sets the url of the room on the info and does not save it.
* Two overlapping changes of a season's state may take it back, and a qualifier may be
  inserted after qualifiers have closed, when it was checked before.
* A crash after the racetime bot's greeting and before the invitations: after the restart the
  greeting counts as a sign that the room was set up (`racetime_bot/mod.rs:601`).
* The history on a player's page says "skip unfinished races" and only logs (`web/mod.rs:800`); a race that is
  `Scheduled` again but has its outcome is shown. The standings show it too, so that the pages agree.
* Two finished rooms of one pair of players in one scan are both applied, the later one over the earlier
  (`racetime_scanner_worker.rs:92`); a room within three hours before a rematch counts for the rematch
  (`worker_funcs.rs:117`).
* In a round robin, a player without a counted race is missing from the standings as soon as somebody has one
  (`brackets.rs:427`); the history of a season puts races of two brackets in one list.
* Two updates of one player may leave a racetime name and id of different accounts when the row was added by an admin without
  an id (`application_commands.rs:782`).
* Events of a season that is finished before the next tick are never ended by the bot
  (`helper_bot/mod.rs:450`), although "events will get reliably updated on any relevant change";
  `EventsFollow` is therefore stated while the season is on.

## What is not modelled

* **Discord caches** are only read, and **interaction plumbing** only wraps the handlers. Handlers that take one connection and
  give it back before they await anything are represented by `Page` in `ConnectionPool`; the two notifications of
  `handle_create_race`, which take a connection each at the same time, and `handle_promote`, are not among its handlers.
* **Which race a command means** (a player with several open races must name the opponent): an input of `BracketRace`.
* **Promotion of race monitors** (`handle_promote`): the model of a room has no roles.
* **The other web pages, command definitions, autocompletion, permission checks, argument parsing**: nothing is written.
* **Login and sessions, start-up, shutdown, configuration**: one operation at a time; the models
  have crashes instead of an orderly shutdown.
* **racetime token, deserialisation**: I/O of one task.
* **Maintenance programs** other than the lookup of racetime ids, **migrations, templates, test set-up**: run by hand, or
  not programs. The unique constraints of the schema are in the guards of the models.

## Plan

Done, in this order: `AsyncRace` with its contract and proofs, `BracketRace` with its
contract and proofs, `League` with its contract, `RaceRooms`, `RaceEvents`, `Scanner`, `Standings`, `ConnectionPool` and
`PlayerInfo`, with proofs about all of these.

What could follow:

1. `handle_promote` step by step, in `RaceRooms` (`racetime_bot/mod.rs:546`).
2. Two races in `RaceEvents`, two rooms in the runs of `Scanner`, two racers who click in one run of `AsyncRace`.
3. For the contract of `League`, as for `BracketRace`, a theorem that replaces `Closing \subseteq Alone` by the overlaps that do harm.
