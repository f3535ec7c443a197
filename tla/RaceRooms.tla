----------------------------- MODULE RaceRooms -----------------------------
(***************************************************************************)
(* The racetime bot.  One loop opens a room for every race that asks for   *)
(* one and tells the bot its slug; the racetime library then runs a        *)
(* Handler for each room the bot knows, in a task of its own, and the      *)
(* Handler starts a second task, the RaceController, to which it passes on *)
(* the answer to gethistory and the users' commands through two bounded    *)
(* channels.  The controller greets and invites the players once.          *)
(*                                                                         *)
(* The library and racetime itself are external: the library handles a     *)
(* room that is not over when should_handle says so, stops a handler when  *)
(* should_stop does, and may drop one when its connection breaks.          *)
(***************************************************************************)
EXTENDS Naturals, Sequences, FiniteSets

CONSTANTS
    Races,        \* ids of the races
    Seasons,      \* the seasons
    SeasonOf,     \* the season of each race
    MaxHandlers,  \* bound: handlers the library starts
    Capacity,     \* capacity of the channel of commands
    MaxCommands,  \* bound: commands typed into a room
    MaxTroubles   \* bound: failed calls, broken connections, crashes

ASSUME RacesAssumption ==
    /\ Races \subseteq Nat \ {0} /\ IsFiniteSet(Races) /\ Races # {}
    /\ SeasonOf \in [Races -> Seasons]

ASSUME BoundsAssumption ==
    /\ MaxHandlers \in Nat /\ Capacity \in Nat \ {0}
    /\ MaxCommands \in Nat /\ MaxTroubles \in Nat

VARIABLES
    bri,       \* bri[i]: the race the i-th bracket_race_info is of
    requests,  \* pending requests for rooms
    creator,   \* the loop that opens rooms
    saved,     \* infos that have their room's url
    learned,   \* infos whose slug the bot is on the lookout for
    room,      \* room[i]: the room opened for the i-th info
    pair,      \* pair[h]: the h-th Handler and its RaceController
    posted,    \* posted[i]: times players were told on Discord of their room
    late,      \* answers to gethistory that did not come in time
    commands,  \* these two only carry the bounds
    troubles

vars == <<bri, requests, creator, saved, learned, room, pair, posted, late, commands, troubles>>

Infos == 1..Cardinality(Races)
Handlers == 1..MaxHandlers

-----------------------------------------------------------------------------
(* Types.                                                                  *)

\* The last room opened for an info.  greeted: the chat has a message of the
\* bot; invited: both players have been invited, as far as the bot knows;
\* refused: racetime is about to report that one of them may not join; shut: the
\* room could not be opened after such a report.
Room == [status : {"none", "live", "over"}, season : Seasons, open : BOOLEAN,
         invited : BOOLEAN, refused : BOOLEAN, shut : BOOLEAN,
         greeted : BOOLEAN]

NoRoom == [status |-> "none", season |-> CHOOSE s \in Seasons : TRUE, open |-> FALSE,
           invited |-> FALSE, refused |-> FALSE, shut |-> FALSE, greeted |-> FALSE]

\* history: what the answer to gethistory that is in the channel says; cut: the
\* connection broke, after the greeting.
Pair == [room : Infos \cup {0},
         handler : {"none", "running", "blocked", "gone"},
         controller : {"none", "ask", "wait", "welcome", "woke", "players",
                       "invite", "open", "announce", "fail", "loop", "gone"},
         asked : BOOLEAN, history : {"none", "fresh", "greeted"},
         commands : 0..Capacity, should_end : BOOLEAN, cut : BOOLEAN]

NoPair == [room |-> 0, handler |-> "none", controller |-> "none", asked |-> FALSE,
           history |-> "none", commands |-> 0, should_end |-> FALSE, cut |-> FALSE]

TypeOK ==
    /\ bri \in Seq(Races) /\ Len(bri) <= Cardinality(Races)
    /\ requests \subseteq Infos
    /\ creator \in [pc : {"idle", "open", "save", "learn"}, i : Infos]
    /\ saved \subseteq Infos /\ learned \subseteq Infos
    /\ room \in [Infos -> Room]
    /\ pair \in [Handlers -> Pair]
    /\ posted \in [Infos -> Nat] /\ late \in Nat
    /\ commands \in 0..MaxCommands
    /\ troubles \in 0..MaxTroubles

Init ==
    /\ bri = <<>>
    /\ requests = {}
    /\ creator = [pc |-> "idle", i |-> 1]
    /\ saved = {} /\ learned = {}
    /\ room = [i \in Infos |-> NoRoom]
    /\ pair = [h \in Handlers |-> NoPair]
    /\ posted = [i \in Infos |-> 0]
    /\ late = 0
    /\ commands = 0
    /\ troubles = 0

Trouble(n) == troubles + n <= MaxTroubles /\ troubles' = troubles + n

\* A step that went well, or a call that failed.
Fine == UNCHANGED troubles
Fails == Trouble(1)

-----------------------------------------------------------------------------
(* Opening rooms.                                                          *)

\* A race is scheduled: its info is created then, so infos are numbered in
\* the order in which races are first scheduled.
Scheduled ==
    /\ \E r \in Races \ {bri[i] : i \in 1..Len(bri)} : bri' = Append(bri, r)
    /\ UNCHANGED <<requests, creator, saved, learned, room, pair, posted, late, commands, troubles>>

Request ==
    /\ \E i \in 1..Len(bri) :
        /\ i \notin requests \cup saved
        /\ requests' = requests \cup {i}
    /\ UNCHANGED <<bri, creator, saved, learned, room, pair, posted, late, commands, troubles>>

create_rooms ==
    /\ creator.pc = "idle"
    /\ \E i \in requests :
        /\ requests' = requests \ {i}
        /\ creator' = IF i \in saved THEN creator ELSE [pc |-> "open", i |-> i]
    /\ UNCHANGED <<bri, saved, learned, room, pair, posted, late, commands, troubles>>

\* Season::get_from_bracket_race_info looks for the info whose race has the
\* id of this info.
InfosFound(i) == {j \in 1..Len(bri) : bri[j] = i}

create_room_for_race ==
    LET i == creator.i IN
    /\ creator.pc = "open"
    /\ \/ /\ \E j \in InfosFound(i) :
                room' = [room EXCEPT ![i] = [NoRoom EXCEPT !.status = "live", !.season = SeasonOf[bri[j]]]]
          /\ creator' = [creator EXCEPT !.pc = "save"]
          /\ Fine
       \/ /\ \/ InfosFound(i) = {} /\ Fine
             \/ Fails
          /\ creator' = [creator EXCEPT !.pc = "idle"]
          /\ UNCHANGED room
    /\ UNCHANGED <<bri, requests, saved, learned, pair, posted, late, commands>>

\* The url is saved; if that fails the room stays behind, unknown to the bot.
handle_one_bri ==
    /\ creator.pc = "save"
    /\ \/ saved' = saved \cup {creator.i} /\ creator' = [creator EXCEPT !.pc = "learn"] /\ Fine
       \/ creator' = [creator EXCEPT !.pc = "idle"] /\ UNCHANGED saved /\ Fails
    /\ UNCHANGED <<bri, requests, learned, room, pair, posted, late, commands>>

\* The slug is new, so that there is no conflict.  (The library is also told of
\* the slug, which only makes it look sooner.)
learn_about_bri ==
    /\ creator.pc = "learn"
    /\ learned' = learned \cup {creator.i}
    /\ creator' = [creator EXCEPT !.pc = "idle"]
    /\ UNCHANGED <<bri, requests, saved, room, pair, posted, late, commands, troubles>>

-----------------------------------------------------------------------------
(* The library and the Handler.                                            *)

Running(i) == {h \in Handlers : pair[h].room = i /\ pair[h].handler \in {"running", "blocked"}}

\* should_handle, then Handler::new.  The library handles a room once at a time.
StartHandler(h) ==
    /\ pair[h] = NoPair /\ \A g \in 1..(h - 1) : pair[g] # NoPair
    /\ \E i \in learned :
        /\ room[i].status = "live" /\ Running(i) = {}
        /\ pair' = [pair EXCEPT ![h].room = i, ![h].handler = "running", ![h].controller = "ask"]
    /\ UNCHANGED <<bri, requests, creator, saved, learned, room, posted, late, commands, troubles>>

\* A command is passed on; the Handler waits while the channel is full, and
\* asks to be stopped when the controller has hung up.
Command(h) ==
    /\ pair[h].handler = "running" /\ room[pair[h].room].status = "live"
    /\ commands < MaxCommands
    /\ commands' = commands + 1
    /\ pair' = [pair EXCEPT ![h] =
                    IF pair[h].controller = "gone" THEN [pair[h] EXCEPT !.should_end = TRUE]
                    ELSE IF pair[h].commands < Capacity THEN [pair[h] EXCEPT !.commands = @ + 1]
                    ELSE [pair[h] EXCEPT !.handler = "blocked"]]
    /\ UNCHANGED <<bri, requests, creator, saved, learned, room, posted, late, troubles>>

Unblock(h) ==
    /\ pair[h].handler = "blocked"
    /\ \/ /\ pair[h].controller = "gone"
          /\ pair' = [pair EXCEPT ![h].handler = "running", ![h].should_end = TRUE]
       \/ /\ pair[h].controller # "gone" /\ pair[h].commands < Capacity
          /\ pair' = [pair EXCEPT ![h].handler = "running", ![h].commands = @ + 1]
    /\ UNCHANGED <<bri, requests, creator, saved, learned, room, posted, late, commands, troubles>>

\* The answer to gethistory is passed on; without a controller it is an error,
\* and the library drops the Handler.
chat_history(h) ==
    /\ pair[h].handler = "running" /\ pair[h].asked
    /\ pair' = [pair EXCEPT ![h] =
                    IF @.controller = "gone" THEN [@ EXCEPT !.handler = "gone", !.asked = FALSE]
                    ELSE [@ EXCEPT !.asked = FALSE,
                                   !.history = IF room[pair[h].room].greeted
                                               THEN "greeted" ELSE "fresh"]]
    /\ UNCHANGED <<bri, requests, creator, saved, learned, room, posted, late, commands, troubles>>

\* racetime reports that an invited player may not join: the room is opened.
error(h) ==
    LET i == pair[h].room IN
    /\ pair[h].handler = "running" /\ room[i].refused
    /\ \/ room' = [room EXCEPT ![i].invited = FALSE, ![i].refused = FALSE, ![i].open = TRUE] /\ Fine
       \/ room' = [room EXCEPT ![i].invited = FALSE, ![i].refused = FALSE, ![i].shut = TRUE] /\ Fails
    /\ UNCHANGED <<bri, requests, creator, saved, learned, pair, posted, late, commands>>

\* should_stop, then end: the slug is forgotten.
StopHandler(h) ==
    LET i == pair[h].room IN
    /\ pair[h].handler = "running"
    /\ pair[h].should_end \/ room[i].status = "over"
    /\ learned' = learned \ {i}
    /\ pair' = [pair EXCEPT ![h].handler = "gone", ![h].asked = FALSE]
    /\ UNCHANGED <<bri, requests, creator, saved, room, posted, late, commands, troubles>>

\* The connection breaks for good: the Handler is dropped, and nothing forgotten.
DropHandler(h) ==
    /\ pair[h].handler \in {"running", "blocked"}
    /\ Trouble(1)
    /\ pair' = [pair EXCEPT ![h].handler = "gone", ![h].asked = FALSE,
                            ![h].cut = room[pair[h].room].greeted]
    /\ UNCHANGED <<bri, requests, creator, saved, learned, room, posted, late, commands>>

-----------------------------------------------------------------------------
(* The RaceController.                                                     *)

Goto(h, pc) == pair' = [pair EXCEPT ![h].controller = pc]

\* A message to the chat, tolerated when it is not sent.
Say(i) ==
    \/ room' = [room EXCEPT ![i].greeted = TRUE] /\ Fine
    \/ UNCHANGED room /\ Fails

gethistory(h) ==
    /\ pair[h].controller = "ask"
    /\ \/ pair' = [pair EXCEPT ![h].controller = "wait", ![h].asked = (@ \/ pair[h].handler # "gone")] /\ Fine
       \/ Goto(h, "welcome") /\ Fails
    /\ UNCHANGED <<bri, requests, creator, saved, learned, room, posted, late, commands>>

\* (Broken variants: the history is not looked at; it is waited for for ever.)
GotHistoryAnyway(h) ==
    /\ pair[h].controller = "wait"
    /\ pair[h].history # "none" /\ Goto(h, "welcome")
    /\ UNCHANGED <<bri, requests, creator, saved, learned, room, posted, late, commands, troubles>>

GotHistoryOrWait(h) ==
    /\ pair[h].controller = "wait"
    /\ \/ pair[h].history = "greeted" /\ Goto(h, "woke")
       \/ pair[h].history = "fresh" /\ Goto(h, "welcome")
    /\ UNCHANGED <<bri, requests, creator, saved, learned, room, posted, late, commands, troubles>>

\* The answer, no answer for five seconds, or no Handler to give one.
GotHistory(h) ==
    /\ pair[h].controller = "wait"
    /\ \/ pair[h].history = "greeted" /\ Goto(h, "woke") /\ UNCHANGED late
       \/ pair[h].history = "fresh" /\ Goto(h, "welcome") /\ UNCHANGED late
       \/ pair[h].history = "none" /\ Goto(h, "welcome") /\ late' = late + 1
    /\ UNCHANGED <<bri, requests, creator, saved, learned, room, posted, commands, troubles>>

\* "I just woke up", or the welcome that begins initial_setup.
Greet(h) ==
    /\ \/ pair[h].controller = "woke" /\ Goto(h, "loop")
       \/ pair[h].controller = "welcome" /\ Goto(h, "players")
    /\ Say(pair[h].room)
    /\ UNCHANGED <<bri, requests, creator, saved, learned, posted, late, commands>>

get_players(h) ==
    /\ pair[h].controller = "players"
    /\ \/ Goto(h, "invite") /\ Fine
       \/ Goto(h, "fail") /\ Fails
    /\ UNCHANGED <<bri, requests, creator, saved, learned, room, posted, late, commands>>

\* What becomes of the room when an invitation has been sent to both players,
\* or not, and racetime will or will not refuse one.
Invitations(i, both, refusal) ==
    [room EXCEPT ![i].invited = @ \/ both, ![i].refused = @ \/ refusal]

\* (Broken variant: a player without a racetime id is passed over.)
InviteWhoCanBe(h) ==
    /\ pair[h].controller = "invite"
    /\ \E both, refusal \in BOOLEAN : room' = Invitations(pair[h].room, both, refusal)
    /\ Goto(h, "announce")
    /\ UNCHANGED <<bri, requests, creator, saved, learned, posted, late, commands, troubles>>

\* Both are invited, unless racetime does not know one or a call fails; who
\* may not join is only found out later.
Invite(h) ==
    /\ pair[h].controller = "invite"
    /\ \E both, refusal \in BOOLEAN :
        /\ room' = Invitations(pair[h].room, both, refusal)
        /\ Goto(h, IF both THEN "announce" ELSE "open")
    /\ UNCHANGED <<bri, requests, creator, saved, learned, posted, late, commands, troubles>>

\* set_open is tried twice.
SetOpen(h) ==
    /\ pair[h].controller = "open"
    /\ \/ /\ room' = [room EXCEPT ![pair[h].room].open = TRUE]
          /\ Goto(h, "announce")
          /\ (Fine \/ Fails)
       \/ UNCHANGED room /\ Goto(h, "fail") /\ Trouble(2)
    /\ UNCHANGED <<bri, requests, creator, saved, learned, posted, late, commands>>

\* The post on Discord; then the filenames are said in the chat.
Announce(h) ==
    /\ pair[h].controller = "announce"
    /\ \/ posted' = [posted EXCEPT ![pair[h].room] = @ + 1] /\ Goto(h, "loop") /\ Say(pair[h].room)
       \/ UNCHANGED <<posted, room>> /\ Goto(h, "fail") /\ Fails
    /\ UNCHANGED <<bri, requests, creator, saved, learned, late, commands>>

SetupFails(h) ==
    /\ pair[h].controller = "fail"
    /\ pair' = [pair EXCEPT ![h].controller = "loop", ![h].should_end = TRUE]
    /\ Say(pair[h].room)
    /\ UNCHANGED <<bri, requests, creator, saved, learned, posted, late, commands>>

\* (Broken variant: that the Handler is gone is not noticed.)
handle_event_deaf(h) ==
    /\ pair[h].controller = "loop" /\ ~pair[h].should_end
    /\ pair[h].commands > 0
    /\ pair' = [pair EXCEPT ![h].commands = @ - 1]
    /\ Say(pair[h].room)
    /\ UNCHANGED <<bri, requests, creator, saved, learned, posted, late, commands>>

\* A command is answered; when the Handler is gone and its commands are
\* answered, the controller ends.
handle_event(h) ==
    /\ pair[h].controller = "loop" /\ ~pair[h].should_end
    /\ \/ /\ pair[h].commands > 0
          /\ pair' = [pair EXCEPT ![h].commands = @ - 1]
          /\ Say(pair[h].room)
       \/ /\ pair[h].commands = 0 /\ pair[h].handler = "gone"
          /\ pair' = [pair EXCEPT ![h].controller = "gone", ![h].should_end = TRUE]
          /\ UNCHANGED room /\ Fine
    /\ UNCHANGED <<bri, requests, creator, saved, learned, posted, late, commands>>

ControllerEnds(h) ==
    /\ pair[h].controller = "loop" /\ pair[h].should_end
    /\ Goto(h, "gone")
    /\ UNCHANGED <<bri, requests, creator, saved, learned, room, posted, late, commands, troubles>>

-----------------------------------------------------------------------------
(* The world.                                                              *)

RaceEnds(i) ==
    /\ room[i].status = "live"
    /\ room' = [room EXCEPT ![i].status = "over"]
    /\ UNCHANGED <<bri, requests, creator, saved, learned, pair, posted, late, commands, troubles>>

\* The process dies and starts again: run_bot learns the slugs that were saved
\* for races that are not finished.
run_bot ==
    /\ Trouble(1)
    /\ requests' = {}
    /\ creator' = [creator EXCEPT !.pc = "idle"]
    /\ learned' = {i \in saved : room[i].status = "live"}
    /\ pair' = [h \in Handlers |->
                    IF pair[h] = NoPair THEN NoPair
                    ELSE [NoPair EXCEPT !.room = pair[h].room, !.handler = "gone", !.controller = "gone"]]
    /\ UNCHANGED <<bri, saved, room, posted, late, commands>>

-----------------------------------------------------------------------------
(* The specification.                                                      *)

create == create_rooms \/ create_room_for_race \/ handle_one_bri \/ learn_about_bri

handler(h) == Unblock(h) \/ chat_history(h) \/ error(h) \/ StopHandler(h)

controller(h) ==
    \/ gethistory(h) \/ GotHistory(h)
    \/ Greet(h) \/ get_players(h) \/ Invite(h) \/ SetOpen(h) \/ Announce(h) \/ SetupFails(h)
    \/ handle_event(h) \/ ControllerEnds(h)

Next ==
    \/ Scheduled \/ Request \/ create
    \/ \E h \in Handlers : StartHandler(h) \/ Command(h) \/ handler(h) \/ DropHandler(h) \/ controller(h)
    \/ \E i \in Infos : RaceEnds(i)
    \/ run_bot

Spec == Init /\ [][Next]_vars

\* Tasks go on, and the library looks for rooms again and again.
Fairness ==
    /\ WF_vars(create)
    /\ \A h \in Handlers :
        WF_vars(StartHandler(h)) /\ WF_vars(handler(h)) /\ WF_vars(controller(h))

FairSpec == Spec /\ Fairness

-----------------------------------------------------------------------------
(* Properties.                                                             *)

\* Players who are told of their room can enter it: each is invited, or the
\* room is open, or about to be because an invitation was refused (unless
\* the call that opens it then fails).  initial_setup "opens the room if invites
\* fail".
PlayersCanEnter ==
    \A i \in Infos :
        posted[i] > 0 => room[i].open \/ room[i].invited \/ room[i].shut

\* Players are told of their room once, however often the room is handled
\* again: each further time takes a failed call, a crash or an answer that did
\* not come in time.  A connection that breaks after the greeting is not
\* enough, since the next controller finds the greeting in the chat.
ToldOnce ==
    LET harmless == Cardinality({h \in Handlers : pair[h].cut}) IN
    \A i \in Infos : posted[i] <= 1 + late + (troubles - harmless)

\* A handler that waits because the channel of commands is full goes on: the
\* controller always comes back to its commands, or hangs up.
HandlerGoesOn ==
    \A h \in Handlers : pair[h].handler = "blocked" ~> pair[h].handler # "blocked"

\* No controller outlives its handler.
ControllerFollows ==
    \A h \in Handlers : pair[h].handler = "gone" ~> pair[h].controller = "gone"

\* A room that the bot knows is taken up: its players are told, or at least it
\* is greeted (a bot that dies between the two takes the greeting, when it is
\* back, for the sign that it has set the room up), or it is over, or the bot
\* gives up and forgets it.
RoomIsTakenUp ==
    \A i \in Infos :
        i \in learned ~> \/ posted[i] > 0 \/ room[i].greeted
                         \/ room[i].status = "over"
                         \/ i \notin learned

\* A room is opened with the category and the goal of the season its race is
\* in.
RoomIsOfItsSeason ==
    \A i \in 1..Len(bri) :
        room[i].status # "none" => room[i].season = SeasonOf[bri[i]]

=============================================================================
