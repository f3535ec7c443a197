---------------------------- MODULE BracketRace ----------------------------
(***************************************************************************)
(* One race of a bracket: its `bracket_races` row, its `bracket_race_infos`*)
(* row (when it takes place, where it is announced, which racetime room it *)
(* has), the commentators who signed up for it, and everything that reads  *)
(* and writes them: the schedule, report, commentator and restream         *)
(* commands, reactions to the bot's posts, the racetime scanner, and the   *)
(* worker and the bot that open racetime rooms.                            *)
(*                                                                         *)
(* A handler reads a row, waits for Discord, racetime or a connection, and *)
(* writes the whole row back; each statement and each call is a step.      *)
(* Commentators are represented by one Discord user (signups are unique    *)
(* per race and user), the pair of players' results by one value.          *)
(***************************************************************************)
EXTENDS Naturals, FiniteSets

CONSTANTS
    Times,        \* times a race can be scheduled for
    Results,      \* pairs of the players' results
    CountsFor,    \* CountsFor[r]: the times a racetime room with result r counts
                  \* for: those until 180 minutes after it started
    Tasks,        \* commands and reactions the bot may be handling
    MaxBusy,      \* how many tasks run at once, workers included
    MaxBegun,     \* bound: commands and reactions that are handled
    MaxRooms,     \* bound: rooms opened for one schedule
    QueueCap,     \* capacity of the channel of pending room requests
    MaxFailures,  \* bound: failed calls
    MaxRestarts   \* bound: crashes and restarts of the bot

\* Absence of a time, of a result, of a commentator.
None == "none"

ASSUME DataAssumption ==
    None \notin Times /\ None \notin Results /\ CountsFor \in [Results -> SUBSET Times]

ASSUME BoundsAssumption ==
    /\ MaxBusy \in Nat /\ MaxBegun \in Nat
    /\ MaxRooms \in Nat /\ QueueCap \in Nat
    /\ MaxFailures \in Nat /\ MaxRestarts \in Nat

VARIABLES
    race,      \* the bracket_races row
    info,      \* the bracket_race_infos row
    post,      \* post[m]: the m-th post in the commentary channel
    signup,    \* the commentator_signups row of the user
    page,      \* rooms of the two players on the first page of racetime's
               \* list of past rooms, by their results
    reported,  \* the result last posted in the match results channel
    queue,     \* pending room requests
    made,      \* rooms opened since the race was last (re)scheduled
    task,      \* commands and reactions being handled
    scan,      \* the racetime scanner
    room,      \* the loop that opens racetime rooms
    begun,     \* the three counters below only carry the bounds
    failures,
    restarts

rows  == <<race, info, signup>>
posts == <<post, reported>>
rooms == <<queue, made, room>>
bounds == <<begun, failures, restarts>>
vars == <<rows, posts, page, rooms, task, scan, bounds>>

-----------------------------------------------------------------------------
(* The rows.                                                               *)

BracketRaceState == {"New", "Scheduled", "Finished"}

\* result: the two results and the outcome, which are only ever set together.
Race == [state : BracketRaceState, result : Results \cup {None}]

\* The other nullable columns: whether they are filled.  (The id of the
\* commentary assignment message is left out: nothing reads it.)
Columns == {"url", "request", "tentative", "channel"}

\* A command makes one post at most.
PostIds == 1..MaxBegun

\* comm = 0: no post in the commentary opportunities channel is recorded.
Info == [exists    : BOOLEAN,
         scheduled : Times \cup {None},
         comm      : {0} \cup PostIds,
         filled    : SUBSET Columns]

NoInfo == [exists |-> FALSE, scheduled |-> None, comm |-> 0, filled |-> {}]

Post == [state : {"unsent", "shown", "deleted"}, time : Times \cup {None}]

\* (Broken variant: a result that is there is not replaced.)
SaveRaceKeepingResult(br) ==
    [state |-> br.state, result |-> IF race.result = None THEN br.result ELSE race.result]

\* BracketRace::update skips the columns that are None in the copy;
\* BracketRaceInfo::update writes them too, so that is just info' = copy.
SaveRace(br) ==
    [state |-> br.state, result |-> IF br.result = None THEN race.result ELSE br.result]

\* get_or_create_for_bracket.
GetOrCreate == [info EXCEPT !.exists = TRUE]

Fill(bri, col)  == [bri EXCEPT !.filled = @ \cup {col}]
Clear(bri, col) == [bri EXCEPT !.filled = @ \ {col}]

\* BracketRaceInfo::schedule.
Rescheduled(bri, when) == Clear([bri EXCEPT !.scheduled = when], "url")

MayAddResults(br, force) == force \/ br.state # "Finished"

\* (Broken variants: the state, or the results, are not set.)
AddResultsKeepingState(br, r) == [br EXCEPT !.result = r]

AddResultsKeepingResults(br, r) == [br EXCEPT !.state = "Finished"]

\* add_results with both results, and finish.
AddResults(br, r) == [br EXCEPT !.result = r, !.state = "Finished"]

-----------------------------------------------------------------------------
(* Tasks.                                                                  *)

Kinds == {"schedule", "report", "rereport", "confirm", "signup", "restream",
          "set_restream"}

Pcs == {"idle", "info", "wipe", "save", "clear", "post", "finish", "announce",
        "signup", "update"}

\* No copy of the race.
NoBr == [state |-> "New", result |-> None]

IdleTask == [pc |-> "idle", kind |-> None, br |-> NoBr, bri |-> NoInfo]
IdleScan == [pc |-> "idle", br |-> NoBr, bri |-> NoInfo, todo |-> {},
             result |-> None]
IdleRoom == [pc |-> "idle", bri |-> NoInfo]

Task == [pc : Pcs, kind : Kinds \cup {None}, br : Race, bri : Info]

Scanner == [pc : {"idle", "query", "next", "update", "finish", "announce"},
            br : Race, bri : Info, todo : SUBSET Results, result : Results \cup {None}]

TypeOK ==
    /\ race \in Race
    /\ info \in Info
    /\ post \in [PostIds -> Post]
    /\ signup \in Times \cup {None, "by_admin"}
    /\ page \subseteq Results
    /\ reported \in Results \cup {None}
    /\ queue \in 0..QueueCap
    /\ made \in 0..MaxRooms
    /\ task \in [Tasks -> Task]
    /\ scan \in Scanner
    /\ room \in [pc : {"idle", "create", "save"}, bri : Info]
    /\ begun \in 0..MaxBegun
    /\ failures \in 0..MaxFailures
    /\ restarts \in 0..MaxRestarts

Init ==
    /\ race = NoBr
    /\ info = NoInfo
    /\ post = [m \in PostIds |-> [state |-> "unsent", time |-> None]]
    /\ signup = None
    /\ page = {}
    /\ reported = None
    /\ queue = 0
    /\ made = 0
    /\ task = [t \in Tasks |-> IdleTask]
    /\ scan = IdleScan
    /\ room = IdleRoom
    /\ begun = 0
    /\ failures = 0
    /\ restarts = 0

Busy == {t \in Tasks : task[t].pc # "idle"}

Quiet == Busy = {} /\ scan.pc = "idle" /\ room.pc = "idle"

\* MaxBusy = 1 is a bot that handles one thing at a time.
MayBegin ==
    Cardinality(Busy) + (IF scan.pc = "idle" THEN 0 ELSE 1)
                      + (IF room.pc = "idle" THEN 0 ELSE 1) < MaxBusy

\* A command or a reaction arrives and task t handles it.
Begin(t, kind, pc, br, bri) ==
    /\ task[t].pc = "idle"
    /\ MayBegin
    /\ begun < MaxBegun
    /\ begun' = begun + 1
    /\ task' = [task EXCEPT ![t] = [pc |-> pc, kind |-> kind, br |-> br, bri |-> bri]]
    /\ UNCHANGED <<failures, restarts>>

At(t, kinds, pc) == task[t].kind \in kinds /\ task[t].pc = pc

Goto(t, pc, bri) == task' = [task EXCEPT ![t] = [@ EXCEPT !.pc = pc, !.bri = bri]]

Done(t) == task' = [task EXCEPT ![t] = IdleTask]

\* ok, or a call failed and was tolerated.
Count(ok) ==
    /\ ok \/ failures < MaxFailures
    /\ failures' = IF ok THEN failures ELSE failures + 1
    /\ UNCHANGED <<begun, restarts>>

\* The commentary opportunities post of bri is deleted, if it has one and it
\* still is there.
Deleted(bri) ==
    [m \in PostIds |-> IF m = bri.comm /\ post[m].state = "shown"
                       THEN [post[m] EXCEPT !.state = "deleted"]
                       ELSE post[m]]

\* clear_commportunities_message: a failed delete keeps the id.
ClearComm(bri, ok) == IF ok THEN [bri EXCEPT !.comm = 0] ELSE bri

-----------------------------------------------------------------------------
(* The schedule and reschedule commands.                                   *)

ScheduleRead(t) ==
    /\ race.state # "Finished"
    /\ Begin(t, "schedule", "info", race, NoInfo)
    /\ UNCHANGED <<rows, posts, page, rooms, scan>>

ScheduleInfo(t) ==
    /\ At(t, {"schedule"}, "info")
    /\ info' = GetOrCreate
    /\ Goto(t, "wipe", GetOrCreate)
    /\ UNCHANGED <<race, signup, posts, page, rooms, scan, bounds>>

\* (Broken variant: the signups stay.)
ScheduleKeepingSignups(t) ==
    /\ At(t, {"schedule"}, "wipe")
    /\ \E when \in Times : Goto(t, "save", Rescheduled(task[t].bri, when))
    /\ UNCHANGED <<rows, posts, page, rooms, scan, bounds>>

\* The signups are deleted before, and outside, the transaction that saves.
ScheduleWipe(t) ==
    /\ At(t, {"schedule"}, "wipe")
    /\ signup' = None
    /\ \E when \in Times : Goto(t, "save", Rescheduled(task[t].bri, when))
    /\ UNCHANGED <<race, info, posts, page, rooms, scan, bounds>>

ScheduleSave(t) ==
    /\ At(t, {"schedule"}, "save")
    /\ info' = task[t].bri
    /\ race' = SaveRace([task[t].br EXCEPT !.state = "Scheduled"])
    /\ made' = 0
    /\ Goto(t, "clear", task[t].bri)
    /\ UNCHANGED <<signup, posts, page, queue, room, scan, bounds>>

\* (Broken variant: the old post stays.)
ScheduleClearNothing(t) ==
    /\ At(t, {"schedule"}, "clear")
    /\ Goto(t, "post", task[t].bri)
    /\ UNCHANGED <<rows, posts, page, rooms, scan, bounds>>

\* The old posts are deleted; either delete may fail.
ScheduleClear(t) ==
    /\ At(t, {"schedule"}, "clear")
    /\ \E okComm, okTentative \in BOOLEAN :
        LET bri == ClearComm(task[t].bri, okComm)
        IN  /\ Count(okComm /\ okTentative)
            /\ post' = IF okComm THEN Deleted(task[t].bri) ELSE post
            /\ Goto(t, "post", IF okTentative THEN Clear(bri, "tentative") ELSE bri)
    /\ UNCHANGED <<rows, reported, page, rooms, scan>>

\* The new post: it may not be made, or be made and its response be lost.
SchedulePost(t) ==
    /\ At(t, {"schedule"}, "post")
    /\ LET bri == task[t].bri
           m   == CHOOSE k \in PostIds : post[k].state = "unsent"
           made1 == [post EXCEPT ![m] = [state |-> "shown", time |-> bri.scheduled]]
       IN  \/ post' = made1 /\ Goto(t, "update", [bri EXCEPT !.comm = m]) /\ Count(TRUE)
           \/ post' \in {post, made1} /\ Goto(t, "update", bri) /\ Count(FALSE)
    /\ UNCHANGED <<rows, reported, page, rooms, scan>>

\* Every command that changed its copy of the info ends by saving it.
UpdateInfo(t) ==
    /\ task[t].pc = "update"
    /\ info' = task[t].bri
    /\ Done(t)
    /\ UNCHANGED <<race, signup, posts, page, rooms, scan, bounds>>

-----------------------------------------------------------------------------
(* The commands that report a race, and correct a report (force).          *)

ReportRead(t) ==
    /\ \E kind \in {"report", "rereport"} : Begin(t, kind, "info", race, NoInfo)
    /\ UNCHANGED <<rows, posts, page, rooms, scan>>

\* A refused report has created the info all the same.
ReportInfo(t) ==
    /\ At(t, {"report", "rereport"}, "info")
    /\ info' = GetOrCreate
    /\ LET force == task[t].kind = "rereport"
       IN  IF MayAddResults(task[t].br, force) /\ (force => task[t].br.state = "Finished")
           THEN Goto(t, "finish", GetOrCreate)
           ELSE Done(t)
    /\ UNCHANGED <<race, signup, posts, page, rooms, scan, bounds>>

\* trigger_race_finish, up to the save of the race.
Finish(t) ==
    /\ task[t].pc = "finish"
    /\ \E r \in Results :
        LET br == AddResults(task[t].br, r)
        IN  /\ race' = SaveRace(br)
            /\ task' = [task EXCEPT ![t] = [@ EXCEPT !.pc = "announce", !.br = br]]
    /\ UNCHANGED <<info, signup, posts, page, rooms, scan, bounds>>

\* The rest of trigger_race_finish for the result r: it is posted, and the
\* commentary post of bri is deleted, but bri is not saved.
Announced(r, bri) ==
    \E okResult, okComm \in BOOLEAN :
        /\ Count(okResult /\ okComm)
        /\ reported' = IF okResult THEN r ELSE reported
        /\ post' = IF okComm THEN Deleted(bri) ELSE post

Announce(t) ==
    /\ task[t].pc = "announce"
    /\ Announced(task[t].br.result, task[t].bri)
    /\ Done(t)
    /\ UNCHANGED <<rows, page, rooms, scan>>

-----------------------------------------------------------------------------
(* The racetime scanner.                                                   *)

\* The two players finish a race on racetime (of the goal, with both of them
\* as entrants).
Play(r) ==
    /\ r \notin page
    /\ page' = page \cup {r}
    /\ UNCHANGED <<rows, posts, rooms, task, scan, bounds>>

\* Rooms that end later push it off the page the scanner asks for.
OffThePage(r) ==
    /\ r \in page
    /\ page' = page \ {r}
    /\ UNCHANGED <<rows, posts, rooms, task, scan, bounds>>

ScanLoad ==
    /\ scan.pc = "idle"
    /\ MayBegin
    /\ info.scheduled # None /\ race.state # "Finished"
    /\ scan' = [IdleScan EXCEPT !.pc = "query", !.br = race, !.bri = info]
    /\ UNCHANGED <<rows, posts, page, rooms, task, bounds>>

\* The first page is all that is asked for, and interesting_race skips the
\* rooms that started long before the time in the copy of the info.
ScanQuery ==
    /\ scan.pc = "query"
    /\ scan' = [scan EXCEPT !.pc = "next",
                            !.todo = {r \in page : scan.bri.scheduled \in CountsFor[r]}]
    /\ UNCHANGED <<rows, posts, page, rooms, task, bounds>>

\* (Broken variant: a scan stops after the races it found, without a save.)
ScanNextSkips ==
    /\ scan.pc = "next"
    /\ scan' = IdleScan
    /\ UNCHANGED <<rows, posts, page, rooms, task, bounds>>

\* One finished race after the other, each with the copies loaded at first.
ScanNext ==
    /\ scan.pc = "next"
    /\ IF scan.todo = {}
       THEN scan' = IdleScan
       ELSE \E r \in scan.todo :
                scan' = [scan EXCEPT !.pc = "update", !.result = r, !.todo = @ \ {r}]
    /\ UNCHANGED <<rows, posts, page, rooms, task, bounds>>

\* A failure to save the room's url is tolerated.
ScanUpdate ==
    /\ scan.pc = "update"
    /\ scan' = [scan EXCEPT !.pc = "finish"]
    /\ \/ info' = Fill(scan.bri, "url") /\ Count(TRUE)
       \/ UNCHANGED info /\ Count(FALSE)
    /\ UNCHANGED <<race, signup, posts, page, rooms, task>>

ScanFinish ==
    /\ scan.pc = "finish"
    /\ IF MayAddResults(scan.br, FALSE)
       THEN /\ race' = SaveRace(AddResults(scan.br, scan.result))
            /\ scan' = [scan EXCEPT !.pc = "announce"]
       ELSE /\ scan' = [scan EXCEPT !.pc = "next", !.result = None]
            /\ UNCHANGED race
    /\ UNCHANGED <<info, signup, posts, page, rooms, task, bounds>>

ScanAnnounce ==
    /\ scan.pc = "announce"
    /\ Announced(scan.result, scan.bri)
    /\ scan' = [scan EXCEPT !.pc = "next", !.result = None]
    /\ UNCHANGED <<rows, page, rooms, task>>

-----------------------------------------------------------------------------
(* Commentators and restreams.                                             *)

\* A reaction to the m-th post, made while it was shown, is recognised by the
\* id recorded in the info.
Recognised(m) == post[m].state # "unsent" /\ info.comm = m

\* An admin confirms the commentators.
Confirm(t) ==
    /\ \E m \in PostIds : Recognised(m)
    /\ Begin(t, "confirm", "post", NoBr, info)
    /\ UNCHANGED <<rows, posts, page, rooms, scan>>

\* The tentative assignment and the restream request are posted.
ConfirmPost(t) ==
    /\ At(t, {"confirm"}, "post")
    /\ \E okTentative, okRequest \in BOOLEAN :
        LET bri == IF okTentative THEN Fill(task[t].bri, "tentative") ELSE task[t].bri
        IN  /\ Count(okTentative /\ okRequest)
            /\ Goto(t, "clear", IF okRequest THEN Fill(bri, "request") ELSE bri)
    /\ UNCHANGED <<rows, posts, page, rooms, scan>>

ConfirmClear(t) ==
    /\ At(t, {"confirm"}, "clear")
    /\ \E ok \in BOOLEAN :
        /\ Count(ok)
        /\ post' = IF ok THEN Deleted(task[t].bri) ELSE post
        /\ Goto(t, "update", ClearComm(task[t].bri, ok))
    /\ UNCHANGED <<rows, reported, page, rooms, scan>>

\* The user volunteers by a reaction, which is not yet recorded.
Signup(t) ==
    /\ \E m \in PostIds : Recognised(m)
    /\ Begin(t, "signup", "signup", NoBr, info)
    /\ UNCHANGED <<rows, posts, page, rooms, scan>>

\* A second signup of the same user violates a unique constraint, and is
\* ignored.  A signup remembers the time its post announced.
SignupInsert(t) ==
    /\ task[t].pc = "signup"
    /\ signup' = IF signup = None THEN post[task[t].bri.comm].time ELSE signup
    /\ Done(t)
    /\ UNCHANGED <<race, info, posts, page, rooms, scan, bounds>>

RemoveReaction ==
    /\ MayBegin /\ begun < MaxBegun
    /\ \E m \in PostIds : Recognised(m)
    /\ signup' = None
    /\ begun' = begun + 1
    /\ UNCHANGED <<race, info, posts, page, rooms, task, scan, failures, restarts>>

\* The commentators command.
Commentators ==
    /\ MayBegin /\ begun < MaxBegun
    /\ info' = GetOrCreate
    /\ signup' \in {None, IF signup = None THEN "by_admin" ELSE signup}
    /\ begun' = begun + 1
    /\ UNCHANGED <<race, posts, page, rooms, task, scan, failures, restarts>>

\* A reaction to the recorded restream request picks the channel.
Restream(t) ==
    /\ "request" \in info.filled
    /\ Begin(t, "restream", "post", NoBr, Fill(info, "channel"))
    /\ UNCHANGED <<rows, posts, page, rooms, scan>>

\* The assignment is posted and the tentative one deleted.
RestreamPost(t) ==
    /\ At(t, {"restream"}, "post")
    /\ \E ok \in BOOLEAN :
        /\ Count(ok)
        /\ Goto(t, "update", IF ok THEN Clear(task[t].bri, "tentative") ELSE task[t].bri)
    /\ UNCHANGED <<rows, posts, page, rooms, scan>>

\* The set_restream command.
SetRestream(t) ==
    /\ info' = GetOrCreate
    /\ \E bri \in {Fill(GetOrCreate, "channel"), Clear(GetOrCreate, "channel")} :
           Begin(t, "set_restream", "update", NoBr, bri)
    /\ UNCHANGED <<race, signup, posts, page, rooms, scan>>

-----------------------------------------------------------------------------
(* Rooms.                                                                  *)

\* The upcoming races worker requests a room for a race that has none.
Upcoming ==
    /\ queue < QueueCap
    /\ info.scheduled # None /\ race.state # "Finished" /\ "url" \notin info.filled
    /\ queue' = queue + 1
    /\ UNCHANGED <<rows, posts, page, made, room, task, scan, bounds>>

\* The internal API requests one whatever the info says.
start_race_for ==
    /\ queue < QueueCap
    /\ info.exists
    /\ queue' = queue + 1
    /\ UNCHANGED <<rows, posts, page, made, room, task, scan, bounds>>

\* (Broken variant: the request is served even if there is a room.)
RoomTakeAlways ==
    /\ room.pc = "idle" /\ queue > 0
    /\ MayBegin
    /\ queue' = queue - 1
    /\ room' = [pc |-> "create", bri |-> info]
    /\ UNCHANGED <<rows, posts, page, made, task, scan, bounds>>

RoomTake ==
    /\ room.pc = "idle" /\ queue > 0
    /\ MayBegin
    /\ queue' = queue - 1
    /\ room' = IF "url" \in info.filled THEN IdleRoom ELSE [pc |-> "create", bri |-> info]
    /\ UNCHANGED <<rows, posts, page, made, task, scan, bounds>>

\* The room is opened, or its response is lost, or it is refused.
RoomCreate ==
    /\ room.pc = "create"
    /\ made < MaxRooms
    /\ \/ /\ made' = made + 1
          /\ room' = [pc |-> "save", bri |-> Fill(room.bri, "url")]
          /\ Count(TRUE)
       \/ made' \in {made, made + 1} /\ room' = IdleRoom /\ Count(FALSE)
    /\ UNCHANGED <<rows, posts, page, queue, task, scan>>

RoomSave ==
    /\ room.pc = "save"
    /\ \/ info' = room.bri /\ Count(TRUE)
       \/ UNCHANGED info /\ Count(FALSE)
    /\ room' = IdleRoom
    /\ UNCHANGED <<race, signup, posts, page, queue, made, task, scan>>

-----------------------------------------------------------------------------
(* Failures and crashes.                                                   *)

\* A statement, or the wait for a connection, fails: the command gives up.
\* (Failed calls to Discord are part of the steps that make them.)
TaskFails(t) ==
    /\ \/ task[t].pc \in {"info", "wipe", "save", "finish", "signup", "update"}
       \/ At(t, {"confirm", "restream"}, "post")
    /\ Count(FALSE)
    /\ Done(t)
    /\ UNCHANGED <<rows, posts, page, rooms, scan>>

\* The scan gives up, or goes on with the next race it found.
ScanFails ==
    /\ scan.pc \in {"query", "update", "finish"}
    /\ Count(FALSE)
    /\ scan' = IF scan.pc = "query" THEN IdleScan
               ELSE [scan EXCEPT !.pc = "next", !.result = None]
    /\ UNCHANGED <<rows, posts, page, rooms, task>>

\* The rows, the posts and the world survive.
Restart ==
    /\ restarts < MaxRestarts
    /\ restarts' = restarts + 1
    /\ task' = [t \in Tasks |-> IdleTask]
    /\ scan' = IdleScan
    /\ room' = IdleRoom
    /\ queue' = 0
    /\ UNCHANGED <<rows, posts, page, made, begun, failures>>

-----------------------------------------------------------------------------
(* The specification.                                                      *)

Schedule(t) ==
    \/ ScheduleRead(t) \/ ScheduleInfo(t) \/ ScheduleWipe(t) \/ ScheduleSave(t)
    \/ ScheduleClear(t) \/ SchedulePost(t)

Report(t) == ReportRead(t) \/ ReportInfo(t) \/ Finish(t) \/ Announce(t)

Commentate(t) ==
    \/ Confirm(t) \/ ConfirmPost(t) \/ ConfirmClear(t)
    \/ Signup(t) \/ SignupInsert(t)
    \/ Restream(t) \/ RestreamPost(t) \/ SetRestream(t)

Scan == ScanLoad \/ ScanQuery \/ ScanNext \/ ScanUpdate \/ ScanFinish \/ ScanAnnounce

Racetime == \E r \in Results : Play(r) \/ OffThePage(r)

Rooms == Upcoming \/ start_race_for \/ RoomTake \/ RoomCreate \/ RoomSave

Next ==
    \/ \E t \in Tasks : Schedule(t) \/ Report(t) \/ Commentate(t) \/ UpdateInfo(t) \/ TaskFails(t)
    \/ Racetime
    \/ RemoveReaction \/ Commentators
    \/ Scan \/ ScanFails
    \/ Rooms
    \/ Restart

Spec == Init /\ [][Next]_vars

\* A handler that began goes on, and the scanner ticks again and again.  No
\* user has to do anything.
Fairness ==
    /\ \A t \in Tasks : WF_vars(/\ Schedule(t) \/ Report(t) \/ Commentate(t) \/ UpdateInfo(t)
                               /\ task[t].pc # "idle")
    /\ WF_vars(Scan /\ scan.pc # "idle")
    /\ WF_vars((RoomTake \/ RoomCreate \/ RoomSave) /\ room.pc # "idle")
    /\ SF_vars(ScanLoad)

FairSpec == Spec /\ Fairness

-----------------------------------------------------------------------------
(* Properties.                                                             *)

\* A race that is finished has a result, whoever wrote its row last.
FinishedHasResult == race.state = "Finished" => race.result # None

\* Once there is a result there always is one: no stale copy erases it.
ResultIsKept == [][race.result # None => race.result' # None]_vars

\* A race whose outcome is set is finished: is_complete() "returns true if the
\* race is definitely complete".  (Holds while one handler runs at a time.)
OutcomeOnlyWhenFinished == race.result # None => race.state = "Finished"

\* Nothing is in progress, and nothing ever failed.
Undisturbed == Quiet /\ failures = 0 /\ restarts = 0

\* However often it is requested, one room is opened per schedule of the race,
\* plus one for each time the url was lost: the worker that requests rooms takes
\* requests to be idempotent.  (While one handler runs at a time.)
OneRoom == made <= 1 + failures + restarts

\* The posts that ask for commentators are the one the info records, and it
\* announces the time the race is scheduled for.  (While one handler runs at a
\* time.)
AnnouncedIsRecorded ==
    Undisturbed => \A m \in PostIds :
        post[m].state = "shown" => info.comm = m /\ post[m].time = info.scheduled

\* Nobody is signed up for a time the race no longer takes place at:
\* schedule_race "wipes out existing state about scheduling/commentating/etc".
\* (While one handler runs at a time.)
SignupIsForTheScheduledTime ==
    Undisturbed => signup \in {None, "by_admin", info.scheduled}

\* The result last posted is the one recorded.  (While one handler runs at a
\* time.)
PostedIsRecorded == Undisturbed /\ reported # None => reported = race.result

\* Some room the scanner would see now counts for the time of the race.
RoomInSight == \E r \in page : info.scheduled \in CountsFor[r]

\* The scanner finishes a scheduled race that was played, unless before it has
\* done so the rooms drop off the page it looks at, or the race is moved to a
\* time they are too old for: nothing finds them then.
PlayedRaceIsFinished ==
    (race.state = "Scheduled" /\ RoomInSight)
        ~> (race.state = "Finished" \/ ~RoomInSight)

Contract == INSTANCE BracketRaceContract WITH state <- race.state, result <- race.result

\* A handler at a time, the race is what players are told it is.
ImplementsContract == Contract!Spec

=============================================================================
