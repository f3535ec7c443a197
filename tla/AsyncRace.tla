------------------------------ MODULE AsyncRace ------------------------------
(***************************************************************************)
(* One asynchronous ("qualifier style") race between two Discord users:    *)
(* the `races` row, its two `race_runs` rows, the DMs the bot sends, and   *)
(* every task that reads and writes them.                                  *)
(*                                                                         *)
(* Every handler of the bot runs in a task of its own on a multi-threaded  *)
(* runtime and works on a COPY of a row: it reads the row, awaits Discord  *)
(* or the connection pool, and then writes the whole copy back.  So each   *)
(* statement on the database and each call to Discord is a step here, and  *)
(* the copies are part of the state.                                       *)
(*                                                                         *)
(* Other races only delay this one (the sweep handles them in turn), which *)
(* the interleaving of steps already allows.                               *)
(***************************************************************************)
EXTENDS Naturals

CONSTANTS
    Racers,       \* the two users named by the create command
    Bots,         \* those of them that are the bot's own user (at most one)
    Slots,        \* interactions of one racer the bot may be handling at once
    MaxCancels,   \* bound: cancel commands that get past their first check
    MaxDM,        \* bound: DMs the bot sends to one racer
    Clients,      \* Discord clients of one racer: each shows one modal at most
    MaxFailures,  \* bound: failed calls (locked database, pool, Discord)
    MaxRestarts,  \* bound: crashes and restarts of the bot
    MaxTroubles   \* bound: cancels, failures and restarts together

ASSUME RacersAssumption ==
    /\ \E p1, p2 \in Racers : p1 # p2 /\ Racers = {p1, p2}
    /\ Bots \subseteq Racers
    /\ \A b1, b2 \in Bots : b1 = b2

ASSUME BoundsAssumption ==
    /\ MaxDM \in Nat /\ MaxCancels \in Nat
    /\ MaxFailures \in Nat /\ MaxRestarts \in Nat /\ MaxTroubles \in Nat

VARIABLES
    race,       \* state of the races row, "NONE" before it is inserted
    run,        \* race_runs: one row per racer
    dm,         \* dm[r][m]: which buttons the m-th DM sent to r shows
    creator,    \* progress of the create command
    notif,      \* notif[w][r]: progress of the call of notify_racer made by w
    sweep,      \* the async race worker and the copies it loaded
    cancel,     \* the cancel command and the message ids it loaded
    own,        \* own[r]: the self-forfeiting worker's copy of run r
    hand,       \* hand[r][s]: an interaction of racer r being handled
    modal,      \* modal[r][c]: the modal racer r's client c shows
    announced,  \* number of times the race's result was posted
    cancels,    \* the three counters below only carry the bounds
    failures,
    restarts

vars == <<race, run, dm, creator, notif, sweep, cancel, own, hand, modal,
          announced, cancels, failures, restarts>>

-----------------------------------------------------------------------------
(* The two tables.                                                         *)

RaceState == {"CREATED", "FINISHED", "ABANDONED", "CANCELLED_BY_ADMIN"}

RunState == {"CREATED", "CONTACTED", "STARTED", "FINISHED", "TIME_SUBMITTED",
             "VOD_SUBMITTED", "FORFEIT", "CANCELLED_BY_ADMIN"}

\* The nullable columns of race_runs other than message_id: only whether they
\* are filled matters here.
Columns == {"run_started", "run_finished", "reported_run_time", "vod"}

DMs == 1..MaxDM

\* mid = 0: message_id IS NULL.  state = "NONE": the row is not inserted yet.
Row == [state : RunState \cup {"NONE"}, mid : 0..MaxDM, filled : SUBSET Columns]

NoRow  == [state |-> "NONE", mid |-> 0, filled |-> {}]
NewRow == [NoRow EXCEPT !.state = "CREATED"]

is_pre_start(row) == row.state \in {"CREATED", "CONTACTED"}

\* (Broken variant: a reported time counts as finished.)
is_finished_early(row) ==
    row.state \in {"TIME_SUBMITTED", "VOD_SUBMITTED", "FORFEIT"}

is_finished(row) == row.state \in {"VOD_SUBMITTED", "FORFEIT"}

\* (Broken variant: a message id is kept once it is set.)
SaveKeepingId(row, copy) ==
    [state  |-> copy.state,
     mid    |-> IF row.mid = 0 THEN copy.mid ELSE row.mid,
     filled |-> row.filled \cup copy.filled]

\* AsyncRaceRun::save writes the whole copy; diesel's AsChangeset skips the
\* columns that are None in it.
Save(row, copy) ==
    [state  |-> copy.state,
     mid    |-> IF copy.mid = 0 THEN row.mid ELSE copy.mid,
     filled |-> row.filled \cup copy.filled]

\* get_runs: exactly two rows, or an error.
BothRuns == \A r \in Racers : run[r].state # "NONE"

-----------------------------------------------------------------------------
(* The tasks' local state.                                                 *)

Notifiers == {"create", "sweep"}

IdleNotif == [pc |-> "idle", copy |-> NoRow]
IdleSweep == [pc |-> "idle", copy |-> [r \in Racers |-> NoRow]]
IdleHand  == [kind |-> "none", mid |-> 0, pc |-> "idle", copy |-> NoRow]
NoModal   == [kind |-> "none", mid |-> 0]
IdleCancel == [pc |-> "idle", mids |-> [r \in Racers |-> 0]]

Kinds == {"start", "finish", "time", "vod", "forfeit", "keep"}

\* What one of the bot's DMs shows.
Views == {"unsent", "start", "running", "vod_ready", "plain"}

Task    == [pc : {"idle", "send", "save"}, copy : Row]
Sweeper == [pc : {"idle", "loaded", "abandon", "announce", "finish", "notify"},
            copy : [Racers -> Row]]
Canceller == [pc : {"idle", "runs", "confirm", "cancel", "edit"},
              mids : [Racers -> 0..MaxDM]]
Handler == [kind : Kinds \cup {"none"}, mid : 0..MaxDM,
            pc : {"idle", "save", "respond"}, copy : Row]
Modal   == [kind : {"none", "time", "vod", "forfeit"}, mid : 0..MaxDM]

TypeOK ==
    /\ race \in RaceState \cup {"NONE"}
    /\ run \in [Racers -> Row]
    /\ dm \in [Racers -> [DMs -> Views]]
    /\ creator \in {"idle", "race_saved", "run_saved", "runs_saved", "gone"}
    /\ notif \in [Notifiers -> [Racers -> Task]]
    /\ sweep \in Sweeper
    /\ cancel \in Canceller
    /\ own \in [Racers -> Row]
    /\ hand \in [Racers -> [Slots -> Handler]]
    /\ modal \in [Racers -> [Clients -> Modal]]
    /\ announced \in Nat
    /\ cancels \in 0..MaxCancels
    /\ failures \in 0..MaxFailures
    /\ restarts \in 0..MaxRestarts

Init ==
    /\ race = "NONE"
    /\ run = [r \in Racers |-> NoRow]
    /\ dm = [r \in Racers |-> [m \in DMs |-> "unsent"]]
    /\ creator = "idle"
    /\ notif = [w \in Notifiers |-> [r \in Racers |-> IdleNotif]]
    /\ sweep = IdleSweep
    /\ cancel = IdleCancel
    /\ own = [r \in Racers |-> NoRow]
    /\ hand = [r \in Racers |-> [s \in Slots |-> IdleHand]]
    /\ modal = [r \in Racers |-> [c \in Clients |-> NoModal]]
    /\ announced = 0
    /\ cancels = 0
    /\ failures = 0
    /\ restarts = 0

MayTrouble == cancels + failures + restarts < MaxTroubles

\* A call that can fail, did.
Fail == failures < MaxFailures /\ MayTrouble /\ failures' = failures + 1

-----------------------------------------------------------------------------
(* The create command: three inserts, not in a transaction, then both      *)
(* racers are notified concurrently.                                       *)

CreateRace ==
    /\ creator = "idle"
    /\ race' = "CREATED"
    /\ creator' = "race_saved"
    /\ UNCHANGED <<run, dm, notif, sweep, cancel, own, hand, modal, announced,
                   cancels, failures, restarts>>

AddRun(r) ==
    /\ creator \in {"race_saved", "run_saved"}
    /\ run[r].state = "NONE"
    /\ run' = [run EXCEPT ![r] = NewRow]
    /\ IF creator = "race_saved"
       THEN /\ creator' = "run_saved"
            /\ UNCHANGED notif
       ELSE /\ creator' = "runs_saved"
            /\ notif' = [notif EXCEPT !["create"] =
                            [q \in Racers |-> [pc |-> "send", copy |-> NewRow]]]
    /\ UNCHANGED <<race, dm, sweep, cancel, own, hand, modal, announced,
                   cancels, failures, restarts>>

\* An insert fails: the command replies with the error and leaves what it wrote.
CreateFails ==
    /\ creator \in {"race_saved", "run_saved"}
    /\ Fail
    /\ creator' = "gone"
    /\ UNCHANGED <<race, run, dm, notif, sweep, cancel, own, hand, modal,
                   announced, cancels, restarts>>

-----------------------------------------------------------------------------
(* notify_racer.                                                           *)

\* (Broken variant: the state is kept.)
ContactedKeepingState(copy, m) == [copy EXCEPT !.mid = m]

\* set_message_id and contact_succeeded.
Contacted(copy, m) == [copy EXCEPT !.state = "CONTACTED", !.mid = m]

\* The sweep notifies one racer after the other, the create command both at once.
MayNotify(w, r) ==
    w = "sweep" => \A q \in Racers \ {r} : notif[w][q].pc # "save"

NotifySelf(w, r) ==
    /\ r \in Bots
    /\ notif[w][r].pc = "send"
    /\ MayNotify(w, r)
    /\ notif' = [notif EXCEPT ![w][r] =
                    [pc |-> "save", copy |-> [@.copy EXCEPT !.state = "CONTACTED"]]]
    /\ UNCHANGED <<race, run, dm, creator, sweep, cancel, own, hand, modal,
                   announced, cancels, failures, restarts>>

\* The DM is delivered before the run remembers its id.
NotifySend(w, r) ==
    /\ r \notin Bots
    /\ notif[w][r].pc = "send"
    /\ MayNotify(w, r)
    /\ \E m \in DMs :
        /\ dm[r][m] = "unsent"
        /\ \A k \in DMs : k < m => dm[r][k] # "unsent"
        /\ dm' = [dm EXCEPT ![r][m] = "start"]
        /\ notif' = [notif EXCEPT ![w][r] =
                        [pc |-> "save", copy |-> Contacted(@.copy, m)]]
    /\ UNCHANGED <<race, run, creator, sweep, cancel, own, hand, modal,
                   announced, cancels, failures, restarts>>

NotifySave(w, r) ==
    /\ notif[w][r].pc = "save"
    /\ run' = [run EXCEPT ![r] = Save(@, notif[w][r].copy)]
    /\ notif' = [notif EXCEPT ![w][r] = IdleNotif]
    /\ UNCHANGED <<race, dm, creator, sweep, cancel, own, hand, modal,
                   announced, cancels, failures, restarts>>

\* The bound on DMs: Discord refuses one more.
Refused(w, r) ==
    notif[w][r].pc = "send" /\ \A m \in DMs : dm[r][m] # "unsent"

\* Discord or the database fails: the run stays as it is, and a DM may
\* have been sent that no run refers to.
NotifyFails(w, r) ==
    /\ notif[w][r].pc # "idle"
    /\ MayNotify(w, r)
    /\ Fail \/ (Refused(w, r) /\ UNCHANGED failures)
    /\ notif' = [notif EXCEPT ![w][r] = IdleNotif]
    /\ UNCHANGED <<race, run, dm, creator, sweep, cancel, own, hand, modal,
                   announced, cancels, restarts>>

-----------------------------------------------------------------------------
(* The async race worker.                                                  *)

\* sweep(): loads the races that are CREATED.
SweepLoad ==
    /\ sweep.pc = "idle"
    /\ race = "CREATED"
    /\ sweep' = [sweep EXCEPT !.pc = "loaded"]
    /\ UNCHANGED <<race, run, dm, creator, notif, cancel, own, hand, modal,
                   announced, cancels, failures, restarts>>

\* handle_race(): what is done depends on the runs read here.  Whatever makes
\* get_runs fail, a missing run or a failed query, the race is abandoned;
\* without a connection it is left for the next tick.
SweepGetRuns ==
    /\ sweep.pc = "loaded"
    /\ \/ /\ (~BothRuns /\ UNCHANGED failures) \/ Fail
          /\ sweep' = [sweep EXCEPT !.pc = "abandon"]
          /\ UNCHANGED notif
       \/ /\ Fail
          /\ sweep' = IdleSweep
          /\ UNCHANGED notif
       \/ /\ BothRuns
          /\ \A r \in Racers : is_finished(run[r])
          /\ sweep' = [pc |-> "announce", copy |-> run]
          /\ UNCHANGED <<notif, failures>>
       \/ /\ BothRuns
          /\ \E r \in Racers : ~is_finished(run[r])
          /\ sweep' = [sweep EXCEPT !.pc =
                IF \E r \in Racers : run[r].state = "CREATED" THEN "notify" ELSE "idle"]
          /\ notif' = [notif EXCEPT !["sweep"] = [r \in Racers |->
                          IF run[r].state = "CREATED"
                          THEN [pc |-> "send", copy |-> run[r]]
                          ELSE IdleNotif]]
          /\ UNCHANGED failures
    /\ UNCHANGED <<race, run, dm, creator, cancel, own, hand, modal, announced,
                   cancels, restarts>>

SweepNotified ==
    /\ sweep.pc = "notify"
    /\ \A r \in Racers : notif["sweep"][r].pc = "idle"
    /\ sweep' = IdleSweep
    /\ UNCHANGED <<race, run, dm, creator, notif, cancel, own, hand, modal,
                   announced, cancels, failures, restarts>>

\* (Broken variant: an error from the webhook ends the handling of the race.)
SweepAnnounceOrReturn ==
    /\ sweep.pc = "announce"
    /\ \/ announced' = announced + 1 /\ sweep' = [sweep EXCEPT !.pc = "finish"]
       \/ announced' = announced /\ sweep' = IdleSweep
    /\ UNCHANGED <<race, run, dm, creator, notif, cancel, own, hand, modal,
                   cancels, failures, restarts>>

\* The webhook is executed; an error from it is only logged.
SweepAnnounce ==
    /\ sweep.pc = "announce"
    /\ announced' = announced + 1
    /\ sweep' = [sweep EXCEPT !.pc = "finish"]
    /\ UNCHANGED <<race, run, dm, creator, notif, cancel, own, hand, modal,
                   cancels, failures, restarts>>

\* (Broken variant: the copy is saved without finish() or abandon().)
SweepSaveUnchanged ==
    /\ sweep.pc \in {"abandon", "finish"}
    /\ race' = "CREATED"
    /\ sweep' = IdleSweep
    /\ UNCHANGED <<run, dm, creator, notif, cancel, own, hand, modal, announced,
                   cancels, failures, restarts>>

\* race.save() of the copy loaded by SweepLoad.
SweepSaveRace ==
    /\ sweep.pc \in {"abandon", "finish"}
    /\ race' = IF sweep.pc = "finish" THEN "FINISHED" ELSE "ABANDONED"
    /\ sweep' = IdleSweep
    /\ UNCHANGED <<run, dm, creator, notif, cancel, own, hand, modal, announced,
                   cancels, failures, restarts>>

SweepSaveFails ==
    /\ sweep.pc \in {"abandon", "finish"}
    /\ Fail
    /\ sweep' = IdleSweep
    /\ UNCHANGED <<race, run, dm, creator, notif, cancel, own, hand, modal,
                   announced, cancels, restarts>>

-----------------------------------------------------------------------------
(* The self-forfeiting worker, for races the bot itself was entered in.    *)

\* (Broken variant: the run is saved without forfeit().)
OwnLoadWithoutForfeit(r) ==
    /\ r \in Bots
    /\ own[r] = NoRow
    /\ run[r].state = "CONTACTED"
    /\ own' = [own EXCEPT ![r] = run[r]]
    /\ UNCHANGED <<race, run, dm, creator, notif, sweep, cancel, hand, modal,
                   announced, cancels, failures, restarts>>

OwnLoad(r) ==
    /\ r \in Bots
    /\ own[r] = NoRow
    /\ run[r].state = "CONTACTED"
    /\ own' = [own EXCEPT ![r] = [run[r] EXCEPT !.state = "FORFEIT"]]
    /\ UNCHANGED <<race, run, dm, creator, notif, sweep, cancel, hand, modal,
                   announced, cancels, failures, restarts>>

OwnSave(r) ==
    /\ own[r] # NoRow
    /\ run' = [run EXCEPT ![r] = Save(@, own[r])]
    /\ own' = [own EXCEPT ![r] = NoRow]
    /\ UNCHANGED <<race, dm, creator, notif, sweep, cancel, hand, modal,
                   announced, cancels, failures, restarts>>

OwnSaveFails(r) ==
    /\ own[r] # NoRow
    /\ Fail
    /\ own' = [own EXCEPT ![r] = NoRow]
    /\ UNCHANGED <<race, run, dm, creator, notif, sweep, cancel, hand, modal,
                   announced, cancels, restarts>>

-----------------------------------------------------------------------------
(* The cancel command.                                                     *)

\* Refused (nothing changes) unless the race is CREATED.
CancelRead ==
    /\ cancel.pc = "idle"
    /\ race = "CREATED"
    /\ cancels < MaxCancels /\ MayTrouble
    /\ cancels' = cancels + 1
    /\ cancel' = [cancel EXCEPT !.pc = "runs"]
    /\ UNCHANGED <<race, run, dm, creator, notif, sweep, own, hand, modal,
                   announced, failures, restarts>>

\* A race that somebody started has to be confirmed with a button.
CancelGetRuns ==
    /\ cancel.pc = "runs"
    /\ cancel' =
          IF ~BothRuns THEN IdleCancel
          ELSE [pc   |-> IF \A r \in Racers : is_pre_start(run[r])
                         THEN "cancel" ELSE "confirm",
                mids |-> [r \in Racers |-> run[r].mid]]
    /\ UNCHANGED <<race, run, dm, creator, notif, sweep, own, hand, modal,
                   announced, cancels, failures, restarts>>

\* "Really cancel race", or another button, or cancel_race_timeout.
CancelDecision ==
    /\ cancel.pc = "confirm"
    /\ cancel' \in {[cancel EXCEPT !.pc = "cancel"], IdleCancel}
    /\ UNCHANGED <<race, run, dm, creator, notif, sweep, own, hand, modal,
                   announced, cancels, failures, restarts>>

\* One transaction, on the race as it was read by CancelRead: its state is
\* not checked again.
CancelRace ==
    /\ cancel.pc = "cancel"
    /\ race' = "CANCELLED_BY_ADMIN"
    /\ run' = [r \in Racers |-> IF run[r].state = "NONE" THEN run[r]
                                ELSE [run[r] EXCEPT !.state = "CANCELLED_BY_ADMIN"]]
    /\ cancel' = [cancel EXCEPT !.pc = "edit"]
    /\ UNCHANGED <<dm, creator, notif, sweep, own, hand, modal, announced,
                   cancels, failures, restarts>>

CancelFails ==
    /\ cancel.pc = "cancel"
    /\ Fail
    /\ cancel' = IdleCancel
    /\ UNCHANGED <<race, run, dm, creator, notif, sweep, own, hand, modal,
                   announced, cancels, restarts>>

\* The DM the run pointed to when the command read it loses its buttons,
\* if Discord accepts the edit.
CancelEdit(r) ==
    /\ cancel.pc = "edit"
    /\ cancel.mids[r] # 0
    /\ dm' \in {dm, [dm EXCEPT ![r][cancel.mids[r]] = "plain"]}
    /\ cancel' = [cancel EXCEPT !.mids[r] = 0]
    /\ UNCHANGED <<race, run, creator, notif, sweep, own, hand, modal, announced,
                   cancels, failures, restarts>>

CancelDone ==
    /\ cancel.pc = "edit"
    /\ \A r \in Racers : cancel.mids[r] = 0
    /\ cancel' = IdleCancel
    /\ UNCHANGED <<race, run, dm, creator, notif, sweep, own, hand, modal,
                   announced, cancels, failures, restarts>>

-----------------------------------------------------------------------------
(* The racers.  A racer uses what the client shows; each interaction is    *)
(* handled by a task that looks the run up by the id of the DM.            *)

\* AsyncRaceRun::start, finish, report_user_time, set_vod and forfeit: the
\* state each leaves the run in and the column it fills.
Leaves(kind) == CASE kind = "start"   -> "STARTED"
                  [] kind = "finish"  -> "FINISHED"
                  [] kind = "time"    -> "TIME_SUBMITTED"
                  [] kind = "vod"     -> "VOD_SUBMITTED"
                  [] kind = "forfeit" -> "FORFEIT"

Fills(kind) == CASE kind = "start"   -> {"run_started"}
                 [] kind = "finish"  -> {"run_finished"}
                 [] kind = "time"    -> {"reported_run_time"}
                 [] kind = "vod"     -> {"vod"}
                 [] kind = "forfeit" -> {}

Apply(kind, row) == [row EXCEPT !.state = Leaves(kind), !.filled = @ \cup Fills(kind)]

\* The handler of an interaction finds the run with search_by_message_id and
\* changes the copy; no state is checked.  A run that is not found is an error.
Handling(kind, m, row) ==
    IF row.mid # m THEN IdleHand
    ELSE IF kind = "keep"
         THEN [IdleHand EXCEPT !.kind = kind, !.mid = m, !.pc = "respond"]
         ELSE [kind |-> kind, mid |-> m, pc |-> "save", copy |-> Apply(kind, row)]

\* Buttons whose handler touches the run.
Click(r, s, kind, m) ==
    /\ hand[r][s] = IdleHand
    /\ <<kind, dm[r][m]>> \in {<<"start", "start">>, <<"finish", "running">>}
    /\ hand' = [hand EXCEPT ![r][s] = Handling(kind, m, run[r])]
    /\ UNCHANGED <<race, run, dm, creator, notif, sweep, cancel, own, modal,
                   announced, cancels, failures, restarts>>

\* Buttons that only open a modal, "Forfeit" and "VoD ready"; a modal
\* replaces the one the client showed.
OpenModal(r, c, m) ==
    /\ dm[r][m] \in {"running", "vod_ready"}
    /\ modal' = [modal EXCEPT ![r][c] =
                    [kind |-> IF dm[r][m] = "running" THEN "forfeit" ELSE "vod",
                     mid  |-> m]]
    /\ UNCHANGED <<race, run, dm, creator, notif, sweep, cancel, own, hand,
                   announced, cancels, failures, restarts>>

\* "keep": a text other than "forfeit" was entered.
Submit(r, s, c, kind) ==
    /\ hand[r][s] = IdleHand
    /\ \/ kind \in {"time", "vod", "forfeit"} /\ modal[r][c].kind = kind
       \/ kind = "keep" /\ modal[r][c].kind = "forfeit"
    /\ hand' = [hand EXCEPT ![r][s] =
                   Handling(kind, modal[r][c].mid, run[r])]
    /\ modal' = [modal EXCEPT ![r][c] = NoModal]
    /\ UNCHANGED <<race, run, dm, creator, notif, sweep, cancel, own,
                   announced, cancels, failures, restarts>>

HandlerSave(r, s) ==
    /\ hand[r][s].pc = "save"
    /\ run' = [run EXCEPT ![r] = Save(@, hand[r][s].copy)]
    /\ hand' = [hand EXCEPT ![r][s] = [@ EXCEPT !.pc = "respond", !.copy = NoRow]]
    /\ UNCHANGED <<race, dm, creator, notif, sweep, cancel, own, modal,
                   announced, cancels, failures, restarts>>

\* (Broken variant: the answer to the reported time carries no button.)
ShownWithoutVodButton(kind, view) ==
    CASE kind \in {"start", "keep"}    -> "running"
      [] kind \in {"time", "forfeit"} -> "plain"
      [] OTHER                         -> view

\* What the response makes of the DM.  "Finish run" is answered with a modal
\* and the VoD with a message of its own, so both leave the DM alone.
Shown(kind, view) ==
    CASE kind \in {"start", "keep"} -> "running"
      [] kind = "time"              -> "vod_ready"
      [] kind = "forfeit"           -> "plain"
      [] OTHER                      -> view

HandlerRespond(r, s) ==
    /\ hand[r][s].pc = "respond"
    /\ LET h == hand[r][s] IN
          /\ dm' = [dm EXCEPT ![r][h.mid] = Shown(h.kind, @)]
          /\ IF h.kind = "finish"
             THEN \E c \in Clients :
                     modal' = [modal EXCEPT ![r][c] = [kind |-> "time", mid |-> h.mid]]
             ELSE UNCHANGED modal
    /\ hand' = [hand EXCEPT ![r][s] = IdleHand]
    /\ UNCHANGED <<race, run, creator, notif, sweep, cancel, own, announced,
                   cancels, failures, restarts>>

\* No connection, a locked database, or a response that comes too late.
HandlerFails(r, s) ==
    /\ hand[r][s].pc # "idle"
    /\ Fail
    /\ hand' = [hand EXCEPT ![r][s] = IdleHand]
    /\ UNCHANGED <<race, run, dm, creator, notif, sweep, cancel, own, modal,
                   announced, cancels, restarts>>

-----------------------------------------------------------------------------
\* The process dies and is started again: every task is gone; the database,
\* the DMs and the modals in the racers' clients stay.
Restart ==
    /\ restarts < MaxRestarts /\ MayTrouble
    /\ restarts' = restarts + 1
    /\ creator' = IF creator = "idle" THEN "idle" ELSE "gone"
    /\ notif' = [w \in Notifiers |-> [r \in Racers |-> IdleNotif]]
    /\ sweep' = IdleSweep
    /\ cancel' = IdleCancel
    /\ own' = [r \in Racers |-> NoRow]
    /\ hand' = [r \in Racers |-> [s \in Slots |-> IdleHand]]
    /\ UNCHANGED <<race, run, dm, modal, announced, cancels, failures>>

Create == CreateRace \/ CreateFails \/ \E r \in Racers : AddRun(r)

Notify(w, r) ==
    NotifySelf(w, r) \/ NotifySend(w, r) \/ NotifySave(w, r) \/ NotifyFails(w, r)

Sweep == SweepLoad \/ SweepGetRuns \/ SweepNotified \/ SweepAnnounce
            \/ SweepSaveRace \/ SweepSaveFails

Own(r) == OwnLoad(r) \/ OwnSave(r) \/ OwnSaveFails(r)

Cancel == CancelRead \/ CancelGetRuns \/ CancelDecision \/ CancelRace
            \/ CancelFails \/ CancelDone \/ \E r \in Racers : CancelEdit(r)

User(r) ==
    \/ \E s \in Slots, m \in DMs : Click(r, s, "start", m) \/ Click(r, s, "finish", m)
    \/ \E c \in Clients, m \in DMs : OpenModal(r, c, m)
    \/ \E s \in Slots, c \in Clients, kind \in Kinds : Submit(r, s, c, kind)

Handle(r, s) ==
    HandlerSave(r, s) \/ HandlerRespond(r, s) \/ HandlerFails(r, s)

Next ==
    \/ Create \/ Sweep \/ Cancel \/ Restart
    \/ \E w \in Notifiers, r \in Racers : Notify(w, r)
    \/ \E r \in Racers : Own(r) \/ User(r) \/ \E s \in Slots : Handle(r, s)

Spec == Init /\ [][Next]_vars

-----------------------------------------------------------------------------
(* Properties.                                                             *)

\* A racer whose run is CONTACTED can start it: the message the row points to
\* was sent to that racer and still shows the "Start run" button, however many
\* DMs, restarts and stale writes came before.
ContactedCanStart ==
    \A r \in Racers \ Bots :
        run[r].state = "CONTACTED" => run[r].mid # 0 /\ dm[r][run[r].mid] = "start"

\* Past CREATED a run always refers to a DM that exists: otherwise no button of
\* the racer's would find the run again.
RunHasMessage ==
    \A r \in Racers \ Bots :
        run[r].state \notin {"NONE", "CREATED", "CANCELLED_BY_ADMIN"} =>
            run[r].mid # 0 /\ dm[r][run[r].mid] # "unsent"

\* The result that is posted is complete: a run is posted as FORFEIT, or with
\* the start, the finish, the reported time and the VoD all on record.
\* It rests on saves that skip empty columns and on buttons that appear only
\* after the save they follow.
PostedResultsAreComplete ==
    sweep.pc \in {"announce", "finish"} =>
        \A r \in Racers : \/ sweep.copy[r].state = "FORFEIT"
                           \/ /\ sweep.copy[r].state = "VOD_SUBMITTED"
                              /\ sweep.copy[r].filled = Columns

\* The result is posted once, plus once for every failure or restart between
\* the post and the save of the FINISHED race.
PostedOnce == announced <= 1 + failures + restarts

\* A racer of an open race who has been contacted and is not done always has a
\* button to go on with.  It holds for a racer who uses one client and has one
\* interaction handled at a time (Clients and Slots singletons): with two, a
\* slow "Start" can write STARTED over a FORFEIT whose reply has already taken
\* the buttons away.
RunnerCanGoOn ==
    race = "CREATED" =>
        \A r \in Racers \ Bots :
            run[r].state \in {"STARTED", "FINISHED", "TIME_SUBMITTED"} =>
                dm[r][run[r].mid] \in {"start", "running", "vod_ready"}

\* What the sweep posts for r while it holds a finished race.
Result(r) == IF sweep.pc \notin {"announce", "finish"} THEN "none"
             ELSE IF sweep.copy[r].state = "FORFEIT" THEN "forfeit" ELSE "time"

\* The detailed race implements the contract: records are filled in order and
\* lose nothing to stale writes, a result is decided only from forfeits and
\* complete records, and a closed race is never opened again.
Contract == INSTANCE AsyncRaceContract
                WITH record <- [r \in Racers |-> run[r].filled],
                     result <- [r \in Racers |-> Result(r)]

ImplementsContract == Contract!Spec

-----------------------------------------------------------------------------
(* Why the results are complete: nothing is offered, opened or answered    *)
(* before the columns it builds on are in the row, and no column of a row  *)
(* is ever emptied.                                                        *)

\* The columns that precede a state, a button, a modal, an answer.
NeedsOfState(state) ==
    CASE state = "STARTED"        -> {"run_started"}
      [] state = "FINISHED"       -> {"run_started", "run_finished"}
      [] state = "TIME_SUBMITTED" -> Columns \ {"vod"}
      [] state = "VOD_SUBMITTED"  -> Columns
      [] OTHER                    -> {}

NeedsOfView(view) ==
    CASE view = "running"   -> {"run_started"}
      [] view = "vod_ready" -> Columns \ {"vod"}
      [] OTHER              -> {}

NeedsOfModal(kind) ==
    CASE kind = "forfeit" -> {"run_started"}
      [] kind = "time"    -> {"run_started", "run_finished"}
      [] kind = "vod"     -> Columns \ {"vod"}
      [] OTHER            -> {}

NeedsOfAnswer(kind) ==
    CASE kind \in {"start", "keep"} -> {"run_started"}
      [] kind = "finish"            -> {"run_started", "run_finished"}
      [] kind = "time"              -> Columns \ {"vod"}
      [] kind = "vod"               -> Columns
      [] OTHER                      -> {}

\* What r's interaction h, in progress, knows.
HandKnows(r, h) ==
    /\ h.pc = "save" =>
          /\ h.kind \in Kinds \ {"keep"}
          /\ h.copy.state = Leaves(h.kind)
          /\ NeedsOfAnswer(h.kind) \subseteq h.copy.filled
          /\ h.copy.filled \subseteq run[r].filled \cup Fills(h.kind)
    /\ h.pc = "respond" => NeedsOfAnswer(h.kind) \subseteq run[r].filled

RowsInv ==
    \A r \in Racers :
        /\ NeedsOfState(run[r].state) \subseteq run[r].filled
        /\ run[r].state = "NONE" => run[r] = NoRow

ViewsInv == \A r \in Racers, m \in DMs : NeedsOfView(dm[r][m]) \subseteq run[r].filled

ModalsInv ==
    \A r \in Racers, c \in Clients :
        NeedsOfModal(modal[r][c].kind) \subseteq run[r].filled

HandsInv == \A r \in Racers, s \in Slots : HandKnows(r, hand[r][s])

OwnInv ==
    \A r \in Racers :
        /\ own[r].filled \subseteq run[r].filled
        /\ own[r] # NoRow => own[r].state = "FORFEIT"

NotifInv ==
    \A w \in Notifiers, r \in Racers :
        /\ notif[w][r].copy.filled \subseteq run[r].filled
        /\ notif[w][r].pc = "save" => notif[w][r].copy.state = "CONTACTED"

SweepInv ==
    sweep.pc \in {"announce", "finish"} =>
        \A r \in Racers :
            /\ is_finished(sweep.copy[r])
            /\ NeedsOfState(sweep.copy[r].state) \subseteq sweep.copy[r].filled
            /\ sweep.copy[r].filled \subseteq run[r].filled

\* The columns behind the state of a run, behind every button of its DMs and
\* every open modal are on record, and every copy a task works on is of a
\* record the row has reached: what keeps the posted results complete.
RecordInv == RowsInv /\ ViewsInv /\ ModalsInv /\ HandsInv /\ OwnInv /\ NotifInv /\ SweepInv

-----------------------------------------------------------------------------
(* Why a contacted racer can start: the id of a DM is known to nobody but  *)
(* the notification that sent it until that has saved it, and it is only   *)
(* then that a click can change what the DM shows.                         *)

\* Some row, handler, modal or cancel command knows r's DM m.
Refers(r, m) ==
    \/ run[r].mid = m
    \/ \E s \in Slots : hand[r][s].mid = m
    \/ \E c \in Clients : modal[r][c].mid = m
    \/ cancel.mids[r] = m

UnsavedInv(r) ==
    \A w \in Notifiers : notif[w][r].pc = "save" =>
        LET m == notif[w][r].copy.mid IN
        /\ m # 0 /\ dm[r][m] = "start"
        /\ ~Refers(r, m)
        /\ \A v \in Notifiers \ {w} : notif[v][r].pc = "save" => notif[v][r].copy.mid # m

\* Only DMs that were sent are referred to, and only a click on "Start run"
\* is handled while the DM still shows that button.
RefersInv(r) ==
    /\ \A m \in DMs : Refers(r, m) => dm[r][m] # "unsent"
    /\ run[r].state \notin {"NONE", "CREATED", "CANCELLED_BY_ADMIN"} => run[r].mid # 0
    /\ \A s \in Slots : LET h == hand[r][s] IN
        /\ h.pc # "idle" => h.mid # 0 /\ (h.kind # "start" => dm[r][h.mid] # "start")
        /\ h.pc = "save" => h.copy.mid = h.mid
    /\ \A c \in Clients : LET o == modal[r][c] IN
        o.kind # "none" => o.mid # 0 /\ dm[r][o.mid] # "start"

ContactInv(r) ==
    run[r].state = "CONTACTED" =>
        /\ dm[r][run[r].mid] = "start"
        /\ \A s \in Slots : hand[r][s].pc = "respond" => hand[r][s].mid # run[r].mid
        /\ cancel.pc = "edit" => cancel.mids[r] # run[r].mid

\* A DM that is not saved yet is new to everybody else; what is referred to
\* was sent; and whoever is about to change the DM of a contacted run has
\* another DM in mind.
MessageInv ==
    \A r \in Racers \ Bots :
        own[r] = NoRow /\ UnsavedInv(r) /\ RefersInv(r) /\ ContactInv(r)

-----------------------------------------------------------------------------
(* Liveness.  The workers run every cron tick for as long as the bot runs, *)
(* and calls fail only now and then (MaxFailures); racers and admins owe   *)
(* nothing.                                                                *)

FairSpec ==
    /\ Spec
    /\ WF_vars(Sweep \/ \E r \in Racers : Notify("sweep", r))
    /\ \A r \in Racers : WF_vars(Own(r))
    /\ \A r \in Racers, s \in Slots : WF_vars(Handle(r, s))

\* A race whose runs are both finished is closed by the sweep, as finished or,
\* when its runs could not be read, as abandoned, unless a late handler takes
\* one of them back.
FinishedRaceIsClosed ==
    (race = "CREATED" /\ BothRuns /\ \A r \in Racers : is_finished(run[r]))
        ~> (race # "CREATED" \/ \E r \in Racers : ~is_finished(run[r]))

\* The race was given up: cancelled, or abandoned by a sweep that could not
\* read its two runs.
GivenUp == race \in {"ABANDONED", "CANCELLED_BY_ADMIN"}

\* A racer of an open race does not wait for ever: whatever DMs, saves or
\* restarts failed on the way the worker tries again until he is contacted, or
\* the race is given up.  (One failed query for the runs is enough for that.)
RacerIsContacted ==
    \A r \in Racers : (race = "CREATED" /\ run[r].state = "CREATED")
        ~> (run[r].state # "CREATED" \/ GivenUp)

\* A race that was left without its two runs does not stay open for ever.
IncompleteRaceIsClosed ==
    (race = "CREATED" /\ ~BothRuns) ~> (race # "CREATED" \/ BothRuns)

\* The bot gives up the races it was entered in.
BotForfeits ==
    \A r \in Bots : (race = "CREATED" /\ run[r].state = "CONTACTED")
        ~> (run[r].state = "FORFEIT" \/ race # "CREATED")

=============================================================================
