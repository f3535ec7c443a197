--------------------------- MODULE AsyncRaceProofs ---------------------------
(***************************************************************************)
(* Proofs about AsyncRace, for any two racers, any number of concurrent    *)
(* interactions and clients, and any bounds: types, the records of the     *)
(* runs, the contract of AsyncRaceContract, the posts of the result, and   *)
(* the messages that the runs refer to.                                    *)
(***************************************************************************)
EXTENDS AsyncRace, TLAPS

-----------------------------------------------------------------------------
(* Functions updated at one place.                                         *)

LEMMA Update1 ==
    ASSUME NEW A, NEW R, NEW f \in [A -> R], NEW a \in A, NEW v \in R
    PROVE  [f EXCEPT ![a] = v] \in [A -> R]
OBVIOUS

LEMMA Update2 ==
    ASSUME NEW A, NEW B, NEW R, NEW f \in [A -> [B -> R]],
           NEW a \in A, NEW b \in B, NEW v \in R
    PROVE  [f EXCEPT ![a][b] = v] \in [A -> [B -> R]]
OBVIOUS

-----------------------------------------------------------------------------
(* Operators on rows.                                                      *)

LEMMA SaveType ==
    ASSUME NEW row \in Row, NEW copy \in Row
    PROVE  /\ Save(row, copy) \in Row
           /\ Save(row, copy).state = copy.state
           /\ Save(row, copy).filled = row.filled \cup copy.filled
           /\ Save(row, copy).mid = IF copy.mid = 0 THEN row.mid ELSE copy.mid
BY DEF Save, Row

LEMMA NewRowType == NoRow \in Row /\ NewRow \in Row
BY BoundsAssumption DEF NoRow, NewRow, Row, RunState, Columns

LEMMA WithState ==
    ASSUME NEW row \in Row, NEW st \in RunState
    PROVE  /\ [row EXCEPT !.state = st] \in Row
           /\ [row EXCEPT !.state = st].state = st
           /\ [row EXCEPT !.state = st].mid = row.mid
           /\ [row EXCEPT !.state = st].filled = row.filled
BY DEF Row

LEMMA ApplyType ==
    ASSUME NEW kind \in Kinds \ {"keep"}, NEW row \in Row
    PROVE  /\ Apply(kind, row) \in Row
           /\ Apply(kind, row).state = Leaves(kind)
           /\ Apply(kind, row).mid = row.mid
           /\ Apply(kind, row).filled = row.filled \cup Fills(kind)
<1>1. Leaves(kind) \in RunState /\ Fills(kind) \subseteq Columns
  BY DEF Leaves, Fills, Kinds, RunState, Columns
<1>2. QED
  BY <1>1 DEF Apply, Row

LEMMA ContactedType ==
    ASSUME NEW row \in Row, NEW m \in DMs
    PROVE  /\ Contacted(row, m) \in Row
           /\ Contacted(row, m).state = "CONTACTED"
           /\ Contacted(row, m).mid = m
           /\ Contacted(row, m).filled = row.filled
<1>1. m \in 0..MaxDM /\ "CONTACTED" \in RunState
  BY BoundsAssumption DEF DMs, RunState
<1>2. QED
  BY <1>1 DEF Contacted, Row

LEMMA Ids ==
    /\ 0 \in 0..MaxDM
    /\ \A m \in DMs : m \in 0..MaxDM /\ m # 0
    /\ \A m \in 0..MaxDM : m # 0 => m \in DMs
BY BoundsAssumption DEF DMs

LEMMA FailType == failures \in 0..MaxFailures /\ Fail => failures' \in 0..MaxFailures
BY BoundsAssumption DEF Fail

LEMMA IdleHandType == IdleHand \in Handler
BY NewRowType, BoundsAssumption DEF IdleHand, Handler

LEMMA HandlingType ==
    ASSUME NEW kind \in Kinds, NEW m \in 0..MaxDM, NEW row \in Row
    PROVE  Handling(kind, m, row) \in Handler
<1>1. CASE kind = "keep"
  BY <1>1, IdleHandType, NewRowType, BoundsAssumption DEF Handling, Handler, IdleHand, Kinds
<1>2. CASE kind # "keep"
  BY <1>2, ApplyType, IdleHandType, BoundsAssumption DEF Handling, Handler
<1>3. QED
  BY <1>1, <1>2

-----------------------------------------------------------------------------
(* Type correctness.                                                       *)

LEMMA IdleTypes ==
    /\ IdleNotif \in Task
    /\ IdleSweep \in Sweeper
    /\ IdleCancel \in Canceller
    /\ NoModal \in Modal
BY NewRowType, BoundsAssumption
   DEF IdleNotif, Task, IdleSweep, Sweeper, IdleCancel, Canceller, NoModal, Modal

LEMMA InitType == Init => TypeOK
BY NewRowType, BoundsAssumption, IdleTypes, IdleHandType DEF Init, TypeOK, Views

LEMMA CreateType == TypeOK /\ Create => TypeOK'
<1> SUFFICES ASSUME TypeOK, Create PROVE TypeOK'
  OBVIOUS
<1> USE NewRowType DEF TypeOK
<1>1. CASE CreateRace
  BY <1>1 DEF CreateRace, RaceState
<1>2. CASE CreateFails
  BY <1>2, FailType DEF CreateFails
<1>3. ASSUME NEW r \in Racers, AddRun(r) PROVE TypeOK'
  <2>1. run' \in [Racers -> Row]
    BY <1>3 DEF AddRun
  <2>2. notif' \in [Notifiers -> [Racers -> Task]]
    <3>1. [pc |-> "send", copy |-> NewRow] \in Task
      BY DEF Task
    <3>2. [q \in Racers |-> [pc |-> "send", copy |-> NewRow]] \in [Racers -> Task]
      BY <3>1
    <3>3. QED
      BY <1>3, <3>2 DEF AddRun
  <2>3. QED
    BY <1>3, <2>1, <2>2 DEF AddRun
<1>4. QED
  BY <1>1, <1>2, <1>3 DEF Create

LEMMA NotifyType ==
    ASSUME TypeOK, NEW w \in Notifiers, NEW r \in Racers, Notify(w, r)
    PROVE  TypeOK'
<1> USE NewRowType DEF TypeOK
<1> DEFINE copy == notif[w][r].copy
<1>0. notif[w][r] \in Task /\ copy \in Row
  BY DEF Task
<1>1. CASE NotifySelf(w, r)
  <2>1. [pc |-> "save", copy |-> [copy EXCEPT !.state = "CONTACTED"]] \in Task
    BY <1>0, WithState DEF Task, RunState
  <2>2. notif' \in [Notifiers -> [Racers -> Task]]
    BY <1>1, <2>1, Update2 DEF NotifySelf
  <2>3. QED
    BY <1>1, <2>2 DEF NotifySelf
<1>2. CASE NotifySend(w, r)
  <2>1. PICK m \in DMs :
          /\ dm' = [dm EXCEPT ![r][m] = "start"]
          /\ notif' = [notif EXCEPT ![w][r] = [pc |-> "save", copy |-> Contacted(copy, m)]]
    BY <1>2 DEF NotifySend
  <2>2. [pc |-> "save", copy |-> Contacted(copy, m)] \in Task
    BY <1>0, ContactedType DEF Task
  <2>3. notif' \in [Notifiers -> [Racers -> Task]]
    BY <2>1, <2>2, Update2
  <2>4. dm' \in [Racers -> [DMs -> Views]]
    BY <2>1, Update2 DEF Views
  <2>5. QED
    BY <1>2, <2>3, <2>4 DEF NotifySend
<1>3. CASE NotifySave(w, r)
  <2>1. notif' \in [Notifiers -> [Racers -> Task]]
    BY <1>3, IdleTypes, Update2 DEF NotifySave
  <2>2. run' \in [Racers -> Row]
    BY <1>0, <1>3, SaveType, Update1 DEF NotifySave
  <2>3. QED
    BY <1>3, <2>1, <2>2 DEF NotifySave
<1>4. CASE NotifyFails(w, r)
  <2>1. notif' \in [Notifiers -> [Racers -> Task]]
    BY <1>4, IdleTypes, Update2 DEF NotifyFails
  <2>2. QED
    BY <1>4, <2>1, FailType DEF NotifyFails
<1>5. QED
  BY <1>1, <1>2, <1>3, <1>4 DEF Notify

LEMMA SweepType == TypeOK /\ Sweep => TypeOK'
<1> SUFFICES ASSUME TypeOK, Sweep PROVE TypeOK'
  OBVIOUS
<1> USE IdleTypes DEF TypeOK
<1>1. CASE SweepLoad
  <2>1. sweep' \in Sweeper
    BY <1>1 DEF SweepLoad, Sweeper
  <2>2. QED
    BY <1>1, <2>1 DEF SweepLoad
<1>2. CASE SweepGetRuns
  <2>1. sweep' \in Sweeper
    <3>1. CASE sweep' = [pc |-> "announce", copy |-> run]
      BY <3>1 DEF Sweeper
    <3>2. CASE \E pc \in {"abandon", "notify", "idle"} : sweep' = [sweep EXCEPT !.pc = pc]
      BY <3>2 DEF Sweeper
    <3>3. CASE sweep' = IdleSweep
      BY <3>3
    <3>4. QED
      BY <1>2, <3>1, <3>2, <3>3 DEF SweepGetRuns
  <2>2. notif' \in [Notifiers -> [Racers -> Task]]
    <3>1. [r \in Racers |-> IF run[r].state = "CREATED"
                            THEN [pc |-> "send", copy |-> run[r]]
                            ELSE IdleNotif] \in [Racers -> Task]
      BY DEF Task
    <3>2. QED
      BY <1>2, <3>1 DEF SweepGetRuns
  <2>3. failures' \in 0..MaxFailures
    BY <1>2, FailType DEF SweepGetRuns
  <2>4. QED
    BY <1>2, <2>1, <2>2, <2>3 DEF SweepGetRuns
<1>3. CASE SweepNotified
  BY <1>3 DEF SweepNotified
<1>4. CASE SweepAnnounce
  <2>1. sweep' \in Sweeper
    BY <1>4 DEF SweepAnnounce, Sweeper
  <2>2. announced' \in Nat
    <3>1. announced \in Nat /\ announced' = announced + 1
      BY <1>4 DEF SweepAnnounce
    <3> HIDE DEF TypeOK
    <3>2. QED
      BY <3>1
  <2>3. QED
    BY <1>4, <2>1, <2>2 DEF SweepAnnounce
<1>5. CASE SweepSaveRace
  BY <1>5 DEF SweepSaveRace, RaceState
<1>6. CASE SweepSaveFails
  BY <1>6, FailType DEF SweepSaveFails
<1>7. QED
  BY <1>1, <1>2, <1>3, <1>4, <1>5, <1>6 DEF Sweep

LEMMA OwnType == ASSUME TypeOK, NEW r \in Racers, Own(r) PROVE TypeOK'
<1> USE NewRowType DEF TypeOK
<1>1. CASE OwnLoad(r)
  <2>1. own' \in [Racers -> Row]
    BY <1>1, WithState DEF OwnLoad, RunState
  <2>2. QED
    BY <1>1, <2>1 DEF OwnLoad
<1>2. CASE OwnSave(r)
  BY <1>2, SaveType DEF OwnSave
<1>3. CASE OwnSaveFails(r)
  BY <1>3, FailType DEF OwnSaveFails
<1>4. QED
  BY <1>1, <1>2, <1>3 DEF Own

LEMMA CancelType == TypeOK /\ Cancel => TypeOK'
<1> SUFFICES ASSUME TypeOK, Cancel PROVE TypeOK'
  OBVIOUS
<1> USE IdleTypes DEF TypeOK
<1>1. CASE CancelRead
  <2>1. cancel' \in Canceller
    BY <1>1 DEF CancelRead, Canceller
  <2>2. cancels' \in 0..MaxCancels
    <3>1. cancels \in 0..MaxCancels /\ cancels < MaxCancels /\ cancels' = cancels + 1
      BY <1>1 DEF CancelRead
    <3> HIDE DEF TypeOK
    <3>2. QED
      BY <3>1, BoundsAssumption
  <2>3. QED
    BY <1>1, <2>1, <2>2 DEF CancelRead
<1>2. CASE CancelGetRuns
  <2>1. [r \in Racers |-> run[r].mid] \in [Racers -> 0..MaxDM]
    BY DEF Row
  <2>2. cancel' \in Canceller
    BY <1>2, <2>1 DEF CancelGetRuns, Canceller
  <2>3. QED
    BY <1>2, <2>2 DEF CancelGetRuns
<1>3. CASE CancelDecision
  <2>1. cancel' \in Canceller
    BY <1>3 DEF CancelDecision, Canceller
  <2>2. QED
    BY <1>3, <2>1 DEF CancelDecision
<1>4. CASE CancelRace
  <2>1. cancel' \in Canceller
    BY <1>4 DEF CancelRace, Canceller
  <2>2. run' \in [Racers -> Row]
    BY <1>4, WithState DEF CancelRace, RunState
  <2>3. QED
    BY <1>4, <2>1, <2>2 DEF CancelRace, RaceState
<1>5. CASE CancelFails
  BY <1>5, FailType DEF CancelFails
<1>6. CASE CancelDone
  BY <1>6 DEF CancelDone
<1>7. ASSUME NEW r \in Racers, CancelEdit(r) PROVE TypeOK'
  <2>1. cancel.mids[r] \in DMs
    <3>1. cancel.mids[r] \in 0..MaxDM /\ cancel.mids[r] # 0
      BY <1>7 DEF CancelEdit, Canceller
    <3>2. QED
      BY <3>1, Ids
  <2>2. dm' \in [Racers -> [DMs -> Views]]
    <3>1. "plain" \in Views
      BY DEF Views
    <3>2. [dm EXCEPT ![r][cancel.mids[r]] = "plain"] \in [Racers -> [DMs -> Views]]
      BY <2>1, <3>1, Update2
    <3>3. QED
      BY <1>7, <3>2 DEF CancelEdit
  <2>3. cancel' \in Canceller
    BY <1>7, Ids DEF CancelEdit, Canceller
  <2>4. QED
    BY <1>7, <2>2, <2>3 DEF CancelEdit
<1>8. QED
  BY <1>1, <1>2, <1>3, <1>4, <1>5, <1>6, <1>7 DEF Cancel

LEMMA UserType == ASSUME TypeOK, NEW r \in Racers, User(r) PROVE TypeOK'
<1> USE DEF TypeOK
<1>1. ASSUME NEW s \in Slots, NEW m \in DMs, NEW kind \in Kinds, Click(r, s, kind, m)
      PROVE  TypeOK'
  <2>1. Handling(kind, m, run[r]) \in Handler
    BY HandlingType, Ids
  <2>2. hand' \in [Racers -> [Slots -> Handler]]
    BY <1>1, <2>1, Update2 DEF Click
  <2>3. QED
    BY <1>1, <2>2 DEF Click
<1>2. ASSUME NEW c \in Clients, NEW m \in DMs, OpenModal(r, c, m) PROVE TypeOK'
  <2> DEFINE new == [kind |-> IF dm[r][m] = "running" THEN "forfeit" ELSE "vod", mid |-> m]
  <2>1. new \in Modal
    BY Ids DEF Modal
  <2>2. modal' \in [Racers -> [Clients -> Modal]]
    BY <1>2, <2>1, Update2 DEF OpenModal
  <2>3. QED
    BY <1>2, <2>2 DEF OpenModal
<1>3. ASSUME NEW s \in Slots, NEW c \in Clients, NEW kind \in Kinds, Submit(r, s, c, kind)
      PROVE  TypeOK'
  <2>1. modal[r][c].mid \in 0..MaxDM
    BY DEF Modal
  <2>2. hand' \in [Racers -> [Slots -> Handler]]
    <3>1. Handling(kind, modal[r][c].mid, run[r]) \in Handler
      BY <2>1, HandlingType
    <3>2. QED
      BY <1>3, <3>1, Update2 DEF Submit
  <2>3. modal' \in [Racers -> [Clients -> Modal]]
    BY <1>3, IdleTypes, Update2 DEF Submit
  <2>4. QED
    BY <1>3, <2>2, <2>3 DEF Submit
<1>4. QED
  BY <1>1, <1>2, <1>3 DEF User, Kinds

LEMMA HandleType ==
    ASSUME TypeOK, NEW r \in Racers, NEW s \in Slots, Handle(r, s)
    PROVE  TypeOK'
<1> USE NewRowType, IdleHandType DEF TypeOK
<1> DEFINE h == hand[r][s]
<1>0. h \in Handler
  OBVIOUS
<1>1. CASE HandlerSave(r, s)
  <2>1. [h EXCEPT !.pc = "respond", !.copy = NoRow] \in Handler
    BY <1>0 DEF Handler
  <2>2. hand' \in [Racers -> [Slots -> Handler]]
    BY <1>1, <2>1, Update2 DEF HandlerSave
  <2>3. run' \in [Racers -> Row]
    BY <1>0, <1>1, SaveType DEF HandlerSave, Handler
  <2>4. QED
    BY <1>1, <2>2, <2>3 DEF HandlerSave
<1>2. CASE HandlerRespond(r, s)
  <2>1. hand' \in [Racers -> [Slots -> Handler]]
    BY <1>2, Update2 DEF HandlerRespond
  <2>2. dm' \in [Racers -> [DMs -> Views]]
    BY <1>2 DEF HandlerRespond, Shown, Views
  <2>3. modal' \in [Racers -> [Clients -> Modal]]
    <3>1. [kind |-> "time", mid |-> h.mid] \in Modal
      BY <1>0 DEF Handler, Modal
    <3>2. CASE modal' = modal
      BY <3>2
    <3>3. ASSUME NEW c \in Clients,
                 modal' = [modal EXCEPT ![r][c] = [kind |-> "time", mid |-> h.mid]]
          PROVE  modal' \in [Racers -> [Clients -> Modal]]
      BY <3>1, <3>3, Update2
    <3>4. QED
      BY <1>2, <3>2, <3>3 DEF HandlerRespond
  <2>4. QED
    BY <1>2, <2>1, <2>2, <2>3 DEF HandlerRespond
<1>3. CASE HandlerFails(r, s)
  <2>1. hand' \in [Racers -> [Slots -> Handler]]
    BY <1>3, Update2 DEF HandlerFails
  <2>2. QED
    BY <1>3, <2>1, FailType DEF HandlerFails
<1>4. QED
  BY <1>1, <1>2, <1>3 DEF Handle

LEMMA RestartType == TypeOK /\ Restart => TypeOK'
<1> SUFFICES ASSUME TypeOK, Restart PROVE TypeOK'
  OBVIOUS
<1>1. restarts' \in 0..MaxRestarts
  <2>1. restarts \in 0..MaxRestarts /\ restarts < MaxRestarts /\ restarts' = restarts + 1
    BY DEF Restart, TypeOK
  <2>2. QED
    BY <2>1, BoundsAssumption
<1>2. QED
  BY <1>1, NewRowType, IdleTypes, IdleHandType DEF Restart, TypeOK

LEMMA NextType == TypeOK /\ [Next]_vars => TypeOK'
<1> SUFFICES ASSUME TypeOK, [Next]_vars PROVE TypeOK'
  OBVIOUS
<1>1. CASE UNCHANGED vars
  BY <1>1 DEF vars, TypeOK
<1>2. CASE Next
  BY <1>2, CreateType, SweepType, CancelType, RestartType, NotifyType, OwnType,
     UserType, HandleType DEF Next
<1>3. QED
  BY <1>1, <1>2

\* Every row, copy, DM and modal keeps its type, whatever the bounds and the
\* number of interactions handled at once.
THEOREM TypeCorrect == Spec => []TypeOK
<1>1. QED
  BY InitType, NextType, PTL DEF Spec

-----------------------------------------------------------------------------
(* The record of a run only grows, and everything rests on what is there.  *)

Grows == \A r \in Racers : run[r].filled \subseteq run'[r].filled

\* What a step leaves alone stays true while the records grow.
LEMMA Grow ==
    ASSUME RecordInv, Grows
    PROVE  /\ dm' = dm => ViewsInv'
           /\ modal' = modal => ModalsInv'
           /\ hand' = hand => HandsInv'
           /\ own' = own => OwnInv'
           /\ notif' = notif => NotifInv'
           /\ sweep' = sweep => SweepInv'
<1> USE DEF RecordInv, Grows
<1>1. dm' = dm => ViewsInv'
  BY DEF ViewsInv
<1>2. modal' = modal => ModalsInv'
  BY DEF ModalsInv
<1>3. hand' = hand => HandsInv'
  BY DEF HandsInv, HandKnows
<1>4. own' = own => OwnInv'
  BY DEF OwnInv
<1>5. notif' = notif => NotifInv'
  BY DEF NotifInv
<1>6. sweep' = sweep => SweepInv'
  BY DEF SweepInv
<1>7. QED
  BY <1>1, <1>2, <1>3, <1>4, <1>5, <1>6

LEMMA SameRows == ASSUME RecordInv, run' = run PROVE Grows /\ RowsInv'
BY DEF RecordInv, RowsInv, Grows

\* A save of a copy that has the columns of the state it carries.
LEMMA SaveRecord ==
    ASSUME TypeOK, RecordInv, NEW r \in Racers, NEW copy \in Row,
           run' = [run EXCEPT ![r] = Save(@, copy)],
           copy.state # "NONE",
           NeedsOfState(copy.state) \subseteq copy.filled
    PROVE  Grows /\ RowsInv' /\ copy.filled \subseteq run'[r].filled
<1>1. run[r] \in Row /\ run \in [Racers -> Row]
  BY DEF TypeOK
<1>2. /\ run'[r].state = copy.state
      /\ run'[r].filled = run[r].filled \cup copy.filled
      /\ \A q \in Racers \ {r} : run'[q] = run[q]
  BY <1>1, SaveType
<1>3. QED
  BY <1>2 DEF RecordInv, RowsInv, Grows

LEMMA InitRecord == Init => RecordInv
<1> SUFFICES ASSUME Init PROVE RecordInv
  OBVIOUS
<1>1. RowsInv
  BY DEF Init, RowsInv, NoRow, NeedsOfState
<1>2. ViewsInv
  BY DEF Init, ViewsInv, NoRow, NeedsOfView
<1>3. ModalsInv
  BY DEF Init, ModalsInv, NoRow, NoModal, NeedsOfModal
<1>4. HandsInv
  BY DEF Init, HandsInv, HandKnows, IdleHand
<1>5. OwnInv
  BY DEF Init, OwnInv, NoRow
<1>6. NotifInv
  BY DEF Init, NotifInv, IdleNotif, NoRow
<1>7. SweepInv
  BY DEF Init, SweepInv, IdleSweep
<1>8. QED
  BY <1>1, <1>2, <1>3, <1>4, <1>5, <1>6, <1>7 DEF RecordInv

LEMMA CreateRecord == TypeOK /\ RecordInv /\ Create => RecordInv'
<1> SUFFICES ASSUME TypeOK, RecordInv, Create PROVE RecordInv'
  OBVIOUS
<1>1. CASE CreateRace
  BY <1>1, SameRows, Grow DEF CreateRace, RecordInv
<1>2. CASE CreateFails
  BY <1>2, SameRows, Grow DEF CreateFails, RecordInv
<1>3. ASSUME NEW r \in Racers, AddRun(r) PROVE RecordInv'
  <2>1. run' = [run EXCEPT ![r] = NewRow] /\ run[r] = NoRow /\ run \in [Racers -> Row]
    BY <1>3 DEF AddRun, RecordInv, RowsInv, TypeOK
  <2>2. Grows /\ RowsInv'
    BY <2>1 DEF Grows, RecordInv, RowsInv, NewRow, NoRow, NeedsOfState
  <2>3. NotifInv'
    <3>1. CASE notif' = notif
      BY <2>2, <3>1, Grow
    <3>2. CASE notif' = [notif EXCEPT !["create"] =
                            [q \in Racers |-> [pc |-> "send", copy |-> NewRow]]]
      <4>1. notif \in [Notifiers -> [Racers -> Task]]
        BY DEF TypeOK
      <4>2. QED
        BY <2>2, <3>2, <4>1 DEF NotifInv, RecordInv, Grows, NewRow, NoRow
    <3>3. QED
      BY <1>3, <3>1, <3>2 DEF AddRun
  <2>4. QED
    BY <1>3, <2>2, <2>3, Grow DEF AddRun, RecordInv
<1>4. QED
  BY <1>1, <1>2, <1>3 DEF Create

\* notif changes at w, r only.
LEMMA NotifAt ==
    ASSUME TypeOK, RecordInv, Grows, NEW w \in Notifiers, NEW r \in Racers, NEW t \in Task,
           notif' = [notif EXCEPT ![w][r] = t],
           t.copy.filled \subseteq run'[r].filled,
           t.pc = "save" => t.copy.state = "CONTACTED"
    PROVE  NotifInv'
<1>1. notif \in [Notifiers -> [Racers -> Task]]
  BY DEF TypeOK
<1>2. QED
  BY <1>1 DEF NotifInv, RecordInv, Grows

LEMMA NotifyRecord ==
    ASSUME TypeOK, RecordInv, NEW w \in Notifiers, NEW r \in Racers, Notify(w, r)
    PROVE  RecordInv'
<1> DEFINE copy == notif[w][r].copy
<1>0. copy \in Row /\ copy.filled \subseteq run[r].filled
  BY DEF TypeOK, Task, RecordInv, NotifInv
<1>1. CASE NotifySelf(w, r)
  <2> DEFINE t == [pc |-> "save", copy |-> [copy EXCEPT !.state = "CONTACTED"]]
  <2>1. t \in Task /\ t.copy.filled = copy.filled /\ t.copy.state = "CONTACTED"
    BY <1>0, WithState DEF Task, RunState
  <2>2. Grows /\ RowsInv' /\ run' = run
    BY <1>1, SameRows DEF NotifySelf
  <2>3. NotifInv'
    <3>1. notif' = [notif EXCEPT ![w][r] = t]
      BY <1>1 DEF NotifySelf
    <3> HIDE DEF t
    <3>2. QED
      BY <1>0, <2>1, <2>2, <3>1, NotifAt
  <2>4. QED
    BY <1>1, <2>2, <2>3, Grow DEF NotifySelf, RecordInv
<1>2. CASE NotifySend(w, r)
  <2>1. PICK m \in DMs :
          /\ dm' = [dm EXCEPT ![r][m] = "start"]
          /\ notif' = [notif EXCEPT ![w][r] = [pc |-> "save", copy |-> Contacted(copy, m)]]
    BY <1>2 DEF NotifySend
  <2> DEFINE t == [pc |-> "save", copy |-> Contacted(copy, m)]
  <2>2. t \in Task /\ t.copy.filled = copy.filled /\ t.copy.state = "CONTACTED"
    BY <1>0, ContactedType DEF Task
  <2>3. Grows /\ RowsInv' /\ run' = run
    BY <1>2, SameRows DEF NotifySend
  <2>4. NotifInv'
    <3>1. notif' = [notif EXCEPT ![w][r] = t]
      BY <2>1
    <3> HIDE DEF t
    <3>2. QED
      BY <1>0, <2>2, <2>3, <3>1, NotifAt
  <2>5. ViewsInv'
    <3>1. dm \in [Racers -> [DMs -> Views]]
      BY DEF TypeOK
    <3>2. NeedsOfView("start") = {}
      BY DEF NeedsOfView
    <3>3. QED
      BY <2>1, <2>3, <3>1, <3>2 DEF ViewsInv, RecordInv
  <2>6. QED
    BY <1>2, <2>3, <2>4, <2>5, Grow DEF NotifySend, RecordInv
<1>3. CASE NotifySave(w, r)
  <2>1. copy.state = "CONTACTED" /\ NeedsOfState("CONTACTED") = {}
    BY <1>3 DEF NotifySave, RecordInv, NotifInv, NeedsOfState
  <2>2. Grows /\ RowsInv'
    BY <1>0, <1>3, <2>1, SaveRecord DEF NotifySave
  <2>3. NotifInv'
    BY <1>3, <2>2, IdleTypes, NotifAt DEF NotifySave, IdleNotif, NoRow
  <2>4. QED
    BY <1>3, <2>2, <2>3, Grow DEF NotifySave, RecordInv
<1>4. CASE NotifyFails(w, r)
  <2>1. Grows /\ RowsInv'
    BY <1>4, SameRows DEF NotifyFails
  <2>2. NotifInv'
    BY <1>4, <2>1, IdleTypes, NotifAt DEF NotifyFails, IdleNotif, NoRow
  <2>3. QED
    BY <1>4, <2>1, <2>2, Grow DEF NotifyFails, RecordInv
<1>5. QED
  BY <1>1, <1>2, <1>3, <1>4 DEF Notify

LEMMA SweepRecord == TypeOK /\ RecordInv /\ Sweep => RecordInv'
<1> SUFFICES ASSUME TypeOK, RecordInv, Sweep PROVE RecordInv'
  OBVIOUS
<1>0. Sweep => run' = run /\ dm' = dm /\ modal' = modal /\ hand' = hand /\ own' = own
  BY DEF Sweep, SweepLoad, SweepGetRuns, SweepNotified, SweepAnnounce, SweepSaveRace,
         SweepSaveFails
<1>a. Grows /\ RowsInv' /\ ViewsInv' /\ ModalsInv' /\ HandsInv' /\ OwnInv'
  BY <1>0, SameRows, Grow
<1>b. sweep \in Sweeper
  BY DEF TypeOK
<1>c. notif' = notif => NotifInv'
  BY <1>a, Grow
<1>1. CASE SweepLoad
  <2>1. SweepInv'
    BY <1>1, <1>b DEF SweepLoad, SweepInv, Sweeper
  <2>2. QED
    BY <1>1, <1>a, <1>c, <2>1 DEF SweepLoad, RecordInv
<1>2. CASE SweepGetRuns
  <2>1. SweepInv'
    <3>1. CASE sweep' = [pc |-> "announce", copy |-> run] /\ \A r \in Racers : is_finished(run[r])
      BY <1>0, <3>1 DEF SweepInv, RecordInv, RowsInv, is_finished
    <3>2. CASE \E pc \in {"abandon", "notify", "idle"} : sweep' = [sweep EXCEPT !.pc = pc]
      BY <1>b, <3>2 DEF SweepInv, Sweeper
    <3>3. CASE sweep' = IdleSweep
      BY <3>3 DEF SweepInv, IdleSweep
    <3>4. QED
      BY <1>2, <3>1, <3>2, <3>3 DEF SweepGetRuns
  <2>2. NotifInv'
    <3> DEFINE ts == [r \in Racers |-> IF run[r].state = "CREATED"
                                      THEN [pc |-> "send", copy |-> run[r]]
                                      ELSE IdleNotif]
    <3>1. CASE notif' = notif
      BY <1>c, <3>1
    <3>2. CASE notif' = [notif EXCEPT !["sweep"] = ts]
      <4>1. \A r \in Racers : ts[r].copy.filled \subseteq run[r].filled /\ ts[r].pc # "save"
        BY DEF IdleNotif, NoRow
      <4>2. notif \in [Notifiers -> [Racers -> Task]]
        BY DEF TypeOK
      <4> HIDE DEF ts
      <4>3. QED
        BY <1>0, <3>2, <4>1, <4>2 DEF NotifInv, RecordInv
    <3>3. QED
      BY <1>2, <3>1, <3>2 DEF SweepGetRuns
  <2>3. QED
    BY <1>a, <2>1, <2>2 DEF RecordInv
<1>3. CASE SweepNotified
  BY <1>3, <1>a, <1>c DEF SweepNotified, RecordInv, SweepInv, IdleSweep
<1>4. CASE SweepAnnounce
  <2>1. SweepInv'
    BY <1>4, <1>0, <1>b DEF SweepAnnounce, SweepInv, Sweeper, RecordInv
  <2>2. QED
    BY <1>4, <1>a, <1>c, <2>1 DEF SweepAnnounce, RecordInv
<1>5. CASE SweepSaveRace
  BY <1>5, <1>a, <1>c DEF SweepSaveRace, RecordInv, SweepInv, IdleSweep
<1>6. CASE SweepSaveFails
  BY <1>6, <1>a, <1>c DEF SweepSaveFails, RecordInv, SweepInv, IdleSweep
<1>7. QED
  BY <1>1, <1>2, <1>3, <1>4, <1>5, <1>6 DEF Sweep

LEMMA OwnRecord == ASSUME TypeOK, RecordInv, NEW r \in Racers, Own(r) PROVE RecordInv'
<1>0. own \in [Racers -> Row] /\ run[r] \in Row /\ own[r] \in Row
  BY DEF TypeOK
<1>1. CASE OwnLoad(r)
  <2>1. Grows /\ RowsInv'
    BY <1>1, SameRows DEF OwnLoad
  <2>2. OwnInv'
    <3>1. /\ [run[r] EXCEPT !.state = "FORFEIT"].state = "FORFEIT"
          /\ [run[r] EXCEPT !.state = "FORFEIT"].filled = run[r].filled
      BY <1>0, WithState DEF RunState
    <3>2. QED
      BY <1>0, <1>1, <3>1 DEF OwnLoad, OwnInv, RecordInv
  <2>3. QED
    BY <1>1, <2>1, <2>2, Grow DEF OwnLoad, RecordInv
<1>2. CASE OwnSave(r)
  <2>1. own[r].state = "FORFEIT" /\ NeedsOfState("FORFEIT") = {}
    BY <1>2 DEF OwnSave, OwnInv, RecordInv, NeedsOfState
  <2>2. Grows /\ RowsInv'
    BY <1>0, <1>2, <2>1, SaveRecord DEF OwnSave
  <2>3. OwnInv'
    BY <1>0, <1>2, <2>2 DEF OwnSave, OwnInv, RecordInv, Grows, NoRow
  <2>4. QED
    BY <1>2, <2>2, <2>3, Grow DEF OwnSave, RecordInv
<1>3. CASE OwnSaveFails(r)
  <2>1. Grows /\ RowsInv'
    BY <1>3, SameRows DEF OwnSaveFails
  <2>2. OwnInv'
    BY <1>0, <1>3, <2>1 DEF OwnSaveFails, OwnInv, RecordInv, Grows, NoRow
  <2>3. QED
    BY <1>3, <2>1, <2>2, Grow DEF OwnSaveFails, RecordInv
<1>4. QED
  BY <1>1, <1>2, <1>3 DEF Own

LEMMA CancelRecord == TypeOK /\ RecordInv /\ Cancel => RecordInv'
<1> SUFFICES ASSUME TypeOK, RecordInv, Cancel PROVE RecordInv'
  OBVIOUS
<1>1. CASE CancelRead \/ CancelGetRuns \/ CancelDecision \/ CancelFails \/ CancelDone
  <2>1. UNCHANGED <<run, dm, modal, hand, own, notif, sweep>>
    BY <1>1 DEF CancelRead, CancelGetRuns, CancelDecision, CancelFails, CancelDone
  <2>2. QED
    BY <2>1, SameRows, Grow DEF RecordInv
<1>2. CASE CancelRace
  <2>1. run \in [Racers -> Row]
    BY DEF TypeOK
  <2>2. \A r \in Racers : run'[r].filled = run[r].filled
                          /\ (run'[r] = run[r] \/ run'[r].state = "CANCELLED_BY_ADMIN")
    BY <1>2, <2>1, WithState DEF CancelRace, RunState
  <2>3. Grows
    BY <2>2 DEF Grows
  <2>4. RowsInv'
    BY <2>2 DEF RecordInv, RowsInv, NeedsOfState
  <2>5. QED
    BY <1>2, <2>3, <2>4, Grow DEF CancelRace, RecordInv
<1>3. ASSUME NEW r \in Racers, CancelEdit(r) PROVE RecordInv'
  <2>1. Grows /\ RowsInv' /\ run' = run
    BY <1>3, SameRows DEF CancelEdit
  <2>2. ViewsInv'
    <3>1. dm \in [Racers -> [DMs -> Views]]
      BY DEF TypeOK
    <3>2. PICK k : dm' = dm \/ dm' = [dm EXCEPT ![r][k] = "plain"]
      BY <1>3 DEF CancelEdit
    <3>3. \A q \in Racers, m \in DMs : dm'[q][m] = dm[q][m] \/ dm'[q][m] = "plain"
      BY <3>1, <3>2
    <3>4. NeedsOfView("plain") = {}
      BY DEF NeedsOfView
    <3>5. QED
      BY <2>1, <3>3, <3>4 DEF ViewsInv, RecordInv
  <2>3. QED
    BY <1>3, <2>1, <2>2, Grow DEF CancelEdit, RecordInv
<1>4. QED
  BY <1>1, <1>2, <1>3 DEF Cancel

\* hand changes at r, s only.
LEMMA HandAt ==
    ASSUME TypeOK, RecordInv, Grows, NEW r \in Racers, NEW s \in Slots, NEW h \in Handler,
           hand' = [hand EXCEPT ![r][s] = h], HandKnows(r, h)'
    PROVE  HandsInv'
<1>1. hand \in [Racers -> [Slots -> Handler]]
  BY DEF TypeOK
<1>2. ASSUME NEW q \in Racers, NEW t \in Slots PROVE HandKnows(q, hand[q][t])'
  <2>1. CASE q = r /\ t = s
    BY <1>1, <2>1
  <2>2. CASE ~(q = r /\ t = s)
    <3>1. hand'[q][t] = hand[q][t]
      BY <1>1, <2>2
    <3>2. HandKnows(q, hand[q][t])
      BY DEF RecordInv, HandsInv
    <3>3. QED
      BY <3>1, <3>2 DEF HandKnows, Grows
  <2>3. QED
    BY <2>1, <2>2
<1>3. QED
  BY <1>2 DEF HandsInv

\* An interaction that may be begun knows what it needs.
MayBegin(kind, row) ==
    CASE kind = "start" -> TRUE
      [] kind \in {"finish", "keep", "forfeit"} -> {"run_started"} \subseteq row.filled
      [] kind = "time"  -> {"run_started", "run_finished"} \subseteq row.filled
      [] kind = "vod"   -> Columns \ {"vod"} \subseteq row.filled

LEMMA HandlingKnows ==
    ASSUME TypeOK, NEW r \in Racers, NEW kind \in Kinds, NEW m \in 0..MaxDM,
           MayBegin(kind, run[r]), run' = run, NEW h, h = Handling(kind, m, run[r])
    PROVE  HandKnows(r, h)'
<1>1. run[r] \in Row
  BY DEF TypeOK
<1>2. CASE h = IdleHand
  BY <1>2 DEF HandKnows, IdleHand
<1>3. CASE kind = "keep" /\ h # IdleHand
  <2>1. h.pc = "respond" /\ h.kind = "keep"
    BY <1>3 DEF Handling, IdleHand
  <2>2. NeedsOfAnswer("keep") \subseteq run[r].filled
    BY <1>3 DEF MayBegin, NeedsOfAnswer
  <2>3. QED
    BY <2>1, <2>2 DEF HandKnows
<1>4. CASE kind # "keep" /\ h # IdleHand
  <2>1. h.pc = "save" /\ h.kind = kind /\ h.copy = Apply(kind, run[r])
    BY <1>4 DEF Handling
  <2>2. h.copy.state = Leaves(kind) /\ h.copy.filled = run[r].filled \cup Fills(kind)
    BY <1>1, <1>4, <2>1, ApplyType
  <2>3. NeedsOfAnswer(kind) \subseteq run[r].filled \cup Fills(kind)
    BY <1>4 DEF MayBegin, NeedsOfAnswer, Fills, Kinds, Columns
  <2>4. h.pc # "respond" /\ h.kind \in Kinds \ {"keep"} /\ h.copy.state = Leaves(h.kind)
    BY <1>4, <2>1, <2>2
  <2>5. NeedsOfAnswer(h.kind) \subseteq h.copy.filled
    BY <2>1, <2>2, <2>3
  <2>6. h.copy.filled \subseteq run'[r].filled \cup Fills(h.kind)
    BY <2>1, <2>2
  <2>7. QED
    BY <2>4, <2>5, <2>6 DEF HandKnows
<1>5. QED
  BY <1>2, <1>3, <1>4

LEMMA UserRecord == ASSUME TypeOK, TypeOK', RecordInv, NEW r \in Racers, User(r) PROVE RecordInv'
<1>1. ASSUME NEW s \in Slots, NEW m \in DMs, NEW kind \in {"start", "finish"},
             Click(r, s, kind, m)
      PROVE  RecordInv'
  <2>1. Grows /\ RowsInv' /\ run' = run
    BY <1>1, SameRows DEF Click
  <2>2. kind \in Kinds /\ m \in 0..MaxDM
    BY Ids DEF Kinds
  <2>3. MayBegin(kind, run[r])
    <3>1. kind = "finish" => NeedsOfView("running") \subseteq run[r].filled
      BY <1>1 DEF Click, RecordInv, ViewsInv
    <3>2. QED
      BY <3>1 DEF MayBegin, NeedsOfView
  <2>4. HandsInv'
    <3>1. PICK h \in Handler : h = Handling(kind, m, run[r])
      BY <2>2, HandlingType DEF TypeOK
    <3>2. HandKnows(r, h)'
      BY <2>1, <2>2, <2>3, <3>1, HandlingKnows
    <3>3. hand' = [hand EXCEPT ![r][s] = h]
      BY <1>1, <3>1 DEF Click
    <3>4. QED
      BY <2>1, <3>2, <3>3, HandAt
  <2>5. QED
    BY <1>1, <2>1, <2>4, Grow DEF Click, RecordInv
<1>2. ASSUME NEW c \in Clients, NEW m \in DMs, OpenModal(r, c, m) PROVE RecordInv'
  <2>1. Grows /\ RowsInv' /\ run' = run
    BY <1>2, SameRows DEF OpenModal
  <2>2. modal \in [Racers -> [Clients -> Modal]]
    BY DEF TypeOK
  <2> DEFINE kind == IF dm[r][m] = "running" THEN "forfeit" ELSE "vod"
  <2>3. NeedsOfModal(kind) \subseteq run[r].filled
    <3>1. NeedsOfView(dm[r][m]) \subseteq run[r].filled
      BY DEF RecordInv, ViewsInv
    <3>2. QED
      BY <1>2, <3>1 DEF OpenModal, NeedsOfModal, NeedsOfView
  <2>4. modal' = [modal EXCEPT ![r][c] = [kind |-> kind, mid |-> m]]
    BY <1>2 DEF OpenModal
  <2> HIDE DEF kind
  <2>5. ModalsInv'
    BY <2>1, <2>2, <2>3, <2>4 DEF ModalsInv, RecordInv
  <2>6. QED
    BY <1>2, <2>1, <2>5, Grow DEF OpenModal, RecordInv
<1>3. ASSUME NEW s \in Slots, NEW c \in Clients, NEW kind \in Kinds, Submit(r, s, c, kind)
      PROVE  RecordInv'
  <2>1. Grows /\ RowsInv' /\ run' = run
    BY <1>3, SameRows DEF Submit
  <2>2. modal \in [Racers -> [Clients -> Modal]] /\ modal[r][c].mid \in 0..MaxDM
    BY DEF TypeOK, Modal
  <2>3. MayBegin(kind, run[r])
    <3>1. NeedsOfModal(modal[r][c].kind) \subseteq run[r].filled
      BY DEF RecordInv, ModalsInv
    <3>2. QED
      BY <1>3, <3>1 DEF Submit, MayBegin, NeedsOfModal
  <2>4. HandsInv'
    <3>1. PICK k \in 0..MaxDM : k = modal[r][c].mid
      BY <2>2
    <3>2. PICK h \in Handler : h = Handling(kind, k, run[r])
      BY HandlingType DEF TypeOK
    <3>3. HandKnows(r, h)'
      BY <2>1, <2>3, <3>2, HandlingKnows
    <3>4. hand' = [hand EXCEPT ![r][s] = h]
      BY <1>3, <3>1, <3>2 DEF Submit
    <3>5. QED
      BY <2>1, <3>3, <3>4, HandAt
  <2>5. ModalsInv'
    <3>1. NeedsOfModal(NoModal.kind) = {}
      BY DEF NeedsOfModal, NoModal
    <3>2. QED
      BY <1>3, <2>1, <2>2, <3>1 DEF Submit, ModalsInv, RecordInv
  <2>6. QED
    BY <1>3, <2>1, <2>4, <2>5, Grow DEF Submit, RecordInv
<1>4. QED
  BY <1>1, <1>2, <1>3 DEF User

LEMMA HandleRecord ==
    ASSUME TypeOK, RecordInv, NEW r \in Racers, NEW s \in Slots, Handle(r, s)
    PROVE  RecordInv'
<1> DEFINE h == hand[r][s]
<1>0. /\ h \in Handler /\ h.copy \in Row
      /\ hand \in [Racers -> [Slots -> Handler]] /\ HandKnows(r, h)
  BY DEF TypeOK, Handler, RecordInv, HandsInv
<1>1. CASE HandlerSave(r, s)
  <2>1. /\ h.kind \in Kinds \ {"keep"} /\ h.copy.state = Leaves(h.kind)
        /\ NeedsOfAnswer(h.kind) \subseteq h.copy.filled
    BY <1>0, <1>1 DEF HandlerSave, HandKnows
  <2>2. h.copy.state # "NONE" /\ NeedsOfState(h.copy.state) \subseteq h.copy.filled
    BY <2>1 DEF Leaves, Kinds, NeedsOfState, NeedsOfAnswer
  <2>3. Grows /\ RowsInv' /\ h.copy.filled \subseteq run'[r].filled
    BY <1>0, <1>1, <2>2, SaveRecord DEF HandlerSave
  <2>4. HandsInv'
    <3>1. PICK g \in Handler : g = [h EXCEPT !.pc = "respond", !.copy = NoRow]
      BY <1>0, NewRowType DEF Handler
    <3>2. g.pc = "respond" /\ g.kind = h.kind
      BY <1>0, <3>1 DEF Handler
    <3>3. HandKnows(r, g)'
      BY <2>1, <2>3, <3>2 DEF HandKnows
    <3>4. hand' = [hand EXCEPT ![r][s] = g]
      BY <1>1, <3>1 DEF HandlerSave
    <3>5. QED
      BY <2>3, <3>3, <3>4, HandAt
  <2>5. QED
    BY <1>1, <2>3, <2>4, Grow DEF HandlerSave, RecordInv
<1>2. CASE HandlerRespond(r, s)
  <2>1. Grows /\ RowsInv' /\ run' = run
    BY <1>2, SameRows DEF HandlerRespond
  <2>2. NeedsOfAnswer(h.kind) \subseteq run[r].filled
    BY <1>0, <1>2 DEF HandlerRespond, HandKnows
  <2>3. HandsInv'
    BY <1>2, <2>1, IdleHandType, HandAt DEF HandlerRespond, HandKnows, IdleHand
  <2>4. ViewsInv'
    <3>1. \A m \in DMs : NeedsOfView(Shown(h.kind, dm[r][m])) \subseteq run[r].filled
      BY <2>2 DEF Shown, NeedsOfView, NeedsOfAnswer, RecordInv, ViewsInv
    <3>2. dm \in [Racers -> [DMs -> Views]]
          /\ dm' = [dm EXCEPT ![r][h.mid] = Shown(h.kind, dm[r][h.mid])]
      BY <1>2 DEF HandlerRespond, TypeOK
    <3>3. QED
      BY <2>1, <3>1, <3>2 DEF ViewsInv, RecordInv
  <2>5. ModalsInv'
    <3>1. CASE h.kind = "finish"
      <4>1. NeedsOfModal("time") \subseteq run[r].filled
        BY <2>2, <3>1 DEF NeedsOfModal, NeedsOfAnswer
      <4>2. PICK c \in Clients :
              modal' = [modal EXCEPT ![r][c] = [kind |-> "time", mid |-> h.mid]]
        BY <1>2, <3>1 DEF HandlerRespond
      <4>3. QED
        BY <2>1, <4>1, <4>2 DEF ModalsInv, RecordInv, TypeOK
    <3>2. CASE h.kind # "finish"
      BY <1>2, <2>1, <3>2, Grow DEF HandlerRespond
    <3>3. QED
      BY <3>1, <3>2
  <2>6. QED
    BY <1>2, <2>1, <2>3, <2>4, <2>5, Grow DEF HandlerRespond, RecordInv
<1>3. CASE HandlerFails(r, s)
  <2>1. Grows /\ RowsInv' /\ run' = run
    BY <1>3, SameRows DEF HandlerFails
  <2>2. HandsInv'
    BY <1>3, <2>1, IdleHandType, HandAt DEF HandlerFails, HandKnows, IdleHand
  <2>3. QED
    BY <1>3, <2>1, <2>2, Grow DEF HandlerFails, RecordInv
<1>4. QED
  BY <1>1, <1>2, <1>3 DEF Handle

LEMMA RestartRecord == TypeOK /\ RecordInv /\ Restart => RecordInv'
<1> SUFFICES ASSUME TypeOK, RecordInv, Restart PROVE RecordInv'
  OBVIOUS
<1>1. Grows /\ RowsInv' /\ ViewsInv' /\ ModalsInv'
  BY SameRows, Grow DEF Restart
<1>2. HandsInv'
  BY DEF Restart, HandsInv, HandKnows, IdleHand
<1>3. OwnInv' /\ NotifInv'
  BY DEF Restart, OwnInv, NotifInv, IdleNotif, NoRow
<1>4. SweepInv'
  BY DEF Restart, SweepInv, IdleSweep
<1>5. QED
  BY <1>1, <1>2, <1>3, <1>4 DEF RecordInv

LEMMA NextRecord == TypeOK /\ TypeOK' /\ RecordInv /\ [Next]_vars => RecordInv'
<1> SUFFICES ASSUME TypeOK, TypeOK', RecordInv, [Next]_vars PROVE RecordInv'
  OBVIOUS
<1>1. CASE UNCHANGED vars
  BY <1>1, SameRows, Grow DEF vars, RecordInv
<1>2. CASE Next
  BY <1>2, CreateRecord, SweepRecord, CancelRecord, RestartRecord, NotifyRecord,
     OwnRecord, UserRecord, HandleRecord DEF Next
<1>3. QED
  BY <1>1, <1>2

\* Whatever overlaps, is lost, fails or restarts: the columns behind every
\* state, button, modal and answer are in the row.
THEOREM RecordsAreKept == Spec => []RecordInv
<1>1. QED
  BY InitRecord, NextType, NextRecord, TypeCorrect, PTL DEF Spec

\* A result the sweep posts is a forfeit or has all its columns.
THEOREM ResultsAreComplete == Spec => []PostedResultsAreComplete
<1>1. TypeOK /\ RecordInv => PostedResultsAreComplete
  <2> SUFFICES ASSUME TypeOK, RecordInv, sweep.pc \in {"announce", "finish"}, NEW r \in Racers
               PROVE  \/ sweep.copy[r].state = "FORFEIT"
                      \/ /\ sweep.copy[r].state = "VOD_SUBMITTED"
                         /\ sweep.copy[r].filled = Columns
    BY DEF PostedResultsAreComplete
  <2>1. sweep.copy[r].filled \subseteq Columns
    BY DEF TypeOK, Sweeper, Row
  <2>2. QED
    BY <2>1 DEF RecordInv, SweepInv, is_finished, NeedsOfState
<1>2. QED
  BY <1>1, TypeCorrect, RecordsAreKept, PTL

-----------------------------------------------------------------------------
(* How far the race has come.                                              *)

\* Nothing is swept or cancelled before the race is created, and a race is
\* saved as FINISHED after its result was posted.
CourseInv ==
    /\ race = "NONE" <=> creator = "idle"
    /\ race = "NONE" => sweep.pc = "idle" /\ cancel.pc = "idle"
    /\ sweep.pc = "finish" => announced > 0

LEMMA InitCourse == Init => CourseInv
BY DEF Init, CourseInv, IdleSweep, IdleCancel

LEMMA NextCourse == TypeOK /\ CourseInv /\ [Next]_vars => CourseInv'
<1> SUFFICES ASSUME TypeOK, CourseInv, [Next]_vars PROVE CourseInv'
  OBVIOUS
<1> USE DEF CourseInv
<1>0. sweep \in Sweeper /\ cancel \in Canceller /\ announced \in Nat
  BY DEF TypeOK
<1>1. CASE UNCHANGED vars
  BY <1>1 DEF vars
<1>2. CASE Create
  <2>1. CASE CreateRace
    BY <2>1 DEF CreateRace
  <2>2. CASE CreateFails
    BY <2>2 DEF CreateFails
  <2>3. ASSUME NEW r \in Racers, AddRun(r) PROVE CourseInv'
    BY <2>3 DEF AddRun
  <2>4. QED
    BY <1>2, <2>1, <2>2, <2>3 DEF Create
<1>3. CASE Sweep
  <2>1. UNCHANGED <<creator, cancel>> /\ (race = "NONE" => FALSE) /\ race' # "NONE"
    BY <1>3 DEF Sweep, SweepLoad, SweepGetRuns, SweepNotified, SweepAnnounce, SweepSaveRace,
                SweepSaveFails
  <2>2. sweep'.pc = "finish" => announced' > 0
    <3>1. CASE SweepAnnounce
      BY <1>0, <3>1 DEF SweepAnnounce
    <3>2. CASE SweepGetRuns
      BY <1>0, <3>2 DEF SweepGetRuns, Sweeper, IdleSweep
    <3>3. CASE SweepLoad
      BY <1>0, <3>3 DEF SweepLoad, Sweeper
    <3>4. CASE SweepNotified \/ SweepSaveRace \/ SweepSaveFails
      BY <3>4 DEF SweepNotified, SweepSaveRace, SweepSaveFails, IdleSweep
    <3>5. QED
      BY <1>3, <3>1, <3>2, <3>3, <3>4 DEF Sweep
  <2>3. QED
    BY <2>1, <2>2
<1>4. CASE Cancel
  <2>1. UNCHANGED <<creator, sweep, announced>> /\ race # "NONE" /\ race' # "NONE"
    BY <1>4 DEF Cancel, CancelRead, CancelGetRuns, CancelDecision, CancelRace, CancelFails,
                CancelEdit, CancelDone
  <2>2. QED
    BY <2>1
<1>5. CASE Restart
  BY <1>5 DEF Restart, IdleSweep, IdleCancel
<1>6. ASSUME NEW w \in Notifiers, NEW r \in Racers, Notify(w, r) PROVE CourseInv'
  BY <1>6 DEF Notify, NotifySelf, NotifySend, NotifySave, NotifyFails
<1>7. ASSUME NEW r \in Racers, Own(r) PROVE CourseInv'
  BY <1>7 DEF Own, OwnLoad, OwnSave, OwnSaveFails
<1>8. ASSUME NEW r \in Racers, User(r) PROVE CourseInv'
  BY <1>8 DEF User, Click, OpenModal, Submit
<1>9. ASSUME NEW r \in Racers, NEW s \in Slots, Handle(r, s) PROVE CourseInv'
  BY <1>9 DEF Handle, HandlerSave, HandlerRespond, HandlerFails
<1>10. QED
  BY <1>1, <1>2, <1>3, <1>4, <1>5, <1>6, <1>7, <1>8, <1>9 DEF Next

-----------------------------------------------------------------------------
(* Steps of the race as steps of the contract.                             *)

LEMMA InitContract == Init => Contract!Init
BY DEF Init, Contract!Init, Contract!NoResult, NoRow, IdleSweep, Result

\* What the contract sees stays as it is.
LEMMA Stutter ==
    ASSUME \A r \in Racers : run'[r].filled = run[r].filled,
           UNCHANGED <<race, sweep, announced>>
    PROVE  UNCHANGED Contract!vars
BY DEF Contract!vars, Result

\* Steps that only move rows, DMs, handlers and notifications about.
LEMMA NoSweepStep ==
    ASSUME UNCHANGED <<race, sweep, announced>>,
           \/ \A r \in Racers : run'[r].filled = run[r].filled
           \/ \E r \in Racers, c \in Contract!Columns :
                 /\ c \notin run[r].filled
                 /\ Contract!Before(c) \subseteq run[r].filled
                 /\ run'[r].filled = run[r].filled \cup {c}
                 /\ \A q \in Racers : q # r => run'[q] = run[q]
    PROVE  [Contract!Next]_Contract!vars
<1>1. CASE \A r \in Racers : run'[r].filled = run[r].filled
  BY <1>1, Stutter
<1>2. ASSUME NEW r \in Racers, NEW c \in Contract!Columns,
             c \notin run[r].filled,
             Contract!Before(c) \subseteq run[r].filled,
             run'[r].filled = run[r].filled \cup {c},
             \A q \in Racers : q # r => run'[q] = run[q]
      PROVE  [Contract!Next]_Contract!vars
  <2>1. [q \in Racers |-> run'[q].filled]
          = [[q \in Racers |-> run[q].filled] EXCEPT ![r] = @ \cup {c}]
    BY <1>2
  <2>2. [q \in Racers |-> Result(q)]' = [q \in Racers |-> Result(q)]
    BY DEF Result
  <2>3. Contract!Record(r, c)
    BY <1>2, <2>1, <2>2 DEF Contract!Record
  <2>4. QED
    BY <2>3 DEF Contract!Next
<1>3. QED
  BY <1>1, <1>2

LEMMA CreateContract ==
    TypeOK /\ RecordInv /\ CourseInv /\ Create => [Contract!Next]_Contract!vars
<1> SUFFICES ASSUME TypeOK, RecordInv, CourseInv, Create PROVE [Contract!Next]_Contract!vars
  OBVIOUS
<1>1. CASE CreateRace
  <2>1. Contract!Open
    BY <1>1 DEF CreateRace, CourseInv, Contract!Open, Result
  <2>2. QED
    BY <2>1 DEF Contract!Next
<1>2. CASE CreateFails
  BY <1>2, NoSweepStep DEF CreateFails
<1>3. ASSUME NEW r \in Racers, AddRun(r) PROVE [Contract!Next]_Contract!vars
  <2>1. run \in [Racers -> Row] /\ run[r] = NoRow
    BY <1>3 DEF AddRun, TypeOK, RecordInv, RowsInv
  <2>2. \A q \in Racers : run'[q].filled = run[q].filled
    BY <1>3, <2>1 DEF AddRun, NewRow, NoRow
  <2>3. QED
    BY <1>3, <2>2, NoSweepStep DEF AddRun
<1>4. QED
  BY <1>1, <1>2, <1>3 DEF Create

LEMMA SweepContract ==
    TypeOK /\ RecordInv /\ CourseInv /\ Sweep => [Contract!Next]_Contract!vars
<1> SUFFICES ASSUME TypeOK, RecordInv, CourseInv, Sweep PROVE [Contract!Next]_Contract!vars
  OBVIOUS
<1>0. sweep \in Sweeper /\ Racers # {}
  BY RacersAssumption DEF TypeOK
<1>a. run' = run
  BY DEF Sweep, SweepLoad, SweepGetRuns, SweepNotified, SweepAnnounce, SweepSaveRace,
         SweepSaveFails
<1>b. Contract!NoResult = [r \in Racers |-> "none"]
  BY DEF Contract!NoResult
<1>c. ASSUME sweep.pc \notin {"announce", "finish"}, sweep'.pc \notin {"announce", "finish"}
      PROVE  [r \in Racers |-> Result(r)]' = [r \in Racers |-> Result(r)]
  BY <1>c DEF Result
<1>d. ASSUME sweep'.pc \notin {"announce", "finish"}
      PROVE  [r \in Racers |-> Result(r)]' = Contract!NoResult
  BY <1>b, <1>d DEF Result
<1>1. CASE SweepLoad
  BY <1>0, <1>1, <1>a, <1>c DEF SweepLoad, Sweeper, Contract!vars
<1>2. CASE SweepGetRuns
  <2>1. CASE sweep' = [pc |-> "announce", copy |-> run] /\ \A r \in Racers : is_finished(run[r])
    <3>1. [r \in Racers |-> Result(r)] = Contract!NoResult
      BY <1>2, <1>b DEF SweepGetRuns, Result
    <3>2. [r \in Racers |-> Result(r)]' \in [Racers -> {"forfeit", "time"}]
      BY <2>1 DEF Result
    <3>3. ASSUME NEW r \in Racers, Result(r)' = "time" PROVE run[r].filled = Contract!Columns
      <4>1. run[r].state = "VOD_SUBMITTED" /\ run[r] \in Row
        BY <2>1, <3>3 DEF Result, is_finished, TypeOK
      <4>2. QED
        BY <4>1 DEF RecordInv, RowsInv, NeedsOfState, Columns, Contract!Columns, Row
    <3>4. Contract!Decide
      BY <1>2, <1>a, <3>1, <3>2, <3>3 DEF SweepGetRuns, Contract!Decide
    <3>5. QED
      BY <3>4 DEF Contract!Next
  <2>2. CASE sweep' = IdleSweep \/ \E pc \in {"abandon", "notify", "idle"} : sweep' = [sweep EXCEPT !.pc = pc]
    <3>1. sweep'.pc \notin {"announce", "finish"}
      BY <1>0, <2>2 DEF Sweeper, IdleSweep
    <3>2. QED
      BY <1>2, <1>a, <1>c, <3>1 DEF SweepGetRuns, Contract!vars
  <2>3. QED
    BY <1>2, <2>1, <2>2 DEF SweepGetRuns
<1>3. CASE SweepNotified
  BY <1>3, <1>a, <1>c DEF SweepNotified, IdleSweep, Contract!vars
<1>4. CASE SweepAnnounce
  <2>1. sweep.pc = "announce" /\ sweep'.pc = "finish" /\ sweep'.copy = sweep.copy
    BY <1>0, <1>4 DEF SweepAnnounce, Sweeper
  <2>2. [r \in Racers |-> Result(r)]' = [r \in Racers |-> Result(r)]
    BY <2>1 DEF Result
  <2>3. [r \in Racers |-> Result(r)] # Contract!NoResult
    BY <1>0, <1>b, <2>1 DEF Result
  <2>4. Contract!Announce
    BY <1>4, <1>a, <2>2, <2>3 DEF SweepAnnounce, Contract!Announce
  <2>5. QED
    BY <2>4 DEF Contract!Next
<1>5. CASE SweepSaveRace
  <2>0. [r \in Racers |-> Result(r)]' = Contract!NoResult
    BY <1>5, <1>d DEF SweepSaveRace, IdleSweep
  <2>1. CASE sweep.pc = "finish"
    <3>1. [r \in Racers |-> Result(r)] # Contract!NoResult
      BY <1>0, <1>b, <2>1 DEF Result
    <3>2. Contract!Finish
      BY <1>5, <1>a, <2>0, <2>1, <3>1 DEF SweepSaveRace, CourseInv, Contract!Finish
    <3>3. QED
      BY <3>2 DEF Contract!Next
  <2>2. CASE sweep.pc = "abandon"
    <3>1. [r \in Racers |-> Result(r)]' = [r \in Racers |-> Result(r)]
      BY <1>5, <1>c, <2>2 DEF SweepSaveRace, IdleSweep
    <3>2. Contract!Drop
      BY <1>5, <1>a, <2>2, <3>1 DEF SweepSaveRace, CourseInv, Contract!Drop
    <3>3. QED
      BY <3>2 DEF Contract!Next
  <2>3. QED
    BY <1>5, <2>1, <2>2 DEF SweepSaveRace
<1>6. CASE SweepSaveFails
  <2>1. Contract!Withdraw
    BY <1>6, <1>a, <1>d DEF SweepSaveFails, IdleSweep, Contract!Withdraw
  <2>2. QED
    BY <2>1 DEF Contract!Next
<1>7. QED
  BY <1>1, <1>2, <1>3, <1>4, <1>5, <1>6 DEF Sweep

LEMMA CancelContract ==
    TypeOK /\ RecordInv /\ CourseInv /\ Cancel => [Contract!Next]_Contract!vars
<1> SUFFICES ASSUME TypeOK, RecordInv, CourseInv, Cancel PROVE [Contract!Next]_Contract!vars
  OBVIOUS
<1>1. CASE CancelRace
  <2>1. ASSUME NEW r \in Racers PROVE run'[r].filled = run[r].filled
    BY <1>1, WithState DEF CancelRace, TypeOK, RunState
  <2>2. [r \in Racers |-> Result(r)]' = [r \in Racers |-> Result(r)]
    BY <1>1 DEF CancelRace, Result
  <2>3. Contract!Drop
    BY <1>1, <2>1, <2>2 DEF CancelRace, CourseInv, Contract!Drop
  <2>4. QED
    BY <2>3 DEF Contract!Next
<1>2. CASE CancelRead \/ CancelGetRuns \/ CancelDecision \/ CancelFails \/ CancelDone
              \/ \E r \in Racers : CancelEdit(r)
  BY <1>2, NoSweepStep
  DEF CancelRead, CancelGetRuns, CancelDecision, CancelFails, CancelDone, CancelEdit
<1>3. QED
  BY <1>1, <1>2 DEF Cancel

\* A save that fills no column that was empty.
LEMMA OldRecord ==
    ASSUME TypeOK, NEW r \in Racers, NEW copy \in Row, copy.filled \subseteq run[r].filled,
           run' = [run EXCEPT ![r] = Save(@, copy)]
    PROVE  \A q \in Racers : run'[q].filled = run[q].filled
<1>1. run \in [Racers -> Row]
  BY DEF TypeOK
<1>2. run' = [run EXCEPT ![r] = Save(run[r], copy)]
  OBVIOUS
<1>3. Save(run[r], copy).filled = run[r].filled \cup copy.filled
  BY <1>1, SaveType
<1>4. run'[r].filled = run[r].filled /\ \A q \in Racers : q # r => run'[q] = run[q]
  BY <1>1, <1>2, <1>3
<1>5. QED
  BY <1>4

LEMMA NotifyContract ==
    ASSUME TypeOK, RecordInv, NEW w \in Notifiers, NEW r \in Racers, Notify(w, r)
    PROVE  [Contract!Next]_Contract!vars
<1>1. CASE NotifySave(w, r)
  <2>1. notif[w][r].copy \in Row /\ notif[w][r].copy.filled \subseteq run[r].filled
    BY DEF TypeOK, Task, RecordInv, NotifInv
  <2>2. QED
    BY <1>1, <2>1, OldRecord, NoSweepStep DEF NotifySave
<1>2. CASE NotifySelf(w, r) \/ NotifySend(w, r) \/ NotifyFails(w, r)
  BY <1>2, NoSweepStep DEF NotifySelf, NotifySend, NotifyFails
<1>3. QED
  BY <1>1, <1>2 DEF Notify

LEMMA OwnContract ==
    ASSUME TypeOK, RecordInv, NEW r \in Racers, Own(r)
    PROVE  [Contract!Next]_Contract!vars
<1>1. CASE OwnSave(r)
  <2>1. own[r] \in Row /\ own[r].filled \subseteq run[r].filled
    BY DEF TypeOK, RecordInv, OwnInv
  <2>2. QED
    BY <1>1, <2>1, OldRecord, NoSweepStep DEF OwnSave
<1>2. CASE OwnLoad(r) \/ OwnSaveFails(r)
  BY <1>2, NoSweepStep DEF OwnLoad, OwnSaveFails
<1>3. QED
  BY <1>1, <1>2 DEF Own

\* A handler fills the one column of its interaction, after those before it.
LEMMA HandleContract ==
    ASSUME TypeOK, RecordInv, NEW r \in Racers, NEW s \in Slots, Handle(r, s)
    PROVE  [Contract!Next]_Contract!vars
<1>1. CASE HandlerSave(r, s)
  <2> DEFINE kind == hand[r][s].kind
             copy == hand[r][s].copy
  <2>1. /\ run \in [Racers -> Row] /\ copy \in Row
        /\ kind \in Kinds \ {"keep"}
        /\ NeedsOfAnswer(kind) \subseteq copy.filled
        /\ copy.filled \subseteq run[r].filled \cup Fills(kind)
    BY <1>1 DEF HandlerSave, TypeOK, Handler, RecordInv, HandsInv, HandKnows
  <2>2. /\ run'[r].filled = run[r].filled \cup copy.filled
        /\ \A q \in Racers : q # r => run'[q] = run[q]
    BY <1>1, <2>1, SaveType DEF HandlerSave
  <2>3. CASE copy.filled \subseteq run[r].filled
    BY <1>1, <2>1, <2>3, OldRecord, NoSweepStep DEF HandlerSave
  <2>4. CASE ~(copy.filled \subseteq run[r].filled)
    <3>1. PICK c \in Contract!Columns : /\ Fills(kind) = {c}
                                       /\ Contract!Before(c) \subseteq NeedsOfAnswer(kind) \ {c}
      BY <2>1, <2>4 DEF Fills, Kinds, NeedsOfAnswer, Columns, Contract!Columns, Contract!Before
    <3>2. /\ c \notin run[r].filled
          /\ run'[r].filled = run[r].filled \cup {c}
          /\ Contract!Before(c) \subseteq run[r].filled
      BY <2>1, <2>2, <2>4, <3>1
    <3>3. QED
      BY <1>1, <2>2, <3>2, NoSweepStep DEF HandlerSave
  <2>5. QED
    BY <2>3, <2>4
<1>2. CASE HandlerRespond(r, s) \/ HandlerFails(r, s)
  BY <1>2, NoSweepStep DEF HandlerRespond, HandlerFails
<1>3. QED
  BY <1>1, <1>2 DEF Handle

LEMMA UserContract ==
    ASSUME NEW r \in Racers, User(r) PROVE [Contract!Next]_Contract!vars
BY NoSweepStep DEF User, Click, OpenModal, Submit

\* A restart gives up the result that was being posted.
LEMMA RestartContract == Restart => [Contract!Next]_Contract!vars
<1> SUFFICES ASSUME Restart PROVE [Contract!Next]_Contract!vars
  OBVIOUS
<1>1. Contract!Withdraw
  BY DEF Restart, IdleSweep, Result, Contract!Withdraw, Contract!NoResult
<1>2. QED
  BY <1>1 DEF Contract!Next

LEMMA NextContract ==
    TypeOK /\ RecordInv /\ CourseInv /\ [Next]_vars => [Contract!Next]_Contract!vars
<1> SUFFICES ASSUME TypeOK, RecordInv, CourseInv, [Next]_vars PROVE [Contract!Next]_Contract!vars
  OBVIOUS
<1>1. CASE UNCHANGED vars
  BY <1>1, NoSweepStep DEF vars
<1>2. CASE Create \/ Sweep \/ Cancel \/ Restart
  BY <1>2, CreateContract, SweepContract, CancelContract, RestartContract
<1>3. ASSUME NEW w \in Notifiers, NEW r \in Racers, Notify(w, r)
      PROVE  [Contract!Next]_Contract!vars
  BY <1>3, NotifyContract
<1>4. ASSUME NEW r \in Racers, Own(r) \/ User(r) PROVE [Contract!Next]_Contract!vars
  BY <1>4, OwnContract, UserContract
<1>5. ASSUME NEW r \in Racers, NEW s \in Slots, Handle(r, s)
      PROVE  [Contract!Next]_Contract!vars
  BY <1>5, HandleContract
<1>6. QED
  BY <1>1, <1>2, <1>3, <1>4, <1>5 DEF Next

-----------------------------------------------------------------------------
\* The race keeps its contract whatever overlaps, fails or restarts: records
\* are filled column by column, results are decided from complete records or
\* forfeits, and a race that left CREATED is never open again.
THEOREM RefinesContract == Spec => ImplementsContract
<1>1. Spec => []CourseInv
  BY InitCourse, NextCourse, TypeCorrect, PTL DEF Spec
<1>2. QED
  BY <1>1, InitContract, NextContract, TypeCorrect, RecordsAreKept, PTL
  DEF Spec, ImplementsContract, Contract!Spec

-----------------------------------------------------------------------------
(* Posts of the result.                                                    *)

\* Every post but the last was followed by a failure or a restart before the
\* race was saved.  Once it is saved nothing is swept any more, because it is
\* never open again.
PostedInv ==
    /\ announced <= 1 + failures + restarts
    /\ (\/ race \in {"NONE", "CREATED"} /\ sweep.pc = "idle"
        \/ sweep.pc \in {"loaded", "abandon", "announce", "notify"})
       => announced <= failures + restarts

LEMMA NextPosted == TypeOK /\ CourseInv /\ PostedInv /\ [Next]_vars => PostedInv'
<1> SUFFICES ASSUME TypeOK, CourseInv, PostedInv, [Next]_vars PROVE PostedInv'
  OBVIOUS
<1> USE DEF PostedInv
<1>0. /\ sweep \in Sweeper /\ announced \in Nat /\ failures \in Nat /\ restarts \in Nat
  <2>1. /\ sweep \in Sweeper /\ announced \in Nat
        /\ failures \in 0..MaxFailures /\ restarts \in 0..MaxRestarts
    BY DEF TypeOK
  <2>2. QED
    BY <2>1, BoundsAssumption DEF BoundsAssumption
<1>1. ASSUME UNCHANGED <<sweep, announced, restarts>>, failures' \in {failures, failures + 1},
             race' = "CREATED" => race \in {"NONE", "CREATED"}, race' # "NONE" \/ race = "NONE"
      PROVE  PostedInv'
  <2>1. sweep' = sweep /\ announced' = announced /\ restarts' = restarts
    BY <1>1
  <2>2. failures' \in Nat /\ failures <= failures'
    BY <1>0, <1>1
  <2>3. \A a, f, g, s \in Nat : a <= 1 + f + s /\ f <= g => a <= 1 + g + s
    OBVIOUS
  <2>4. \A a, f, g, s \in Nat : a <= f + s /\ f <= g => a <= g + s
    OBVIOUS
  <2>5. announced <= 1 + failures + restarts => announced <= 1 + failures' + restarts
    BY <1>0, <2>2, <2>3
  <2>6. announced <= failures + restarts => announced <= failures' + restarts
    BY <1>0, <2>2, <2>4
  <2>7. race' \in {"NONE", "CREATED"} => race \in {"NONE", "CREATED"}
    BY <1>1
  <2>8. QED
    BY <2>1, <2>5, <2>6, <2>7
<1>2. CASE UNCHANGED vars
  BY <1>1, <1>2 DEF vars
<1>3. CASE Create
  <2>1. /\ UNCHANGED <<sweep, announced, restarts>> /\ failures' \in {failures, failures + 1}
        /\ race' = "CREATED" => race \in {"NONE", "CREATED"}
        /\ race' # "NONE" \/ race = "NONE"
    BY <1>3 DEF Create, CreateRace, CreateFails, AddRun, Fail, CourseInv
  <2>2. QED
    BY <1>1, <2>1
<1>4. CASE Cancel
  <2>1. /\ UNCHANGED <<sweep, announced, restarts>> /\ failures' \in {failures, failures + 1}
        /\ race' \in {race, "CANCELLED_BY_ADMIN"}
    BY <1>4 DEF Cancel, CancelRead, CancelGetRuns, CancelDecision, CancelRace, CancelFails,
                CancelEdit, CancelDone, Fail
  <2>2. QED
    BY <1>1, <2>1
<1>5. CASE Restart
  BY <1>0, <1>5 DEF Restart, IdleSweep
<1>6. ASSUME NEW w \in Notifiers, NEW r \in Racers, Notify(w, r) PROVE PostedInv'
  BY <1>1, <1>6 DEF Notify, NotifySelf, NotifySend, NotifySave, NotifyFails, Fail
<1>7. ASSUME NEW r \in Racers, Own(r) \/ User(r) PROVE PostedInv'
  BY <1>1, <1>7 DEF Own, OwnLoad, OwnSave, OwnSaveFails, User, Click, OpenModal, Submit, Fail
<1>8. ASSUME NEW r \in Racers, NEW s \in Slots, Handle(r, s) PROVE PostedInv'
  BY <1>1, <1>8 DEF Handle, HandlerSave, HandlerRespond, HandlerFails, Fail
<1>9. CASE Sweep
  <2>1. CASE SweepLoad
    BY <1>0, <2>1 DEF SweepLoad, Sweeper
  <2>2. CASE SweepGetRuns
    <3>1. /\ announced' = announced /\ restarts' = restarts /\ sweep.pc = "loaded"
          /\ failures' \in {failures, failures + 1}
      BY <2>2 DEF SweepGetRuns, Fail
    <3>2. announced <= failures + restarts
      BY <3>1
    <3>3. failures' \in Nat /\ failures <= failures'
      BY <1>0, <3>1
    <3>4. \A a, f, g, s \in Nat : a <= f + s /\ f <= g => a <= g + s /\ a <= 1 + g + s
      OBVIOUS
    <3>5. announced <= failures' + restarts /\ announced <= 1 + failures' + restarts
      BY <1>0, <3>2, <3>3, <3>4
    <3>6. QED
      BY <3>1, <3>5
  <2>3. CASE SweepNotified
    BY <1>0, <2>3 DEF SweepNotified, IdleSweep
  <2>4. CASE SweepAnnounce
    BY <1>0, <2>4 DEF SweepAnnounce, Sweeper
  <2>5. CASE SweepSaveRace
    BY <1>0, <2>5 DEF SweepSaveRace, IdleSweep
  <2>6. CASE SweepSaveFails
    BY <1>0, <2>6 DEF SweepSaveFails, IdleSweep, Fail
  <2>7. QED
    BY <1>9, <2>1, <2>2, <2>3, <2>4, <2>5, <2>6 DEF Sweep
<1>10. QED
  BY <1>2, <1>3, <1>4, <1>5, <1>6, <1>7, <1>8, <1>9 DEF Next

\* The result of a race is posted once, plus once for every failure or restart
\* that came between a post and the save of the FINISHED race, although the
\* race may be cancelled, and its runs written, meanwhile.
THEOREM ResultIsPostedOnce == Spec => []PostedOnce
<1>1. Init => PostedInv
  BY DEF Init, PostedInv, IdleSweep
<1>2. Spec => []CourseInv
  BY InitCourse, NextCourse, TypeCorrect, PTL DEF Spec
<1>3. Spec => []PostedInv
  BY <1>1, <1>2, NextPosted, TypeCorrect, PTL DEF Spec
<1>4. PostedInv => PostedOnce
  BY DEF PostedInv, PostedOnce
<1>5. QED
  BY <1>3, <1>4, PTL

-----------------------------------------------------------------------------
(* Each step concerns one racer, or gives all of them something harmless.  *)

\* What MessageInv says of one racer.
MessageOf(r) == own[r] = NoRow /\ UnsavedInv(r) /\ RefersInv(r) /\ ContactInv(r)

\* Nobody gets hold of a message of r, and no run becomes CONTACTED.
Harmless(r) ==
    /\ run'[r].mid = run[r].mid
    /\ run'[r].state \in {run[r].state, "CREATED", "CANCELLED_BY_ADMIN"}
    /\ dm'[r] = dm[r]
    /\ own'[r] \in {own[r], NoRow}
    /\ \A s \in Slots : hand'[r][s] \in {hand[r][s], IdleHand}
    /\ \A c \in Clients : modal'[r][c] \in {modal[r][c], NoModal}
    /\ \A w \in Notifiers : notif'[w][r] = notif[w][r] \/ notif'[w][r].pc # "save"
    /\ cancel'.mids[r] \in {cancel.mids[r], run[r].mid, 0}
    /\ cancel'.pc = "edit" /\ run'[r].state = "CONTACTED" =>
            cancel.pc = "edit" /\ cancel'.mids[r] \in {cancel.mids[r], 0}

LEMMA SentIds ==
    ASSUME TypeOK, NEW r \in Racers \ Bots, MessageOf(r)
    PROVE  /\ run[r].mid \in 0..MaxDM /\ cancel.mids[r] \in 0..MaxDM
           /\ \A m \in 0..MaxDM : m # 0 => m \in DMs
           /\ \A s \in Slots : hand[r][s].mid \in 0..MaxDM
           /\ \A c \in Clients : modal[r][c].mid \in 0..MaxDM
<1>1. run[r] \in Row /\ cancel \in Canceller
  BY DEF TypeOK
<1>2. \A s \in Slots : hand[r][s] \in Handler
  BY DEF TypeOK
<1>3. \A c \in Clients : modal[r][c] \in Modal
  BY DEF TypeOK
<1>4. QED
  BY <1>1, <1>2, <1>3, Ids DEF Row, Canceller, Handler, Modal

LEMMA HarmlessStep ==
    ASSUME NEW r \in Racers \ Bots, MessageOf(r), Harmless(r)
    PROVE  MessageOf(r)'
<1> USE DEF MessageOf, Harmless
<1>1. \A m : m # 0 /\ Refers(r, m)' => Refers(r, m)
  BY DEF Refers, IdleHand, NoModal
<1>2. UnsavedInv(r)'
  BY <1>1 DEF UnsavedInv
<1>3. RefersInv(r)'
  <2>1. \A m \in DMs : Refers(r, m)' => dm'[r][m] # "unsent"
    BY <1>1, Ids DEF RefersInv
  <2>2. run'[r].state \notin {"NONE", "CREATED", "CANCELLED_BY_ADMIN"} => run'[r].mid # 0
    BY DEF RefersInv
  <2>3. ASSUME NEW s \in Slots
        PROVE  LET h == hand'[r][s] IN
               /\ h.pc # "idle" => h.mid # 0 /\ (h.kind # "start" => dm'[r][h.mid] # "start")
               /\ h.pc = "save" => h.copy.mid = h.mid
    BY DEF RefersInv, IdleHand
  <2>4. ASSUME NEW c \in Clients
        PROVE  LET o == modal'[r][c] IN
               o.kind # "none" => o.mid # 0 /\ dm'[r][o.mid] # "start"
    BY DEF RefersInv, NoModal
  <2>5. QED
    BY <2>1, <2>2, <2>3, <2>4 DEF RefersInv
<1>4. ContactInv(r)'
  <2>1. run[r].state = "CONTACTED" => run[r].mid # 0
    BY DEF RefersInv
  <2>2. QED
    BY <2>1 DEF ContactInv, IdleHand
<1>5. QED
  BY <1>2, <1>3, <1>4

\* Steps that are harmless to everybody.
LEMMA HarmlessToAll ==
    ASSUME MessageInv, \A r \in Racers \ Bots : Harmless(r)
    PROVE  MessageInv'
BY HarmlessStep DEF MessageInv, MessageOf

\* Steps that concern r.
LEMMA StepOf ==
    ASSUME MessageInv, NEW r \in Racers,
           r \notin Bots => MessageOf(r)',
           \A q \in Racers \ Bots : q # r => Harmless(q)
    PROVE  MessageInv'
BY HarmlessStep DEF MessageInv, MessageOf

-----------------------------------------------------------------------------
(* One lemma per group of actions.                                         *)

LEMMA InitMessage == Init => MessageInv
<1> SUFFICES ASSUME Init, NEW r \in Racers \ Bots
             PROVE  own[r] = NoRow /\ UnsavedInv(r) /\ RefersInv(r) /\ ContactInv(r)
  BY DEF MessageInv
<1>1. own[r] = NoRow /\ UnsavedInv(r) /\ ContactInv(r)
  BY DEF Init, UnsavedInv, ContactInv, IdleNotif, NoRow
<1>2. RefersInv(r)
  BY Ids DEF Init, RefersInv, Refers, NoRow, IdleHand, NoModal, IdleCancel
<1>3. QED
  BY <1>1, <1>2

LEMMA CreateMessage == TypeOK /\ RecordInv /\ MessageInv /\ Create => MessageInv'
<1> SUFFICES ASSUME TypeOK, RecordInv, MessageInv, Create PROVE MessageInv'
  OBVIOUS
<1>1. CASE CreateRace \/ CreateFails
  BY <1>1, HarmlessToAll DEF CreateRace, CreateFails, Harmless
<1>2. ASSUME NEW r \in Racers, AddRun(r) PROVE MessageInv'
  <2>1. /\ run \in [Racers -> Row] /\ notif \in [Notifiers -> [Racers -> Task]]
        /\ run[r] = NoRow
    BY <1>2 DEF AddRun, TypeOK, RecordInv, RowsInv
  <2>2. ASSUME NEW q \in Racers PROVE run'[q].mid = run[q].mid /\ run'[q].state \in {run[q].state, "CREATED"}
    BY <1>2, <2>1 DEF AddRun, NewRow, NoRow
  <2>3. ASSUME NEW q \in Racers, NEW w \in Notifiers
        PROVE  notif'[w][q] = notif[w][q] \/ notif'[w][q].pc # "save"
    <3> DEFINE ts == [p \in Racers |-> [pc |-> "send", copy |-> NewRow]]
    <3>1. ts[q].pc # "save"
      OBVIOUS
    <3>2. notif' = notif \/ notif' = [notif EXCEPT !["create"] = ts]
      BY <1>2 DEF AddRun
    <3> HIDE DEF ts
    <3>3. QED
      BY <2>1, <3>1, <3>2
  <2>4. QED
    BY <1>2, <2>2, <2>3, HarmlessToAll DEF AddRun, Harmless
<1>3. QED
  BY <1>1, <1>2 DEF Create

LEMMA SweepMessage == TypeOK /\ MessageInv /\ Sweep => MessageInv'
<1> SUFFICES ASSUME TypeOK, MessageInv, Sweep PROVE MessageInv'
  OBVIOUS
<1>1. UNCHANGED <<run, dm, own, hand, modal, cancel>>
  BY DEF Sweep, SweepLoad, SweepGetRuns, SweepNotified, SweepAnnounce, SweepSaveRace,
         SweepSaveFails
<1>2. ASSUME NEW r \in Racers, NEW w \in Notifiers
      PROVE  notif'[w][r] = notif[w][r] \/ notif'[w][r].pc # "save"
  <2> DEFINE ts == [q \in Racers |-> IF run[q].state = "CREATED"
                                    THEN [pc |-> "send", copy |-> run[q]]
                                    ELSE IdleNotif]
  <2>1. ts[r].pc # "save"
    BY DEF IdleNotif
  <2>2. notif' = notif \/ notif' = [notif EXCEPT !["sweep"] = ts]
    BY DEF Sweep, SweepLoad, SweepGetRuns, SweepNotified, SweepAnnounce, SweepSaveRace,
           SweepSaveFails
  <2>3. notif \in [Notifiers -> [Racers -> Task]]
    BY DEF TypeOK
  <2> HIDE DEF ts
  <2>4. QED
    BY <2>1, <2>2, <2>3
<1>3. QED
  BY <1>1, <1>2, HarmlessToAll DEF Harmless

LEMMA OwnMessage ==
    ASSUME TypeOK, MessageInv, NEW r \in Racers, Own(r)
    PROVE  MessageInv'
<1>1. r \in Bots
  BY DEF Own, OwnLoad, OwnSave, OwnSaveFails, MessageInv
<1>2. own \in [Racers -> Row] /\ run \in [Racers -> Row]
  BY DEF TypeOK
<1>3. ASSUME NEW q \in Racers \ Bots PROVE own'[q] = own[q] /\ run'[q] = run[q]
  BY <1>1, <1>2 DEF Own, OwnLoad, OwnSave, OwnSaveFails
<1>4. UNCHANGED <<dm, notif, hand, modal, cancel>>
  BY DEF Own, OwnLoad, OwnSave, OwnSaveFails
<1>5. QED
  BY <1>3, <1>4, HarmlessToAll DEF Harmless

LEMMA RestartMessage == MessageInv /\ Restart => MessageInv'
<1> SUFFICES ASSUME MessageInv, Restart PROVE MessageInv'
  OBVIOUS
<1>1. \A r \in Racers \ Bots : Harmless(r)
  BY DEF Restart, Harmless, IdleNotif, IdleCancel
<1>2. QED
  BY <1>1, HarmlessToAll

LEMMA CancelMessage == TypeOK /\ MessageInv /\ Cancel => MessageInv'
<1> SUFFICES ASSUME TypeOK, MessageInv, Cancel PROVE MessageInv'
  OBVIOUS
<1>0. cancel \in Canceller /\ run \in [Racers -> Row] /\ dm \in [Racers -> [DMs -> Views]]
  BY DEF TypeOK
<1>1. CASE CancelRead \/ CancelGetRuns \/ CancelDecision \/ CancelFails \/ CancelDone
  <2>1. UNCHANGED <<run, dm, own, hand, modal, notif>>
    BY <1>1 DEF CancelRead, CancelGetRuns, CancelDecision, CancelFails, CancelDone
  <2>2. cancel'.pc # "edit" /\ \A r \in Racers : cancel'.mids[r] \in {cancel.mids[r], run[r].mid, 0}
    BY <1>0, <1>1 DEF CancelRead, CancelGetRuns, CancelDecision, CancelFails, CancelDone,
                     IdleCancel, Canceller
  <2>3. QED
    BY <2>1, <2>2, HarmlessToAll DEF Harmless
<1>2. CASE CancelRace
  <2>1. ASSUME NEW r \in Racers
        PROVE  run'[r].mid = run[r].mid /\ run'[r].state \in {"NONE", "CANCELLED_BY_ADMIN"}
                /\ (run'[r].state = "NONE" => run[r].state = "NONE")
    BY <1>0, <1>2, WithState DEF CancelRace, RunState
  <2>2. cancel'.mids = cancel.mids
    BY <1>0, <1>2 DEF CancelRace, Canceller
  <2>3. QED
    BY <1>2, <2>1, <2>2, HarmlessToAll DEF CancelRace, Harmless
<1>3. ASSUME NEW r \in Racers, CancelEdit(r) PROVE MessageInv'
  <2> DEFINE k == cancel.mids[r]
  <2>1. /\ cancel.pc = "edit" /\ cancel'.pc = "edit" /\ k # 0 /\ cancel'.mids[r] = 0
        /\ \A q \in Racers : q # r => cancel'.mids[q] = cancel.mids[q]
    BY <1>0, <1>3 DEF CancelEdit, Canceller
  <2>2. /\ UNCHANGED <<run, own, hand, modal, notif>>
        /\ \A q \in Racers : q # r => dm'[q] = dm[q]
        /\ dm'[r] = dm[r] \/ dm'[r] = [dm[r] EXCEPT ![k] = "plain"]
    BY <1>0, <1>3 DEF CancelEdit
  <2>3. \A q \in Racers \ Bots : q # r => Harmless(q)
    BY <2>1, <2>2 DEF Harmless
  <2>4. ASSUME r \notin Bots PROVE MessageOf(r)'
    <3>1. MessageOf(r)
      BY <2>4 DEF MessageInv, MessageOf
    <3>2. CASE dm'[r] = dm[r]
      BY <2>1, <2>2, <2>4, <3>1, <3>2, HarmlessStep DEF Harmless
    <3>3. CASE dm'[r] = [dm[r] EXCEPT ![k] = "plain"]
      <4>1. dm[r] \in [DMs -> Views]
        BY <1>0
      <4>2. \A m : m # 0 /\ Refers(r, m)' => Refers(r, m)
        BY <2>1, <2>2 DEF Refers
      <4>3. Refers(r, k)
        BY DEF Refers
      <4>4. UnsavedInv(r)'
        <5>1. ASSUME NEW v \in Notifiers, notif[v][r].pc = "save"
              PROVE  dm'[r][notif[v][r].copy.mid] = "start"
          BY <3>1, <3>3, <4>1, <4>3, <5>1 DEF MessageOf, UnsavedInv
        <5>2. QED
          BY <2>2, <3>1, <4>2, <5>1 DEF MessageOf, UnsavedInv
      <4>5. RefersInv(r)'
        <5>1. \A m \in DMs : dm'[r][m] \in {dm[r][m], "plain"}
          BY <3>3, <4>1
        <5>2. \A m \in DMs : Refers(r, m)' => dm'[r][m] # "unsent"
          BY <3>1, <4>2, <5>1, Ids DEF MessageOf, RefersInv
        <5>3. \A m \in 0..MaxDM : m # 0 /\ dm[r][m] # "start" => dm'[r][m] # "start"
          BY <5>1, Ids
        <5>4. QED
          BY <2>2, <2>4, <3>1, <5>2, <5>3, SentIds DEF MessageOf, RefersInv
      <4>6. ContactInv(r)'
        <5>1. run[r].state = "CONTACTED" => run[r].mid \in DMs /\ run[r].mid # k
          BY <2>1, <2>4, <3>1, SentIds DEF MessageOf, ContactInv, RefersInv
        <5>2. run[r].state = "CONTACTED" => dm'[r][run[r].mid] = "start"
          BY <3>1, <3>3, <4>1, <5>1 DEF MessageOf, ContactInv
        <5>3. cancel'.mids[r] # run[r].mid \/ run[r].state # "CONTACTED"
          BY <2>1, <5>1, Ids
        <5>4. QED
          BY <2>2, <3>1, <5>2, <5>3 DEF MessageOf, ContactInv
      <4>7. QED
        BY <2>2, <3>1, <4>4, <4>5, <4>6 DEF MessageOf
    <3>4. QED
      BY <2>2, <3>2, <3>3
  <2>5. QED
    BY <2>3, <2>4, StepOf
<1>4. QED
  BY <1>1, <1>2, <1>3 DEF Cancel

\* notify_racer changes nothing of another racer.
LEMMA NotifyOthers ==
    ASSUME TypeOK, NEW w \in Notifiers, NEW r \in Racers, Notify(w, r)
    PROVE  \A q \in Racers \ Bots : q # r => Harmless(q)
<1>1. /\ run \in [Racers -> Row] /\ dm \in [Racers -> [DMs -> Views]]
      /\ notif \in [Notifiers -> [Racers -> Task]]
  BY DEF TypeOK
<1>2. UNCHANGED <<own, hand, modal, cancel>>
  BY DEF Notify, NotifySelf, NotifySend, NotifySave, NotifyFails
<1>3. ASSUME NEW q \in Racers, q # r
      PROVE  /\ run'[q] = run[q] /\ dm'[q] = dm[q]
             /\ \A v \in Notifiers : notif'[v][q] = notif[v][q]
  BY <1>1, <1>3 DEF Notify, NotifySelf, NotifySend, NotifySave, NotifyFails
<1>4. QED
  BY <1>2, <1>3 DEF Harmless

LEMMA NotifySendMessage ==
    ASSUME TypeOK, NEW w \in Notifiers, NEW r \in Racers \ Bots, MessageOf(r), NotifySend(w, r)
    PROVE  MessageOf(r)'
<1>0. dm \in [Racers -> [DMs -> Views]] /\ notif \in [Notifiers -> [Racers -> Task]]
  BY DEF TypeOK
<1>1. PICK m \in DMs :
        /\ dm[r][m] = "unsent"
        /\ dm' = [dm EXCEPT ![r][m] = "start"]
        /\ notif' = [notif EXCEPT ![w][r] = [pc |-> "save", copy |-> Contacted(@.copy, m)]]
  BY DEF NotifySend
<1>2. UNCHANGED <<run, own, hand, modal, cancel>>
  BY DEF NotifySend
<1>3. /\ dm'[r][m] = "start"
      /\ \A k \in DMs : k # m => dm'[r][k] = dm[r][k]
  BY <1>0, <1>1
<1>4. /\ notif'[w][r].pc = "save" /\ notif'[w][r].copy.mid = m
      /\ \A v \in Notifiers : v # w => notif'[v][r] = notif[v][r]
  <2>1. notif[w][r].copy \in Row
    BY <1>0 DEF Task
  <2>2. Contacted(notif[w][r].copy, m).mid = m
    BY <2>1, ContactedType
  <2>3. QED
    BY <1>0, <1>1, <2>2
<1>5. m # 0 /\ m \in 0..MaxDM /\ ~Refers(r, m) /\ \A k : Refers(r, k)' <=> Refers(r, k)
  BY <1>1, <1>2, Ids DEF MessageOf, RefersInv, Refers
<1>6. ASSUME NEW k \in 0..MaxDM, k # 0, Refers(r, k)
      PROVE  k \in DMs /\ k # m /\ dm'[r][k] = dm[r][k]
  BY <1>3, <1>5, <1>6, Ids
<1>7. UnsavedInv(r)'
  <2>1. ASSUME NEW v \in Notifiers, v # w, notif[v][r].pc = "save"
        PROVE  LET k == notif[v][r].copy.mid IN
               k # m /\ k # 0 /\ ~Refers(r, k) /\ dm'[r][k] = "start"
    <3>1. notif[v][r].copy.mid \in 0..MaxDM
      BY <1>0 DEF Task, Row
    <3>2. QED
      BY <1>1, <1>3, <2>1, <3>1, Ids DEF MessageOf, UnsavedInv
  <2>2. QED
    BY <1>3, <1>4, <1>5, <2>1 DEF MessageOf, UnsavedInv
<1>8. RefersInv(r)'
  <2>1. \A s \in Slots : Refers(r, hand[r][s].mid)
    BY DEF Refers
  <2>2. \A c \in Clients : Refers(r, modal[r][c].mid)
    BY DEF Refers
  <2>3. \A k \in DMs : Refers(r, k)' => dm'[r][k] # "unsent"
    BY <1>5, <1>6, Ids DEF MessageOf, RefersInv
  <2>4. \A s \in Slots : hand[r][s].mid # 0 => dm'[r][hand[r][s].mid] = dm[r][hand[r][s].mid]
    BY <1>6, <2>1, SentIds
  <2>5. \A c \in Clients : modal[r][c].mid # 0 => dm'[r][modal[r][c].mid] = dm[r][modal[r][c].mid]
    BY <1>6, <2>2, SentIds
  <2>6. QED
    BY <1>2, <2>3, <2>4, <2>5 DEF MessageOf, RefersInv
<1>9. ContactInv(r)'
  <2>1. Refers(r, run[r].mid) /\ run[r].mid \in 0..MaxDM
    BY SentIds DEF Refers
  <2>2. run[r].state = "CONTACTED" => dm'[r][run[r].mid] = dm[r][run[r].mid]
    BY <1>6, <2>1 DEF MessageOf, RefersInv
  <2>3. QED
    BY <1>2, <2>2 DEF MessageOf, ContactInv
<1>10. QED
  BY <1>2, <1>7, <1>8, <1>9 DEF MessageOf

LEMMA NotifySaveMessage ==
    ASSUME TypeOK, RecordInv, NEW w \in Notifiers, NEW r \in Racers \ Bots, MessageOf(r),
           NotifySave(w, r)
    PROVE  MessageOf(r)'
<1> DEFINE m == notif[w][r].copy.mid
<1>0. /\ run \in [Racers -> Row] /\ notif \in [Notifiers -> [Racers -> Task]]
      /\ notif[w][r].copy \in Row
  BY DEF TypeOK, Task
<1>1. m # 0 /\ m \in DMs /\ dm[r][m] = "start" /\ ~Refers(r, m)
  BY <1>0, Ids DEF NotifySave, MessageOf, UnsavedInv, Row
<1>2. UNCHANGED <<dm, own, hand, modal, cancel>>
  BY DEF NotifySave
<1>3. run'[r].state = "CONTACTED" /\ run'[r].mid = m
  BY <1>0, <1>1, SaveType DEF NotifySave, RecordInv, NotifInv
<1>4. notif'[w][r].pc = "idle" /\ \A v \in Notifiers : v # w => notif'[v][r] = notif[v][r]
  BY <1>0 DEF NotifySave, IdleNotif
<1>5. \A k : Refers(r, k)' => Refers(r, k) \/ k = m
  BY <1>2, <1>3 DEF Refers
<1> HIDE DEF m
<1>6. UnsavedInv(r)'
  <2>1. ASSUME NEW v \in Notifiers, v # w, notif[v][r].pc = "save"
        PROVE  notif[v][r].copy.mid # m
    BY <2>1 DEF MessageOf, UnsavedInv, NotifySave, m
  <2>2. QED
    BY <1>2, <1>4, <1>5, <2>1 DEF MessageOf, UnsavedInv
<1>7. RefersInv(r)'
  <2>1. \A k \in DMs : Refers(r, k)' => dm'[r][k] # "unsent"
    BY <1>1, <1>2, <1>5 DEF MessageOf, RefersInv
  <2>2. QED
    BY <1>1, <1>2, <1>3, <2>1 DEF MessageOf, RefersInv
<1>8. ContactInv(r)'
  <2>1. cancel.mids[r] # m /\ \A s \in Slots : hand[r][s].mid # m
    BY <1>1 DEF Refers
  <2>2. QED
    BY <1>1, <1>2, <1>3, <2>1 DEF ContactInv
<1>9. QED
  BY <1>2, <1>6, <1>7, <1>8 DEF MessageOf

LEMMA NotifyMessage ==
    ASSUME TypeOK, RecordInv, MessageInv, NEW w \in Notifiers, NEW r \in Racers, Notify(w, r)
    PROVE  MessageInv'
<1>1. ASSUME r \notin Bots PROVE MessageOf(r)'
  <2>0. MessageOf(r) /\ r \in Racers \ Bots
    BY <1>1 DEF MessageInv, MessageOf
  <2>1. CASE NotifySelf(w, r)
    BY <1>1, <2>1 DEF NotifySelf
  <2>2. CASE NotifySend(w, r)
    BY <2>0, <2>2, NotifySendMessage
  <2>3. CASE NotifySave(w, r)
    BY <2>0, <2>3, NotifySaveMessage
  <2>4. CASE NotifyFails(w, r)
    <3>1. notif \in [Notifiers -> [Racers -> Task]]
      BY DEF TypeOK
    <3>2. Harmless(r)
      BY <2>4, <3>1 DEF NotifyFails, Harmless, IdleNotif
    <3>3. QED
      BY <2>0, <3>2, HarmlessStep
  <2>5. QED
    BY <2>1, <2>2, <2>3, <2>4 DEF Notify
<1>2. QED
  BY <1>1, NotifyOthers, StepOf

\* An interaction of r begins, for the run that the DM belongs to, or ends.
LEMMA HandMessage ==
    ASSUME TypeOK, NEW r \in Racers \ Bots, MessageOf(r), NEW s \in Slots, NEW h,
           UNCHANGED <<run, dm, own, notif, cancel>>,
           hand' = [hand EXCEPT ![r][s] = h],
           \A c \in Clients : modal'[r][c] \in {modal[r][c], NoModal},
           \/ h = IdleHand
           \/ /\ h.mid = run[r].mid /\ h.mid # 0
              /\ h.kind # "start" \/ h.pc = "respond" => dm[r][h.mid] # "start"
              /\ h.pc = "save" => h.copy.mid = h.mid
    PROVE  MessageOf(r)'
<1>1. hand \in [Racers -> [Slots -> Handler]]
  BY DEF TypeOK
<1>2. hand'[r][s] = h /\ \A t \in Slots : t # s => hand'[r][t] = hand[r][t]
  BY <1>1
<1>3. \A m : m # 0 /\ Refers(r, m)' => Refers(r, m)
  BY <1>2 DEF Refers, IdleHand, NoModal
<1>4. UnsavedInv(r)'
  BY <1>3 DEF MessageOf, UnsavedInv
<1>5. RefersInv(r)'
  <2>1. \A m \in DMs : Refers(r, m)' => dm'[r][m] # "unsent"
    BY <1>3, Ids DEF MessageOf, RefersInv
  <2>2. ASSUME NEW t \in Slots
        PROVE  LET k == hand'[r][t] IN
               /\ k.pc # "idle" => k.mid # 0 /\ (k.kind # "start" => dm'[r][k.mid] # "start")
               /\ k.pc = "save" => k.copy.mid = k.mid
    BY <1>2 DEF MessageOf, RefersInv, IdleHand
  <2>3. ASSUME NEW c \in Clients
        PROVE  LET o == modal'[r][c] IN
               o.kind # "none" => o.mid # 0 /\ dm'[r][o.mid] # "start"
    BY DEF MessageOf, RefersInv, NoModal
  <2>4. QED
    BY <2>1, <2>2, <2>3 DEF MessageOf, RefersInv
<1>6. ContactInv(r)'
  <2>1. ASSUME run[r].state = "CONTACTED", NEW t \in Slots, hand'[r][t].pc = "respond"
        PROVE  hand'[r][t].mid # run[r].mid
    <3>1. CASE t # s
      BY <1>2, <2>1, <3>1 DEF MessageOf, ContactInv
    <3>2. CASE t = s
      BY <1>2, <2>1, <3>2 DEF MessageOf, ContactInv, IdleHand
    <3>3. QED
      BY <3>1, <3>2
  <2>2. QED
    BY <2>1 DEF MessageOf, ContactInv
<1>7. QED
  BY <1>4, <1>5, <1>6 DEF MessageOf

LEMMA HandlingMessage ==
    ASSUME TypeOK, NEW r \in Racers, NEW kind \in Kinds, NEW m \in 0..MaxDM, m # 0,
           kind = "start" \/ dm[r][m] # "start"
    PROVE  LET h == Handling(kind, m, run[r]) IN
           \/ h = IdleHand
           \/ /\ h.mid = run[r].mid /\ h.mid # 0
              /\ h.kind # "start" \/ h.pc = "respond" => dm[r][h.mid] # "start"
              /\ h.pc = "save" => h.copy.mid = h.mid
<1>1. run[r] \in Row
  BY DEF TypeOK
<1>2. CASE run[r].mid # m
  BY <1>2 DEF Handling
<1>3. CASE run[r].mid = m /\ kind = "keep"
  BY <1>3 DEF Handling, IdleHand
<1>4. CASE run[r].mid = m /\ kind # "keep"
  BY <1>1, <1>4, ApplyType DEF Handling
<1>5. QED
  BY <1>2, <1>3, <1>4

\* What a racer and their handlers do is nothing to the other racer.
LEMMA OnlyMine ==
    ASSUME TypeOK, NEW r \in Racers, User(r) \/ \E s \in Slots : Handle(r, s),
           NEW q \in Racers, q # r
    PROVE  run'[q] = run[q] /\ dm'[q] = dm[q] /\ hand'[q] = hand[q] /\ modal'[q] = modal[q]
<1>1. /\ run \in [Racers -> Row] /\ dm \in [Racers -> [DMs -> Views]]
      /\ hand \in [Racers -> [Slots -> Handler]]
      /\ modal \in [Racers -> [Clients -> Modal]]
  BY DEF TypeOK
<1>2. CASE User(r)
  BY <1>1, <1>2 DEF User, Click, OpenModal, Submit
<1>3. ASSUME NEW s \in Slots, HandlerSave(r, s) \/ HandlerFails(r, s)
      PROVE  run'[q] = run[q] /\ dm'[q] = dm[q] /\ hand'[q] = hand[q] /\ modal'[q] = modal[q]
  BY <1>1, <1>3 DEF HandlerSave, HandlerFails
<1>4. ASSUME NEW s \in Slots, HandlerRespond(r, s)
      PROVE  run'[q] = run[q] /\ dm'[q] = dm[q] /\ hand'[q] = hand[q] /\ modal'[q] = modal[q]
  BY <1>1, <1>4 DEF HandlerRespond
<1>5. QED
  BY <1>2, <1>3, <1>4 DEF Handle

LEMMA UserOthers ==
    ASSUME TypeOK, NEW r \in Racers, User(r) \/ \E s \in Slots : Handle(r, s)
    PROVE  \A q \in Racers \ Bots : q # r => Harmless(q)
<1>1. UNCHANGED <<own, notif, cancel>>
  BY DEF User, Click, OpenModal, Submit, Handle, HandlerSave, HandlerRespond, HandlerFails
<1>2. QED
  BY <1>1, OnlyMine DEF Harmless

LEMMA UserMessage ==
    ASSUME TypeOK, NEW r \in Racers \ Bots, MessageOf(r), User(r)
    PROVE  MessageOf(r)'
<1>0. modal \in [Racers -> [Clients -> Modal]]
  BY DEF TypeOK
<1>1. ASSUME NEW s \in Slots, NEW m \in DMs, NEW kind \in Kinds, Click(r, s, kind, m)
      PROVE  MessageOf(r)'
  <2> DEFINE h == Handling(kind, m, run[r])
  <2>1. kind = "start" \/ dm[r][m] # "start"
    BY <1>1 DEF Click
  <2>2. \/ h = IdleHand
        \/ /\ h.mid = run[r].mid /\ h.mid # 0
           /\ h.kind # "start" \/ h.pc = "respond" => dm[r][h.mid] # "start"
           /\ h.pc = "save" => h.copy.mid = h.mid
    BY <2>1, Ids, HandlingMessage
  <2>3. hand' = [hand EXCEPT ![r][s] = h]
    BY <1>1 DEF Click
  <2> HIDE DEF h
  <2>4. QED
    BY <1>1, <2>2, <2>3, HandMessage DEF Click
<1>2. ASSUME NEW c \in Clients, NEW m \in DMs, OpenModal(r, c, m)
      PROVE  MessageOf(r)'
  <2>1. /\ dm[r][m] \notin {"unsent", "start"} /\ m # 0
        /\ UNCHANGED <<run, dm, own, notif, hand, cancel>>
    BY <1>2, Ids DEF OpenModal
  <2>2. modal'[r][c].mid = m /\ \A d \in Clients : d # c => modal'[r][d] = modal[r][d]
    BY <1>0, <1>2 DEF OpenModal
  <2>3. \A k : Refers(r, k)' => Refers(r, k) \/ k = m
    BY <2>1, <2>2 DEF Refers
  <2>4. UnsavedInv(r)'
    BY <2>1, <2>3 DEF MessageOf, UnsavedInv
  <2>5. RefersInv(r)'
    <3>1. \A k \in DMs : Refers(r, k)' => dm'[r][k] # "unsent"
      BY <2>1, <2>3 DEF MessageOf, RefersInv
    <3>2. QED
      BY <2>1, <2>2, <3>1 DEF MessageOf, RefersInv
  <2>6. QED
    BY <2>1, <2>4, <2>5 DEF MessageOf, ContactInv
<1>3. ASSUME NEW s \in Slots, NEW c \in Clients, NEW kind \in Kinds, Submit(r, s, c, kind)
      PROVE  MessageOf(r)'
  <2> DEFINE h == Handling(kind, modal[r][c].mid, run[r])
  <2>1. modal[r][c].mid # 0 /\ dm[r][modal[r][c].mid] # "start"
    BY <1>3 DEF Submit, MessageOf, RefersInv
  <2>2. \/ h = IdleHand
        \/ /\ h.mid = run[r].mid /\ h.mid # 0
           /\ h.kind # "start" \/ h.pc = "respond" => dm[r][h.mid] # "start"
           /\ h.pc = "save" => h.copy.mid = h.mid
    BY <2>1, SentIds, HandlingMessage
  <2>3. hand' = [hand EXCEPT ![r][s] = h]
    BY <1>3 DEF Submit
  <2>4. \A d \in Clients : modal'[r][d] \in {modal[r][d], NoModal}
    BY <1>0, <1>3 DEF Submit
  <2> HIDE DEF h
  <2>5. QED
    BY <1>3, <2>2, <2>3, <2>4, HandMessage DEF Submit
<1>4. QED
  BY <1>1, <1>2, <1>3 DEF User, Kinds

LEMMA HandlerSaveMessage ==
    ASSUME TypeOK, RecordInv, NEW r \in Racers \ Bots, MessageOf(r), NEW s \in Slots,
           HandlerSave(r, s)
    PROVE  MessageOf(r)'
<1> DEFINE h == hand[r][s]
<1>0. /\ run \in [Racers -> Row] /\ hand \in [Racers -> [Slots -> Handler]]
      /\ h.copy \in Row /\ h.pc = "save" /\ h.mid \in 0..MaxDM
  BY DEF TypeOK, Handler, HandlerSave
<1>1. h.mid # 0 /\ h.copy.mid = h.mid /\ (h.kind # "start" => dm[r][h.mid] # "start")
  BY <1>0 DEF MessageOf, RefersInv
<1>2. h.copy.state # "CONTACTED"
  BY <1>0 DEF RecordInv, HandsInv, HandKnows, Leaves, Kinds
<1>3. UNCHANGED <<dm, own, notif, modal, cancel>>
  BY DEF HandlerSave
<1>4. run'[r].mid = h.mid /\ run'[r].state # "CONTACTED"
  BY <1>0, <1>1, <1>2, SaveType DEF HandlerSave
<1>5. /\ hand'[r][s].pc = "respond" /\ hand'[r][s].mid = h.mid /\ hand'[r][s].kind = h.kind
      /\ \A t \in Slots : t # s => hand'[r][t] = hand[r][t]
  BY <1>0 DEF HandlerSave, Handler
<1>6. \A m : Refers(r, m)' => Refers(r, m)
  BY <1>3, <1>4, <1>5 DEF Refers
<1>7. UnsavedInv(r)'
  BY <1>3, <1>6 DEF MessageOf, UnsavedInv
<1> HIDE DEF h
<1>8. RefersInv(r)'
  <2>1. \A m \in DMs : Refers(r, m)' => dm'[r][m] # "unsent"
    BY <1>3, <1>6 DEF MessageOf, RefersInv
  <2>2. ASSUME NEW t \in Slots
        PROVE  LET k == hand'[r][t] IN
               /\ k.pc # "idle" => k.mid # 0 /\ (k.kind # "start" => dm'[r][k.mid] # "start")
               /\ k.pc = "save" => k.copy.mid = k.mid
    BY <1>1, <1>3, <1>5 DEF MessageOf, RefersInv
  <2>3. QED
    BY <1>1, <1>3, <1>4, <2>1, <2>2 DEF MessageOf, RefersInv
<1>9. ContactInv(r)'
  BY <1>4 DEF ContactInv
<1>10. QED
  BY <1>3, <1>7, <1>8, <1>9 DEF MessageOf

LEMMA HandlerRespondMessage ==
    ASSUME TypeOK, NEW r \in Racers \ Bots, MessageOf(r), NEW s \in Slots,
           HandlerRespond(r, s)
    PROVE  MessageOf(r)'
<1> DEFINE h == hand[r][s]
<1>0. /\ dm \in [Racers -> [DMs -> Views]] /\ hand \in [Racers -> [Slots -> Handler]]
      /\ modal \in [Racers -> [Clients -> Modal]]
      /\ h \in Handler
  BY DEF TypeOK
<1>1. /\ h.pc = "respond" /\ h.mid \in DMs /\ h.mid # 0 /\ Refers(r, h.mid)
      /\ (h.kind # "start" => dm[r][h.mid] # "start")
      /\ dm[r][h.mid] # "unsent"
  BY SentIds DEF HandlerRespond, MessageOf, RefersInv, Refers
<1>2. UNCHANGED <<run, own, notif, cancel>>
  BY DEF HandlerRespond
<1>3. /\ dm'[r][h.mid] = Shown(h.kind, dm[r][h.mid])
      /\ \A m \in DMs : m # h.mid => dm'[r][m] = dm[r][m]
  BY <1>0, <1>1 DEF HandlerRespond
<1>4. /\ hand'[r][s] = IdleHand
      /\ \A t \in Slots : t # s => hand'[r][t] = hand[r][t]
  BY <1>0 DEF HandlerRespond
<1>5. \A c \in Clients :
        \/ modal'[r][c] = modal[r][c]
        \/ h.kind = "finish" /\ modal'[r][c] = [kind |-> "time", mid |-> h.mid]
  BY <1>0 DEF HandlerRespond
<1>6. \A m \in DMs : /\ dm[r][m] # "unsent" => dm'[r][m] # "unsent"
                     /\ dm[r][m] # "start" => dm'[r][m] # "start"
  <2>1. dm'[r][h.mid] \in {dm[r][h.mid], "running", "vod_ready", "plain"}
    BY <1>3 DEF Shown
  <2>2. QED
    BY <1>3, <2>1
<1>7. \A m : m # 0 /\ Refers(r, m)' => Refers(r, m)
  BY <1>1, <1>2, <1>4, <1>5 DEF Refers, IdleHand
<1> HIDE DEF h
<1>8. UnsavedInv(r)'
  <2>1. ASSUME NEW w \in Notifiers, notif[w][r].pc = "save"
        PROVE  dm'[r][notif[w][r].copy.mid] = "start"
    <3>1. notif[w][r] \in Task
      BY DEF TypeOK
    <3>2. notif[w][r].copy.mid \in DMs /\ notif[w][r].copy.mid # h.mid
      BY <1>1, <2>1, <3>1, Ids DEF MessageOf, UnsavedInv, Task, Row
    <3>3. QED
      BY <1>3, <2>1, <3>2 DEF MessageOf, UnsavedInv
  <2>2. QED
    BY <1>2, <1>7, <2>1 DEF MessageOf, UnsavedInv
<1>9. RefersInv(r)'
  <2>1. \A m \in DMs : Refers(r, m)' => dm'[r][m] # "unsent"
    BY <1>6, <1>7, Ids DEF MessageOf, RefersInv
  <2>2. ASSUME NEW t \in Slots
        PROVE  LET k == hand'[r][t] IN
               /\ k.pc # "idle" => k.mid # 0 /\ (k.kind # "start" => dm'[r][k.mid] # "start")
               /\ k.pc = "save" => k.copy.mid = k.mid
    <3>1. CASE t = s
      BY <1>4, <3>1 DEF IdleHand
    <3>2. CASE t # s
      <4>1. hand'[r][t] = hand[r][t] /\ hand[r][t].mid \in 0..MaxDM
        BY <1>4, <3>2, SentIds
      <4>2. QED
        BY <1>6, <4>1, Ids DEF MessageOf, RefersInv
    <3>3. QED
      BY <3>1, <3>2
  <2>3. ASSUME NEW c \in Clients
        PROVE  LET o == modal'[r][c] IN
               o.kind # "none" => o.mid # 0 /\ dm'[r][o.mid] # "start"
    <3>1. CASE modal'[r][c] = modal[r][c]
      <4>1. modal[r][c].mid \in 0..MaxDM
        BY SentIds
      <4>2. QED
        BY <1>6, <3>1, <4>1, Ids DEF MessageOf, RefersInv
    <3>2. CASE h.kind = "finish" /\ modal'[r][c] = [kind |-> "time", mid |-> h.mid]
      BY <1>1, <1>6, <3>2
    <3>3. QED
      BY <1>5, <3>1, <3>2
  <2>4. QED
    BY <1>2, <2>1, <2>2, <2>3 DEF MessageOf, RefersInv
<1>10. ContactInv(r)'
  <2>1. ASSUME run[r].state = "CONTACTED" PROVE dm'[r][run[r].mid] = "start"
    <3>1. run[r].mid \in DMs /\ run[r].mid # h.mid
      BY <1>1, <2>1, SentIds DEF MessageOf, RefersInv, ContactInv, h
    <3>2. QED
      BY <1>3, <2>1, <3>1 DEF MessageOf, ContactInv
  <2>2. \A t \in Slots : hand'[r][t].pc = "respond" => hand'[r][t] = hand[r][t]
    BY <1>4 DEF IdleHand
  <2>3. QED
    BY <1>2, <2>1, <2>2 DEF MessageOf, ContactInv
<1>11. QED
  BY <1>2, <1>8, <1>9, <1>10 DEF MessageOf

LEMMA HandleMessage ==
    ASSUME TypeOK, RecordInv, NEW r \in Racers \ Bots, MessageOf(r), NEW s \in Slots,
           Handle(r, s)
    PROVE  MessageOf(r)'
<1>1. CASE HandlerSave(r, s)
  BY <1>1, HandlerSaveMessage
<1>2. CASE HandlerRespond(r, s)
  BY <1>2, HandlerRespondMessage
<1>3. CASE HandlerFails(r, s)
  BY <1>3, HandMessage DEF HandlerFails
<1>4. QED
  BY <1>1, <1>2, <1>3 DEF Handle

LEMMA NextMessage == TypeOK /\ RecordInv /\ MessageInv /\ [Next]_vars => MessageInv'
<1> SUFFICES ASSUME TypeOK, RecordInv, MessageInv, [Next]_vars PROVE MessageInv'
  OBVIOUS
<1>1. CASE UNCHANGED vars
  BY <1>1, HarmlessToAll DEF vars, Harmless
<1>2. CASE Create \/ Sweep \/ Cancel \/ Restart
  BY <1>2, CreateMessage, SweepMessage, CancelMessage, RestartMessage
<1>3. ASSUME NEW w \in Notifiers, NEW r \in Racers, Notify(w, r) PROVE MessageInv'
  BY <1>3, NotifyMessage
<1>4. ASSUME NEW r \in Racers, Own(r) PROVE MessageInv'
  BY <1>4, OwnMessage
<1>5. ASSUME NEW r \in Racers, User(r) \/ \E s \in Slots : Handle(r, s) PROVE MessageInv'
  <2>1. ASSUME r \notin Bots PROVE MessageOf(r)'
    BY <1>5, <2>1, UserMessage, HandleMessage DEF MessageInv, MessageOf
  <2>2. QED
    BY <1>5, <2>1, UserOthers, StepOf
<1>6. QED
  BY <1>1, <1>2, <1>3, <1>4, <1>5 DEF Next

-----------------------------------------------------------------------------
\* A DM that is not saved yet is new to everybody else, and whoever is about
\* to change the DM of a contacted run has another one in mind.
THEOREM MessagesAreApart == Spec => []MessageInv
<1>1. QED
  BY InitMessage, NextMessage, TypeCorrect, RecordsAreKept, PTL DEF Spec

\* A contacted racer can start, whatever DMs, saves, interactions, cancels and
\* restarts came before.
THEOREM ContactedRacersCanStart == Spec => []ContactedCanStart
<1>1. MessageInv => ContactedCanStart
  BY DEF MessageInv, RefersInv, ContactInv, ContactedCanStart
<1>2. QED
  BY <1>1, MessagesAreApart, PTL

\* A run past CREATED refers to a DM that its racer has.
THEOREM RunsHaveMessages == Spec => []RunHasMessage
<1>1. TypeOK /\ MessageInv => RunHasMessage
  <2> SUFFICES ASSUME TypeOK, MessageInv, NEW r \in Racers \ Bots,
                      run[r].state \notin {"NONE", "CREATED", "CANCELLED_BY_ADMIN"}
               PROVE  run[r].mid # 0 /\ dm[r][run[r].mid] # "unsent"
    BY DEF RunHasMessage
  <2>1. MessageOf(r)
    BY DEF MessageInv, MessageOf
  <2>2. run[r].mid \in DMs
    BY <2>1, SentIds DEF MessageOf, RefersInv
  <2>3. QED
    BY <2>1, <2>2, Ids DEF MessageOf, RefersInv, Refers
<1>2. QED
  BY <1>1, MessagesAreApart, TypeCorrect, PTL

-----------------------------------------------------------------------------
(* One interaction and one client at a time: a runner can go on.           *)

Going == {"STARTED", "FINISHED", "TIME_SUBMITTED"}

\* Among the views of a racer's DMs, that of m has a button.
HasButton(views, m) == m \in DMs /\ views[m] \in {"start", "running", "vod_ready"}

\* One of a racer's interactions is about to take the buttons of m away.
Forfeiting(hs, m) ==
    \E s \in Slots : hs[s].pc # "idle" /\ hs[s].kind = "forfeit" /\ hs[s].mid = m

\* Whatever moves the run on is about a DM with a button, and a forfeit, which
\* takes the buttons away, is about another DM or a run that is over.
GoesOn(r) ==
    /\ run[r].state \in Going => HasButton(dm[r], run[r].mid)
    /\ \A s \in Slots : LET h == hand[r][s] IN
        /\ h.pc # "idle" /\ h.kind \in {"start", "finish", "time"} => HasButton(dm[r], h.mid)
        /\ h.pc = "respond" /\ h.kind = "forfeit" /\ run[r].state \in Going => run[r].mid # h.mid
    /\ \A c \in Clients : LET o == modal[r][c] IN
        o.kind = "time" => HasButton(dm[r], o.mid) /\ ~Forfeiting(hand[r], o.mid)

Open == race \in {"NONE", "CREATED"}

GoOnInv ==
    /\ cancel.pc = "edit" => ~Open
    /\ Open => \A r \in Racers \ Bots : GoesOn(r)

\* Steps that move no run of r on and take no button away.
Calm(r) ==
    /\ run'[r].state \in Going => run'[r].state = run[r].state /\ run'[r].mid = run[r].mid
    /\ \A m : HasButton(dm[r], m) => HasButton(dm'[r], m)
    /\ \A s \in Slots : hand'[r][s] \in {hand[r][s], IdleHand}
    /\ \A c \in Clients : modal'[r][c] \in {modal[r][c], NoModal}

LEMMA CalmStep ==
    ASSUME NEW r \in Racers, GoesOn(r), Calm(r)
    PROVE  GoesOn(r)'
<1> USE DEF Calm
<1>1. run'[r].state \in Going => HasButton(dm'[r], run'[r].mid)
  BY DEF GoesOn
<1>2. \A m : Forfeiting(hand'[r], m) => Forfeiting(hand[r], m)
  BY DEF Forfeiting, IdleHand
<1>3. ASSUME NEW s \in Slots
      PROVE  LET h == hand'[r][s] IN
             /\ h.pc # "idle" /\ h.kind \in {"start", "finish", "time"} => HasButton(dm'[r], h.mid)
             /\ h.pc = "respond" /\ h.kind = "forfeit" /\ run'[r].state \in Going
                  => run'[r].mid # h.mid
  BY DEF GoesOn, IdleHand
<1>4. ASSUME NEW c \in Clients
      PROVE  LET o == modal'[r][c] IN
             o.kind = "time" => HasButton(dm'[r], o.mid) /\ ~Forfeiting(hand'[r], o.mid)
  BY <1>2 DEF GoesOn, NoModal
<1>5. QED
  BY <1>1, <1>3, <1>4 DEF GoesOn

\* A step is calm for all racers but those it moves on.
LEMMA CalmSteps ==
    ASSUME GoOnInv, Open' => Open, cancel'.pc = "edit" => ~Open',
           Open => \A r \in Racers \ Bots : Calm(r) \/ GoesOn(r)'
    PROVE  GoOnInv'
BY CalmStep DEF GoOnInv

\* Everything but what the racer does: the race is created, contacted, swept,
\* cancelled, and the bot restarted.
LEMMA WorkersGoOn ==
    ASSUME TypeOK, CourseInv, GoOnInv, Create \/ Sweep \/ Cancel \/ Restart
    PROVE  GoOnInv'
<1>0. /\ run \in [Racers -> Row] /\ cancel \in Canceller
      /\ notif \in [Notifiers -> [Racers -> Task]]
  BY DEF TypeOK
<1>1. CASE Create
  <2>1. Open' => Open
    BY <1>1 DEF Create, CreateRace, CreateFails, AddRun, CourseInv, Open
  <2>2. cancel' = cancel /\ UNCHANGED <<dm, hand, modal>>
    BY <1>1 DEF Create, CreateRace, CreateFails, AddRun
  <2>3. cancel'.pc = "edit" => ~Open'
    BY <1>1, <2>2 DEF Create, CreateRace, CreateFails, AddRun, CourseInv, GoOnInv, Open
  <2>4. ASSUME NEW r \in Racers PROVE run'[r] = run[r] \/ run'[r].state = "CREATED"
    BY <1>0, <1>1, NewRowType DEF Create, CreateRace, CreateFails, AddRun, NewRow, NoRow
  <2>5. \A r \in Racers : Calm(r)
    BY <2>2, <2>4 DEF Calm, Going, HasButton
  <2>6. QED
    BY <2>1, <2>3, <2>5, CalmSteps
<1>2. CASE Sweep
  <2>1. Open' => Open
    BY <1>2 DEF Sweep, SweepLoad, SweepGetRuns, SweepNotified, SweepAnnounce, SweepSaveRace,
                SweepSaveFails, Open
  <2>2. UNCHANGED <<run, dm, hand, modal, cancel>>
    BY <1>2 DEF Sweep, SweepLoad, SweepGetRuns, SweepNotified, SweepAnnounce, SweepSaveRace,
                SweepSaveFails
  <2>3. \A r \in Racers : Calm(r)
    BY <2>2 DEF Calm, HasButton
  <2>4. QED
    BY <2>1, <2>2, <2>3, CalmSteps DEF GoOnInv
<1>3. CASE Cancel
  <2>1. Open' => Open
    BY <1>3 DEF Cancel, CancelRead, CancelGetRuns, CancelDecision, CancelRace, CancelFails,
                CancelEdit, CancelDone, Open
  <2>2. UNCHANGED <<hand, modal>>
    BY <1>3 DEF Cancel, CancelRead, CancelGetRuns, CancelDecision, CancelRace, CancelFails,
                CancelEdit, CancelDone
  <2>3. CASE CancelRace
    <3>1. ~Open'
      BY <2>3 DEF CancelRace, Open
    <3>2. QED
      BY <3>1 DEF GoOnInv
  <2>4. CASE \E r \in Racers : CancelEdit(r)
    <3>1. ~Open
      BY <2>4 DEF CancelEdit, GoOnInv
    <3>2. QED
      BY <2>1, <3>1 DEF GoOnInv
  <2>5. CASE CancelRead \/ CancelGetRuns \/ CancelDecision \/ CancelFails \/ CancelDone
    <3>1. UNCHANGED <<run, dm>>
      BY <2>5 DEF CancelRead, CancelGetRuns, CancelDecision, CancelFails, CancelDone
    <3>2. cancel'.pc # "edit"
      BY <1>0, <2>5 DEF CancelRead, CancelGetRuns, CancelDecision, CancelFails, CancelDone,
                        IdleCancel, Canceller
    <3>3. \A r \in Racers : Calm(r)
      BY <2>2, <3>1 DEF Calm, HasButton
    <3>4. QED
      BY <2>1, <3>2, <3>3, CalmSteps
  <2>6. QED
    BY <1>3, <2>3, <2>4, <2>5 DEF Cancel
<1>4. CASE Restart
  <2>1. UNCHANGED <<race, run, dm, modal>> /\ cancel'.pc # "edit"
    BY <1>4 DEF Restart, IdleCancel
  <2>2. \A r \in Racers, s \in Slots : hand'[r][s] = IdleHand
    BY <1>4 DEF Restart
  <2>3. \A r \in Racers : Calm(r)
    BY <2>1, <2>2 DEF Calm, HasButton
  <2>4. QED
    BY <2>1, <2>3, CalmSteps DEF Open
<1>5. QED
  BY <1>1, <1>2, <1>3, <1>4

LEMMA NotifyGoesOn ==
    ASSUME TypeOK, RecordInv, GoOnInv, NEW w \in Notifiers, NEW q \in Racers, Notify(w, q)
    PROVE  GoOnInv'
<1>0. /\ run \in [Racers -> Row] /\ dm \in [Racers -> [DMs -> Views]]
      /\ notif[w][q].copy \in Row
  BY DEF TypeOK, Task
<1>1. UNCHANGED <<race, hand, modal, cancel>>
  BY DEF Notify, NotifySelf, NotifySend, NotifySave, NotifyFails
<1>2. ASSUME NEW r \in Racers
      PROVE  run'[r] = run[r] \/ run'[r].state = "CONTACTED"
  <2>1. CASE NotifySave(w, q)
    <3>1. Save(run[q], notif[w][q].copy).state = "CONTACTED"
      BY <1>0, <2>1, SaveType DEF NotifySave, RecordInv, NotifInv
    <3>2. QED
      BY <1>0, <2>1, <3>1 DEF NotifySave
  <2>2. CASE ~NotifySave(w, q)
    BY <2>2 DEF Notify, NotifySelf, NotifySend, NotifyFails
  <2>3. QED
    BY <2>1, <2>2
<1>3. ASSUME NEW r \in Racers, NEW m, HasButton(dm[r], m) PROVE HasButton(dm'[r], m)
  <2>1. CASE NotifySend(w, q)
    <3>1. PICK k \in DMs : dm' = [dm EXCEPT ![q][k] = "start"]
      BY <2>1 DEF NotifySend
    <3>2. QED
      BY <1>0, <1>3, <3>1 DEF HasButton
  <2>2. CASE ~NotifySend(w, q)
    <3>1. dm' = dm
      BY <2>2 DEF Notify, NotifySelf, NotifySave, NotifyFails
    <3>2. QED
      BY <1>3, <3>1 DEF HasButton
  <2>3. QED
    BY <2>1, <2>2
<1>4. \A r \in Racers : Calm(r)
  BY <1>1, <1>2, <1>3 DEF Calm, Going
<1>5. QED
  BY <1>1, <1>4, CalmSteps DEF GoOnInv, Open

LEMMA OwnGoesOn ==
    ASSUME TypeOK, GoOnInv, NEW q \in Racers, Own(q), q \in Bots
    PROVE  GoOnInv'
<1>1. run \in [Racers -> Row]
  BY DEF TypeOK
<1>2. UNCHANGED <<race, dm, hand, modal, cancel>>
  BY DEF Own, OwnLoad, OwnSave, OwnSaveFails
<1>3. \A r \in Racers \ Bots : run'[r] = run[r]
  BY <1>1 DEF Own, OwnLoad, OwnSave, OwnSaveFails
<1>4. \A r \in Racers \ Bots : Calm(r)
  BY <1>2, <1>3 DEF Calm, HasButton
<1>5. QED
  BY <1>2, <1>4, CalmSteps DEF GoOnInv, Open

LEMMA UserGoesOn ==
    ASSUME TypeOK, NEW r \in Racers \ Bots, GoesOn(r), User(r),
           \A s, t \in Slots : s = t, \A c, d \in Clients : c = d
    PROVE  GoesOn(r)'
<1>0. /\ hand \in [Racers -> [Slots -> Handler]]
      /\ modal \in [Racers -> [Clients -> Modal]]
  BY DEF TypeOK
<1>1. UNCHANGED <<run, dm>>
  BY DEF User, Click, OpenModal, Submit
<1>2. \A m : HasButton(dm'[r], m) <=> HasButton(dm[r], m)
  BY <1>1 DEF HasButton
\* The interaction h, of a kind for a DM m with a button unless it forfeits.
<1>3. ASSUME NEW s \in Slots, NEW h, hand' = [hand EXCEPT ![r][s] = h],
             h.pc # "idle" /\ h.kind \in {"start", "finish", "time"} => HasButton(dm[r], h.mid),
             h.pc = "respond" => h.kind # "forfeit",
             \A c \in Clients : modal'[r][c].kind = "time" =>
                 modal'[r][c] = modal[r][c] /\ h.kind # "forfeit"
      PROVE  GoesOn(r)'
  <2>1. \A t \in Slots : hand'[r][t] = h
    BY <1>0, <1>3
  <2>2. h.kind # "forfeit" => \A m : ~Forfeiting(hand'[r], m)
    BY <2>1 DEF Forfeiting
  <2>3. \A c \in Clients : modal'[r][c].kind = "time" =>
          HasButton(dm'[r], modal'[r][c].mid) /\ ~Forfeiting(hand'[r], modal'[r][c].mid)
    BY <1>2, <1>3, <2>2 DEF GoesOn
  <2>4. \A t \in Slots : LET k == hand'[r][t] IN
          /\ k.pc # "idle" /\ k.kind \in {"start", "finish", "time"} => HasButton(dm'[r], k.mid)
          /\ k.pc = "respond" /\ k.kind = "forfeit" /\ run'[r].state \in Going
               => run'[r].mid # k.mid
    BY <1>2, <1>3, <2>1
  <2>5. run'[r].state \in Going => HasButton(dm'[r], run'[r].mid)
    BY <1>1, <1>2 DEF GoesOn
  <2>6. QED
    BY <2>3, <2>4, <2>5 DEF GoesOn
\* What Handling makes of a click or a modal.
<1>4. ASSUME NEW kind \in Kinds, NEW m, NEW h, h = Handling(kind, m, run[r])
      PROVE  /\ h.pc # "idle" => h.kind = kind /\ h.mid = m
             /\ h.pc = "respond" => kind = "keep"
             /\ h.kind \in {kind, "none"}
  BY <1>4 DEF Handling, IdleHand
<1>5. ASSUME NEW s \in Slots, NEW m \in DMs, NEW kind \in {"start", "finish"},
             Click(r, s, kind, m)
      PROVE  GoesOn(r)'
  <2> DEFINE h == Handling(kind, m, run[r])
  <2>1. HasButton(dm[r], m) /\ kind \in Kinds
    BY <1>5 DEF Click, HasButton, Kinds
  <2>2. hand' = [hand EXCEPT ![r][s] = h] /\ modal' = modal
    BY <1>5 DEF Click
  <2>3. /\ h.pc # "idle" => h.kind = kind /\ h.mid = m
        /\ h.pc = "respond" => kind = "keep"
        /\ h.kind \in {kind, "none"}
    BY <1>4, <2>1
  <2> HIDE DEF h
  <2>4. QED
    BY <1>3, <2>1, <2>2, <2>3
<1>6. ASSUME NEW c \in Clients, NEW m \in DMs, OpenModal(r, c, m) PROVE GoesOn(r)'
  <2>1. hand' = hand /\ \A d \in Clients : modal'[r][d].kind # "time"
    BY <1>0, <1>6 DEF OpenModal
  <2>2. QED
    BY <1>1, <1>2, <2>1 DEF GoesOn
<1>7. ASSUME NEW s \in Slots, NEW c \in Clients, NEW kind \in Kinds, Submit(r, s, c, kind)
      PROVE  GoesOn(r)'
  <2> DEFINE m == modal[r][c].mid
             h == Handling(kind, m, run[r])
  <2>1. kind \in {"time", "vod", "forfeit", "keep"} /\ (kind = "time" => HasButton(dm[r], m))
    BY <1>7 DEF Submit, GoesOn
  <2>2. hand' = [hand EXCEPT ![r][s] = h]
    BY <1>7 DEF Submit
  <2>3. \A d \in Clients : modal'[r][d].kind # "time"
    BY <1>0, <1>7 DEF Submit, NoModal
  <2>4. /\ h.pc # "idle" => h.kind = kind /\ h.mid = m
        /\ h.pc = "respond" => kind = "keep"
    BY <1>4
  <2> HIDE DEF h, m
  <2>5. h.pc # "idle" /\ h.kind \in {"start", "finish", "time"} => HasButton(dm[r], h.mid)
    BY <2>1, <2>4
  <2>6. h.pc = "respond" => h.kind # "forfeit"
    BY <2>4
  <2>7. QED
    BY <1>3, <2>2, <2>3, <2>5, <2>6
<1>8. QED
  BY <1>5, <1>6, <1>7 DEF User

LEMMA HandleGoesOn ==
    ASSUME TypeOK, RecordInv, NEW r \in Racers \ Bots, MessageOf(r), GoesOn(r),
           NEW s \in Slots, Handle(r, s), \A t \in Slots : t = s
    PROVE  GoesOn(r)'
<1> DEFINE h == hand[r][s]
<1>0. /\ hand \in [Racers -> [Slots -> Handler]] /\ run \in [Racers -> Row]
      /\ modal \in [Racers -> [Clients -> Modal]]
      /\ dm \in [Racers -> [DMs -> Views]] /\ h \in Handler
  BY DEF TypeOK
<1>1. CASE HandlerSave(r, s)
  <2>1. h.pc = "save" /\ h.copy \in Row /\ h.copy.mid = h.mid /\ h.mid # 0
    BY <1>0, <1>1 DEF HandlerSave, Handler, MessageOf, RefersInv
  <2>2. h.kind \in Kinds \ {"keep"} /\ h.copy.state = Leaves(h.kind)
    BY <2>1 DEF RecordInv, HandsInv, HandKnows
  <2>3. run'[r].state = Leaves(h.kind) /\ run'[r].mid = h.mid
    BY <1>0, <1>1, <2>1, <2>2, SaveType DEF HandlerSave
  <2>4. /\ \A t \in Slots : /\ hand'[r][t].pc = "respond" /\ hand'[r][t].mid = h.mid
                            /\ hand'[r][t].kind = h.kind
        /\ UNCHANGED <<dm, modal>>
    BY <1>0, <1>1 DEF HandlerSave, Handler
  <2>5. \A m : /\ HasButton(dm'[r], m) <=> HasButton(dm[r], m)
               /\ Forfeiting(hand'[r], m) => Forfeiting(hand[r], m)
    BY <2>1, <2>4 DEF HasButton, Forfeiting
  <2>6. run'[r].state \in Going => h.kind \in {"start", "finish", "time"}
    BY <2>2, <2>3 DEF Leaves, Kinds, Going
  <2> HIDE DEF h
  <2>7. h.kind \in {"start", "finish", "time"} => HasButton(dm[r], h.mid)
    BY <2>1 DEF GoesOn, h
  <2>8. run'[r].state \in Going => HasButton(dm'[r], run'[r].mid)
    BY <2>3, <2>5, <2>6, <2>7
  <2>9. \A t \in Slots : LET k == hand'[r][t] IN
          /\ k.pc # "idle" /\ k.kind \in {"start", "finish", "time"} => HasButton(dm'[r], k.mid)
          /\ k.pc = "respond" /\ k.kind = "forfeit" /\ run'[r].state \in Going
               => run'[r].mid # k.mid
    BY <2>4, <2>5, <2>6, <2>7
  <2>10. \A c \in Clients : modal'[r][c].kind = "time" =>
           HasButton(dm'[r], modal'[r][c].mid) /\ ~Forfeiting(hand'[r], modal'[r][c].mid)
    BY <2>4, <2>5 DEF GoesOn
  <2>11. QED
    BY <2>8, <2>9, <2>10 DEF GoesOn
<1>2. CASE HandlerRespond(r, s)
  <2>1. h.pc = "respond" /\ h.mid \in DMs
    BY <1>2, SentIds DEF HandlerRespond, MessageOf, RefersInv
  <2>2. /\ run' = run /\ dm'[r][h.mid] = Shown(h.kind, dm[r][h.mid])
        /\ \A m \in DMs : m # h.mid => dm'[r][m] = dm[r][m]
    BY <1>0, <1>2, <2>1 DEF HandlerRespond
  <2>3. \A t \in Slots : hand'[r][t] = IdleHand
    BY <1>0, <1>2 DEF HandlerRespond
  <2>4. \A c \in Clients :
          \/ modal'[r][c] = modal[r][c]
          \/ h.kind = "finish" /\ modal'[r][c] = [kind |-> "time", mid |-> h.mid]
    BY <1>0, <1>2 DEF HandlerRespond
  <2>5. h.kind = "finish" => HasButton(dm[r], h.mid)
    BY <2>1 DEF GoesOn
  <2>6. \A m : Forfeiting(hand[r], m) <=> h.kind = "forfeit" /\ h.mid = m
    BY <2>1 DEF Forfeiting
  <2>7. h.kind = "forfeit" /\ run[r].state \in Going => run[r].mid # h.mid
    BY <2>1 DEF GoesOn
  <2> HIDE DEF h
  <2>8. \A m : HasButton(dm[r], m) /\ ~(h.kind = "forfeit" /\ m = h.mid) => HasButton(dm'[r], m)
    <3>1. h.kind # "forfeit" => dm'[r][h.mid] \in {dm[r][h.mid], "running", "vod_ready"}
      BY <2>2 DEF Shown
    <3>2. QED
      BY <2>2, <3>1 DEF HasButton
  <2>9. \A m : ~Forfeiting(hand'[r], m)
    BY <2>3 DEF Forfeiting, IdleHand
  <2>10. run'[r].state \in Going => HasButton(dm'[r], run'[r].mid)
    BY <2>2, <2>7, <2>8 DEF GoesOn
  <2>11. \A t \in Slots : hand'[r][t].pc = "idle"
    BY <2>3 DEF IdleHand
  <2>12. ASSUME NEW c \in Clients, modal'[r][c].kind = "time"
         PROVE  HasButton(dm'[r], modal'[r][c].mid)
    <3>1. CASE modal'[r][c] = modal[r][c]
      <4>1. HasButton(dm[r], modal[r][c].mid) /\ ~Forfeiting(hand[r], modal[r][c].mid)
        BY <2>12, <3>1 DEF GoesOn
      <4>2. QED
        BY <2>6, <2>8, <3>1, <4>1
    <3>2. CASE h.kind = "finish" /\ modal'[r][c] = [kind |-> "time", mid |-> h.mid]
      BY <2>5, <2>8, <3>2
    <3>3. QED
      BY <2>4, <3>1, <3>2
  <2>13. QED
    BY <2>9, <2>10, <2>11, <2>12 DEF GoesOn
<1>3. CASE HandlerFails(r, s)
  <2>1. Calm(r)
    BY <1>0, <1>3 DEF HandlerFails, Calm, HasButton
  <2>2. QED
    BY <2>1, CalmStep
<1>4. QED
  BY <1>1, <1>2, <1>3 DEF Handle

LEMMA InitGoOn == Init => GoOnInv
BY DEF Init, GoOnInv, GoesOn, Going, IdleCancel, NoRow, IdleHand, NoModal

LEMMA NextGoOn ==
    ASSUME \A s, t \in Slots : s = t, \A c, d \in Clients : c = d
    PROVE  TypeOK /\ RecordInv /\ MessageInv /\ CourseInv /\ GoOnInv /\ [Next]_vars => GoOnInv'
<1> SUFFICES ASSUME TypeOK, RecordInv, MessageInv, CourseInv, GoOnInv, [Next]_vars
             PROVE  GoOnInv'
  OBVIOUS
<1>1. CASE UNCHANGED vars
  <2>1. \A r \in Racers : Calm(r)
    BY <1>1 DEF vars, Calm, HasButton
  <2>2. QED
    BY <1>1, <2>1, CalmSteps DEF vars, GoOnInv, Open
<1>2. CASE Create \/ Sweep \/ Cancel \/ Restart
  BY <1>2, WorkersGoOn
<1>3. ASSUME NEW w \in Notifiers, NEW r \in Racers, Notify(w, r) PROVE GoOnInv'
  BY <1>3, NotifyGoesOn
<1>4. ASSUME NEW r \in Racers, Own(r) PROVE GoOnInv'
  <2>1. r \in Bots
    BY <1>4 DEF Own, OwnLoad, OwnSave, OwnSaveFails, MessageInv
  <2>2. QED
    BY <1>4, <2>1, OwnGoesOn
<1>5. ASSUME NEW q \in Racers, User(q) \/ \E s \in Slots : Handle(q, s) PROVE GoOnInv'
  <2>1. UNCHANGED <<race, cancel>>
    BY <1>5 DEF User, Click, OpenModal, Submit, Handle, HandlerSave, HandlerRespond, HandlerFails
  <2>2. ASSUME NEW r \in Racers, r # q PROVE Calm(r)
    <3>1. run'[r] = run[r] /\ dm'[r] = dm[r] /\ hand'[r] = hand[r] /\ modal'[r] = modal[r]
      BY <1>5, <2>2, OnlyMine
    <3>2. QED
      BY <3>1 DEF Calm, HasButton
  <2>3. ASSUME q \notin Bots, Open PROVE GoesOn(q)'
    <3>1. GoesOn(q) /\ MessageOf(q)
      BY <2>3 DEF GoOnInv, MessageInv, MessageOf
    <3>2. QED
      BY <1>5, <2>3, <3>1, UserGoesOn, HandleGoesOn
  <2>4. QED
    BY <2>1, <2>2, <2>3, CalmSteps DEF GoOnInv, Open
<1>6. QED
  BY <1>1, <1>2, <1>3, <1>4, <1>5 DEF Next

\* A racer who uses one client and has one interaction handled at a time always
\* has a button to go on with, until done, forfeited or cancelled.
THEOREM RunnersCanGoOn ==
    ASSUME \A s, t \in Slots : s = t, \A c, d \in Clients : c = d
    PROVE  Spec => []RunnerCanGoOn
<1>1. Spec => []CourseInv
  BY InitCourse, NextCourse, TypeCorrect, PTL DEF Spec
<1>2. TypeOK /\ RecordInv /\ MessageInv /\ CourseInv /\ GoOnInv /\ [Next]_vars => GoOnInv'
  BY NextGoOn
<1>3. Spec => []GoOnInv
  BY <1>1, <1>2, InitGoOn, TypeCorrect, RecordsAreKept, MessagesAreApart, PTL DEF Spec
<1>4. GoOnInv => RunnerCanGoOn
  BY DEF GoOnInv, GoesOn, Going, HasButton, Open, RunnerCanGoOn
<1>5. QED
  BY <1>3, <1>4, PTL

=============================================================================
