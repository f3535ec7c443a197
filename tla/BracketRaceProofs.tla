------------------------- MODULE BracketRaceProofs -------------------------
(***************************************************************************)
(* Theorems about BracketRace: its types, and that a finished race has a   *)
(* result that no stale copy erases, however many commands, reactions,     *)
(* scans and rooms overlap, fail or are cut off by a crash.  Then, for a   *)
(* bot that handles one thing at a time (MaxBusy = 1): posts, signups and  *)
(* rooms agree with the rows, and the race keeps its contract.  Last, for  *)
(* any number of handlers: which overlaps break each of these.             *)
(***************************************************************************)
EXTENDS BracketRace, FiniteSetTheorems, TLAPS

-----------------------------------------------------------------------------
(* Rows and copies.                                                        *)

LEMMA NoneTypes == NoBr \in Race /\ NoInfo \in Info
BY DEF NoBr, NoInfo, Race, Info, BracketRaceState

LEMMA InfoTypes ==
    ASSUME NEW bri \in Info
    PROVE  /\ \A col \in Columns : Fill(bri, col) \in Info /\ Clear(bri, col) \in Info
           /\ \A when \in Times : Rescheduled(bri, when) \in Info
           /\ \A ok \in BOOLEAN : ClearComm(bri, ok) \in Info
           /\ \A m \in PostIds : [bri EXCEPT !.comm = m] \in Info
           /\ [bri EXCEPT !.exists = TRUE] \in Info
BY DEF Info, Fill, Clear, Rescheduled, ClearComm, Columns

LEMMA RaceTypes ==
    ASSUME race \in Race, NEW br \in Race
    PROVE  /\ SaveRace(br) \in Race
           /\ SaveRace([br EXCEPT !.state = "Scheduled"]) \in Race
           /\ \A r \in Results : /\ AddResults(br, r) \in Race
                                 /\ SaveRace(AddResults(br, r)) \in Race
BY DEF Race, SaveRace, AddResults, BracketRaceState

LEMMA DeletedPosts ==
    ASSUME post \in [PostIds -> Post], NEW bri
    PROVE  /\ Deleted(bri) \in [PostIds -> Post]
           /\ \A m \in PostIds : Deleted(bri)[m].state = "unsent" <=> post[m].state = "unsent"
BY DEF Deleted, Post

\* Tasks that begin, go on and end.
LEMMA TaskTypes ==
    ASSUME task \in [Tasks -> Task], NEW t \in Tasks
    PROVE  /\ Done(t) => task' \in [Tasks -> Task]
           /\ \A pc \in Pcs, bri \in Info : Goto(t, pc, bri) => task' \in [Tasks -> Task]
           /\ \A kind \in Kinds, pc \in Pcs, br \in Race, bri \in Info :
                 Begin(t, kind, pc, br, bri) => task' \in [Tasks -> Task]
<1>1. IdleTask \in Task
  BY NoneTypes DEF IdleTask, Task, Pcs
<1>2. Done(t) => task' \in [Tasks -> Task]
  BY <1>1 DEF Done
<1>3. ASSUME NEW pc \in Pcs, NEW bri \in Info, Goto(t, pc, bri)
      PROVE  task' \in [Tasks -> Task]
  <2>1. PICK new : new = [task[t] EXCEPT !.pc = pc, !.bri = bri]
    OBVIOUS
  <2>2. new \in Task
    BY <2>1 DEF Task
  <2>3. QED
    BY <1>3, <2>1, <2>2 DEF Goto
<1>4. ASSUME NEW kind \in Kinds, NEW pc \in Pcs, NEW br \in Race, NEW bri \in Info,
             Begin(t, kind, pc, br, bri)
      PROVE  task' \in [Tasks -> Task]
  BY <1>4 DEF Begin, Task
<1>5. QED
  BY <1>2, <1>3, <1>4

\* What every task can refer to.
LEMMA TaskFields ==
    ASSUME task \in [Tasks -> Task], NEW t \in Tasks
    PROVE  task[t].br \in Race /\ task[t].bri \in Info
BY DEF Task

\* The counters of bounds.
Counters(b, f, r) == b \in 0..MaxBegun /\ f \in 0..MaxFailures /\ r \in 0..MaxRestarts

LEMMA CountTypes ==
    ASSUME TypeOK, NEW ok, Count(ok)
    PROVE  Counters(begun', failures', restarts') /\ begun' = begun
<1>1. /\ begun \in 0..MaxBegun /\ failures \in 0..MaxFailures /\ restarts \in 0..MaxRestarts
  BY DEF TypeOK
<1>2. MaxFailures \in Nat
  BY BoundsAssumption DEF BoundsAssumption
<1>3. failures' = failures \/ (failures < MaxFailures /\ failures' = failures + 1)
  BY DEF Count
<1>4. failures' \in 0..MaxFailures
  BY <1>1, <1>2, <1>3
<1>5. QED
  BY <1>1, <1>4 DEF Count, Counters

LEMMA BeginTypes ==
    ASSUME TypeOK, NEW t \in Tasks, NEW kind, NEW pc, NEW br, NEW bri, Begin(t, kind, pc, br, bri)
    PROVE  Counters(begun', failures', restarts') /\ begun' = begun + 1
<1>1. /\ begun \in 0..MaxBegun /\ failures \in 0..MaxFailures /\ restarts \in 0..MaxRestarts
  BY DEF TypeOK
<1>2. MaxBegun \in Nat
  BY BoundsAssumption DEF BoundsAssumption
<1>3. begun < MaxBegun /\ begun' = begun + 1
  BY DEF Begin
<1>4. begun' \in 0..MaxBegun
  BY <1>1, <1>2, <1>3
<1>5. QED
  BY <1>1, <1>3, <1>4 DEF Begin, Counters

-----------------------------------------------------------------------------
(* Posts.  A command makes one post, so one is left for each that began    *)
(* and has not made it: without this the next post would have no id.       *)

Sent == {m \in PostIds : post[m].state # "unsent"}

\* Commands that are still to make their post.
Posting == {t \in Tasks : /\ task[t].kind = "schedule"
                          /\ task[t].pc \in {"info", "wipe", "save", "clear", "post"}}

PostsAreLeft ==
    /\ IsFiniteSet(Posting)
    /\ Cardinality(Sent) + Cardinality(Posting) <= begun

\* A reaction that is handled was to a recorded post.
SignupsArePosted == \A t \in Tasks : task[t].pc = "signup" => task[t].bri.comm \in PostIds

PostInv == PostsAreLeft /\ SignupsArePosted

LEMMA FinitePosts == IsFiniteSet(PostIds) /\ Cardinality(PostIds) = MaxBegun
BY FS_Interval, BoundsAssumption DEF PostIds, BoundsAssumption

LEMMA FiniteSent == IsFiniteSet(Sent) /\ Cardinality(Sent) \in Nat
BY FinitePosts, FS_Subset, FS_CardinalityType DEF Sent

\* Steps that make no post and begin no command that does.
LEMMA PostsStay ==
    ASSUME begun \in Nat, begun' \in Nat, PostsAreLeft, Sent' = Sent,
           Posting' \subseteq Posting, begun <= begun'
    PROVE  PostsAreLeft'
<1>1. IsFiniteSet(Posting) /\ Cardinality(Posting) \in Nat
  BY FS_CardinalityType DEF PostsAreLeft
<1>2. /\ IsFiniteSet(Posting') /\ Cardinality(Posting') <= Cardinality(Posting)
      /\ Cardinality(Posting') \in Nat
  BY <1>1, FS_Subset, FS_CardinalityType
<1>3. QED
  BY <1>1, <1>2, FiniteSent DEF PostsAreLeft

LEMMA PostComes ==
    ASSUME begun \in Nat, PostsAreLeft, Sent' = Sent, NEW t,
           Posting' \subseteq Posting \cup {t}, begun' = begun + 1
    PROVE  PostsAreLeft'
<1>1. IsFiniteSet(Posting) /\ Cardinality(Posting) \in Nat
  BY FS_CardinalityType DEF PostsAreLeft
<1>2. /\ IsFiniteSet(Posting \cup {t})
      /\ Cardinality(Posting \cup {t}) <= Cardinality(Posting) + 1
      /\ Cardinality(Posting \cup {t}) \in Nat
  BY <1>1, FS_AddElement, FS_CardinalityType
<1>3. /\ IsFiniteSet(Posting') /\ Cardinality(Posting') <= Cardinality(Posting \cup {t})
      /\ Cardinality(Posting') \in Nat
  BY <1>2, FS_Subset, FS_CardinalityType
<1>4. QED
  BY <1>1, <1>2, <1>3, FiniteSent DEF PostsAreLeft

LEMMA PostIsMade ==
    ASSUME begun \in Nat, PostsAreLeft, NEW m, Sent' \subseteq Sent \cup {m},
           NEW t \in Posting, Posting' \subseteq Posting \ {t}, begun' = begun
    PROVE  PostsAreLeft'
<1>1. IsFiniteSet(Posting) /\ Cardinality(Posting) \in Nat
  BY FS_CardinalityType DEF PostsAreLeft
<1>2. /\ IsFiniteSet(Posting \ {t}) /\ Cardinality(Posting \ {t}) = Cardinality(Posting) - 1
      /\ Cardinality(Posting \ {t}) \in Nat
  BY <1>1, FS_RemoveElement, FS_CardinalityType
<1>3. /\ IsFiniteSet(Posting') /\ Cardinality(Posting') <= Cardinality(Posting) - 1
      /\ Cardinality(Posting') \in Nat
  BY <1>2, FS_Subset, FS_CardinalityType
<1>4. /\ IsFiniteSet(Sent \cup {m}) /\ Cardinality(Sent \cup {m}) <= Cardinality(Sent) + 1
      /\ Cardinality(Sent \cup {m}) \in Nat
  BY FiniteSent, FS_AddElement, FS_CardinalityType
<1>5. Cardinality(Sent') <= Cardinality(Sent \cup {m}) /\ Cardinality(Sent') \in Nat
  BY <1>4, FS_Subset, FS_CardinalityType
<1>6. QED
  BY <1>1, <1>3, <1>4, <1>5, FiniteSent DEF PostsAreLeft

LEMMA BegunType == TypeOK => begun \in Nat /\ begun <= MaxBegun
<1>1. TypeOK => begun \in 0..MaxBegun
  BY DEF TypeOK
<1>2. QED
  BY <1>1, BoundsAssumption DEF BoundsAssumption

LEMMA PostIsLeft ==
    ASSUME TypeOK, PostsAreLeft, NEW t \in Posting
    PROVE  \E m \in PostIds : post[m].state = "unsent"
<1>1. IsFiniteSet(Posting) /\ Cardinality(Posting) \in Nat /\ Posting # {}
  BY FS_CardinalityType DEF PostsAreLeft
<1>2. Cardinality(Posting) > 0
  BY <1>1, FS_EmptySet
<1>3. begun \in Nat /\ begun <= MaxBegun
  BY BegunType
<1>4. Cardinality(Sent) < MaxBegun
  BY <1>1, <1>2, <1>3, FiniteSent, BoundsAssumption DEF PostsAreLeft, BoundsAssumption
<1>5. Sent # PostIds
  BY <1>3, <1>4, FiniteSent, FinitePosts
<1>6. QED
  BY <1>5 DEF Sent

-----------------------------------------------------------------------------
(* Types, action by action.                                                *)

LEMMA ScheduleTypes ==
    ASSUME TypeOK, PostInv, NEW t \in Tasks, Schedule(t)
    PROVE  TypeOK'
<1>0. /\ race \in Race /\ info \in Info /\ post \in [PostIds -> Post]
      /\ task \in [Tasks -> Task] /\ task[t].br \in Race /\ task[t].bri \in Info
  BY TaskFields DEF TypeOK
<1>1. CASE ScheduleRead(t)
  <2>1. Begin(t, "schedule", "info", race, NoInfo)
    BY <1>1 DEF ScheduleRead
  <2>2. task' \in [Tasks -> Task]
    BY <1>0, <2>1, TaskTypes, NoneTypes DEF Kinds, Pcs
  <2>3. QED
    BY <1>1, <2>1, <2>2, BeginTypes DEF ScheduleRead, TypeOK, Counters, rows, posts, rooms
<1>2. CASE ScheduleInfo(t)
  <2>1. GetOrCreate \in Info
    BY <1>0, InfoTypes DEF GetOrCreate
  <2>2. task' \in [Tasks -> Task]
    BY <1>0, <1>2, <2>1, TaskTypes DEF ScheduleInfo, Pcs
  <2>3. QED
    BY <1>2, <2>1, <2>2 DEF ScheduleInfo, TypeOK, posts, rooms, bounds
<1>3. CASE ScheduleWipe(t)
  <2>1. task' \in [Tasks -> Task]
    BY <1>0, <1>3, TaskTypes, InfoTypes DEF ScheduleWipe, Pcs
  <2>2. QED
    BY <1>3, <2>1 DEF ScheduleWipe, TypeOK, posts, rooms, bounds
<1>4. CASE ScheduleSave(t)
  <2>1. race' \in Race /\ info' \in Info
    BY <1>0, <1>4, RaceTypes DEF ScheduleSave
  <2>2. task' \in [Tasks -> Task]
    BY <1>0, <1>4, TaskTypes DEF ScheduleSave, Pcs
  <2>3. made' \in 0..MaxRooms
    BY <1>4, BoundsAssumption DEF ScheduleSave, BoundsAssumption
  <2>4. QED
    BY <1>4, <2>1, <2>2, <2>3 DEF ScheduleSave, TypeOK, posts, bounds
<1>5. CASE ScheduleClear(t)
  <2>1. PICK okComm \in BOOLEAN, okTentative \in BOOLEAN :
           /\ Count(okComm /\ okTentative)
           /\ post' = IF okComm THEN Deleted(task[t].bri) ELSE post
           /\ Goto(t, "post", IF okTentative THEN Clear(ClearComm(task[t].bri, okComm), "tentative")
                             ELSE ClearComm(task[t].bri, okComm))
    BY <1>5 DEF ScheduleClear
  <2>2. post' \in [PostIds -> Post]
    BY <1>0, <2>1, DeletedPosts
  <2>3. ClearComm(task[t].bri, okComm) \in Info
    BY <1>0, InfoTypes
  <2>4. Clear(ClearComm(task[t].bri, okComm), "tentative") \in Info
    BY <2>3, InfoTypes DEF Columns
  <2>5. task' \in [Tasks -> Task]
    BY <1>0, <2>1, <2>3, <2>4, TaskTypes DEF Pcs
  <2>6. QED
    BY <1>5, <2>1, <2>2, <2>5, CountTypes DEF ScheduleClear, TypeOK, Counters, rows, rooms
<1>6. CASE SchedulePost(t)
  <2> DEFINE bri == task[t].bri
             m == CHOOSE k \in PostIds : post[k].state = "unsent"
             made1 == [post EXCEPT ![m] = [state |-> "shown", time |-> bri.scheduled]]
  <2>1. t \in Posting
    BY <1>6 DEF SchedulePost, At, Posting
  <2>2. m \in PostIds
    BY <2>1, PostIsLeft DEF PostInv
  <2>3. [state |-> "shown", time |-> bri.scheduled] \in Post
    BY <1>0 DEF Info, Post
  <2>4. made1 \in [PostIds -> Post] /\ [bri EXCEPT !.comm = m] \in Info
    BY <1>0, <2>2, <2>3, InfoTypes
  <2>5. \/ post' = made1 /\ Goto(t, "update", [bri EXCEPT !.comm = m]) /\ Count(TRUE)
        \/ post' \in {post, made1} /\ Goto(t, "update", bri) /\ Count(FALSE)
    BY <1>6 DEF SchedulePost
  <2> HIDE DEF bri, m, made1
  <2>6. post' \in [PostIds -> Post]
    BY <1>0, <2>4, <2>5
  <2>7. bri \in Info
    BY <1>0 DEF bri
  <2>8. task' \in [Tasks -> Task]
    BY <1>0, <2>4, <2>5, <2>7, TaskTypes DEF Pcs
  <2>9. Counters(begun', failures', restarts')
    BY <2>5, CountTypes
  <2>10. QED
    BY <1>6, <2>6, <2>8, <2>9 DEF SchedulePost, TypeOK, Counters, rows, rooms
<1>7. QED
  BY <1>1, <1>2, <1>3, <1>4, <1>5, <1>6 DEF Schedule

\* A result that is posted, and the commentary post that is deleted for it.
LEMMA AnnouncedTypes ==
    ASSUME TypeOK, NEW r \in Results \cup {None}, NEW bri, Announced(r, bri)
    PROVE  /\ Counters(begun', failures', restarts') /\ begun' = begun
           /\ reported' \in Results \cup {None}
           /\ post' \in [PostIds -> Post] /\ Sent' = Sent
<1>1. post \in [PostIds -> Post] /\ reported \in Results \cup {None}
  BY DEF TypeOK
<1>2. PICK okResult \in BOOLEAN, okComm \in BOOLEAN :
          /\ Count(okResult /\ okComm)
          /\ reported' = IF okResult THEN r ELSE reported
          /\ post' = IF okComm THEN Deleted(bri) ELSE post
  BY DEF Announced
<1>3. post' \in [PostIds -> Post]
  BY <1>1, <1>2, DeletedPosts
<1>4. \A m \in PostIds : post'[m].state = "unsent" <=> post[m].state = "unsent"
  BY <1>1, <1>2, DeletedPosts
<1>5. Counters(begun', failures', restarts') /\ begun' = begun
  BY <1>2, CountTypes
<1>6. QED
  BY <1>1, <1>2, <1>3, <1>4, <1>5 DEF Sent

LEMMA ReportTypes ==
    ASSUME TypeOK, NEW t \in Tasks, Report(t)
    PROVE  TypeOK'
<1>0. /\ race \in Race /\ info \in Info /\ post \in [PostIds -> Post]
      /\ task \in [Tasks -> Task] /\ task[t].br \in Race /\ task[t].bri \in Info
  BY TaskFields DEF TypeOK
<1>1. CASE ReportRead(t)
  <2>1. PICK kind \in {"report", "rereport"} : Begin(t, kind, "info", race, NoInfo)
    BY <1>1 DEF ReportRead
  <2>2. task' \in [Tasks -> Task]
    BY <1>0, <2>1, TaskTypes, NoneTypes DEF Kinds, Pcs
  <2>3. QED
    BY <1>1, <2>1, <2>2, BeginTypes DEF ReportRead, TypeOK, Counters, rows, posts, rooms
<1>2. CASE ReportInfo(t)
  <2>1. GetOrCreate \in Info
    BY <1>0, InfoTypes DEF GetOrCreate
  <2>2. task' \in [Tasks -> Task]
    BY <1>0, <1>2, <2>1, TaskTypes DEF ReportInfo, Pcs
  <2>3. QED
    BY <1>2, <2>1, <2>2 DEF ReportInfo, TypeOK, posts, rooms, bounds
<1>3. CASE Finish(t)
  <2>1. PICK r \in Results :
          /\ race' = SaveRace(AddResults(task[t].br, r))
          /\ task' = [task EXCEPT ![t] = [@ EXCEPT !.pc = "announce", !.br = AddResults(task[t].br, r)]]
    BY <1>3 DEF Finish
  <2>2. race' \in Race /\ AddResults(task[t].br, r) \in Race
    BY <1>0, <2>1, RaceTypes
  <2>3. [task[t] EXCEPT !.pc = "announce", !.br = AddResults(task[t].br, r)] \in Task
    BY <1>0, <2>2 DEF Task, Pcs
  <2>4. task' \in [Tasks -> Task]
    BY <1>0, <2>1, <2>3
  <2>5. QED
    BY <1>3, <2>2, <2>4 DEF Finish, TypeOK, posts, rooms, bounds
<1>4. CASE Announce(t)
  <2>1. task[t].br.result \in Results \cup {None}
    BY <1>0 DEF Race
  <2>2. task' \in [Tasks -> Task]
    BY <1>0, <1>4, TaskTypes DEF Announce
  <2>3. QED
    BY <1>4, <2>1, <2>2, AnnouncedTypes DEF Announce, TypeOK, Counters, rows, rooms
<1>5. QED
  BY <1>1, <1>2, <1>3, <1>4 DEF Report

LEMMA CommentateTypes ==
    ASSUME TypeOK, PostInv, NEW t \in Tasks, Commentate(t)
    PROVE  TypeOK'
<1>0. /\ race \in Race /\ info \in Info /\ post \in [PostIds -> Post]
      /\ task \in [Tasks -> Task] /\ task[t].br \in Race /\ task[t].bri \in Info
  BY TaskFields DEF TypeOK
<1>1. CASE Confirm(t) \/ Signup(t) \/ Restream(t)
  <2>1. Fill(info, "channel") \in Info
    BY <1>0, InfoTypes DEF Columns
  <2>2. PICK kind \in Kinds, pc \in Pcs, bri \in Info : Begin(t, kind, pc, NoBr, bri)
    BY <1>0, <1>1, <2>1 DEF Confirm, Signup, Restream, Kinds, Pcs
  <2>3. task' \in [Tasks -> Task]
    BY <1>0, <2>2, TaskTypes, NoneTypes
  <2>4. QED
    BY <1>1, <2>2, <2>3, BeginTypes
    DEF Confirm, Signup, Restream, TypeOK, Counters, rows, posts, rooms
<1>2. CASE ConfirmPost(t) \/ RestreamPost(t)
  <2>1. PICK ok \in BOOLEAN, pc \in Pcs, bri \in Info : Count(ok) /\ Goto(t, pc, bri)
    <3>1. CASE ConfirmPost(t)
      <4> DEFINE bri(okT) == IF okT THEN Fill(task[t].bri, "tentative") ELSE task[t].bri
      <4>1. PICK okT \in BOOLEAN, okR \in BOOLEAN :
              /\ Count(okT /\ okR)
              /\ Goto(t, "clear", IF okR THEN Fill(bri(okT), "request") ELSE bri(okT))
        BY <3>1 DEF ConfirmPost
      <4>2. bri(okT) \in Info
        <5>1. Fill(task[t].bri, "tentative") \in Info
          BY <1>0, InfoTypes DEF Columns
        <5>2. QED
          BY <1>0, <5>1
      <4> HIDE DEF bri
      <4>3. Fill(bri(okT), "request") \in Info
        BY <4>2, InfoTypes DEF Columns
      <4>4. PICK new \in Info : Goto(t, "clear", new)
        BY <4>1, <4>2, <4>3
      <4>5. QED
        BY <4>1, <4>4 DEF Pcs
    <3>2. CASE RestreamPost(t)
      <4>1. Clear(task[t].bri, "tentative") \in Info
        BY <1>0, InfoTypes DEF Columns
      <4>2. QED
        BY <1>0, <3>2, <4>1 DEF RestreamPost, Pcs
    <3>3. QED
      BY <1>2, <3>1, <3>2
  <2>2. task' \in [Tasks -> Task]
    BY <1>0, <2>1, TaskTypes
  <2>3. QED
    BY <1>2, <2>1, <2>2, CountTypes
    DEF ConfirmPost, RestreamPost, TypeOK, Counters, rows, posts, rooms
<1>3. CASE ConfirmClear(t)
  <2> DEFINE bri == task[t].bri
  <2>1. \/ Count(TRUE) /\ post' = Deleted(bri) /\ Goto(t, "update", ClearComm(bri, TRUE))
        \/ Count(FALSE) /\ post' = post /\ Goto(t, "update", ClearComm(bri, FALSE))
    BY <1>3, Zenon DEF ConfirmClear
  <2>2. post' \in [PostIds -> Post]
    BY <1>0, <2>1, DeletedPosts
  <2>3. PICK new \in Info : Goto(t, "update", new)
    BY <1>0, <2>1, InfoTypes
  <2>4. task' \in [Tasks -> Task]
    BY <1>0, <2>3, TaskTypes DEF Pcs
  <2>5. Counters(begun', failures', restarts')
    BY <2>1, CountTypes
  <2>6. QED
    BY <1>3, <2>2, <2>4, <2>5 DEF ConfirmClear, TypeOK, Counters, rows, rooms
<1>4. CASE SignupInsert(t)
  <2>1. task[t].bri.comm \in PostIds
    BY <1>4 DEF SignupInsert, PostInv, SignupsArePosted
  <2>2. post[task[t].bri.comm].time \in Times \cup {None}
    BY <1>0, <2>1 DEF Post
  <2>3. task' \in [Tasks -> Task]
    BY <1>0, <1>4, TaskTypes DEF SignupInsert
  <2>4. QED
    BY <1>4, <2>2, <2>3 DEF SignupInsert, TypeOK, posts, rooms, bounds
<1>5. CASE SetRestream(t)
  <2>1. GetOrCreate \in Info
    BY <1>0, InfoTypes DEF GetOrCreate
  <2>2. PICK bri \in Info : Begin(t, "set_restream", "update", NoBr, bri)
    BY <1>5, <2>1, InfoTypes DEF SetRestream, Columns
  <2>3. task' \in [Tasks -> Task]
    BY <1>0, <2>2, TaskTypes, NoneTypes DEF Kinds, Pcs
  <2>4. QED
    BY <1>5, <2>1, <2>2, <2>3, BeginTypes DEF SetRestream, TypeOK, Counters, posts, rooms
<1>6. QED
  BY <1>1, <1>2, <1>3, <1>4, <1>5 DEF Commentate

LEMMA TaskEndTypes ==
    ASSUME TypeOK, NEW t \in Tasks, UpdateInfo(t) \/ TaskFails(t)
    PROVE  TypeOK'
<1>1. task \in [Tasks -> Task] /\ task[t].bri \in Info
  BY TaskFields DEF TypeOK
<1>2. task' \in [Tasks -> Task]
  BY <1>1, TaskTypes DEF UpdateInfo, TaskFails
<1>3. CASE UpdateInfo(t)
  BY <1>1, <1>2, <1>3 DEF UpdateInfo, TypeOK, posts, rooms, bounds
<1>4. CASE TaskFails(t)
  BY <1>2, <1>4, CountTypes DEF TaskFails, TypeOK, Counters, rows, posts, rooms
<1>5. QED
  BY <1>3, <1>4

LEMMA ScanTypes ==
    ASSUME TypeOK, Scan \/ ScanFails
    PROVE  TypeOK'
<1>0. /\ race \in Race /\ info \in Info /\ post \in [PostIds -> Post] /\ page \subseteq Results
      /\ scan \in Scanner /\ IdleScan \in Scanner
  BY NoneTypes DEF TypeOK, IdleScan, Scanner
<1>1. /\ scan.br \in Race /\ scan.bri \in Info /\ scan.result \in Results \cup {None}
      /\ scan.todo \subseteq Results
  BY <1>0 DEF Scanner
<1>2. CASE ScanLoad
  <2>1. scan' \in Scanner
    BY <1>0, <1>2 DEF ScanLoad, Scanner
  <2>2. QED
    BY <1>2, <2>1 DEF ScanLoad, TypeOK, rows, posts, rooms, bounds
<1>3. CASE ScanQuery
  <2>1. scan' \in Scanner
    BY <1>0, <1>3 DEF ScanQuery, Scanner
  <2>2. QED
    BY <1>3, <2>1 DEF ScanQuery, TypeOK, rows, posts, rooms, bounds
<1>4. CASE ScanNext
  <2>1. scan' \in Scanner
    <3>1. ASSUME NEW r \in scan.todo
          PROVE  [scan EXCEPT !.pc = "update", !.result = r, !.todo = @ \ {r}] \in Scanner
      <4>1. r \in Results
        BY <1>1
      <4>2. QED
        BY <1>0, <4>1 DEF Scanner
    <3>2. QED
      BY <1>0, <1>4, <3>1 DEF ScanNext
  <2>2. QED
    BY <1>4, <2>1 DEF ScanNext, TypeOK, rows, posts, rooms, bounds
<1>5. CASE ScanUpdate
  <2>1. scan' \in Scanner
    BY <1>0, <1>5 DEF ScanUpdate, Scanner
  <2>2. info' \in Info
    BY <1>0, <1>1, <1>5, InfoTypes DEF ScanUpdate, Columns
  <2>3. Counters(begun', failures', restarts')
    BY <1>5, CountTypes DEF ScanUpdate
  <2>4. QED
    BY <1>5, <2>1, <2>2, <2>3 DEF ScanUpdate, TypeOK, Counters, posts, rooms
<1>6. CASE ScanFinish
  <2>1. scan' \in Scanner
    BY <1>0, <1>6 DEF ScanFinish, Scanner
  <2>2. race' \in Race
    <3>1. SaveRace(AddResults(scan.br, scan.result)) \in Race
      BY <1>0, <1>1 DEF SaveRace, AddResults, Race, BracketRaceState
    <3>2. QED
      BY <1>0, <1>6, <3>1 DEF ScanFinish
  <2>3. QED
    BY <1>6, <2>1, <2>2 DEF ScanFinish, TypeOK, posts, rooms, bounds
<1>7. CASE ScanAnnounce
  <2>1. scan' \in Scanner
    BY <1>0, <1>7 DEF ScanAnnounce, Scanner
  <2>2. /\ Counters(begun', failures', restarts') /\ reported' \in Results \cup {None}
        /\ post' \in [PostIds -> Post]
    BY <1>1, <1>7, AnnouncedTypes DEF ScanAnnounce
  <2>3. QED
    BY <1>7, <2>1, <2>2 DEF ScanAnnounce, TypeOK, Counters, rows, rooms
<1>8. CASE ScanFails
  <2>1. scan' \in Scanner
    BY <1>0, <1>8 DEF ScanFails, Scanner
  <2>2. QED
    BY <1>8, <2>1, CountTypes DEF ScanFails, TypeOK, Counters, rows, posts, rooms
<1>9. QED
  BY <1>2, <1>3, <1>4, <1>5, <1>6, <1>7, <1>8 DEF Scan

LEMMA RoomTypes ==
    ASSUME TypeOK, Rooms
    PROVE  TypeOK'
<1>0. /\ info \in Info /\ NoInfo \in Info /\ QueueCap \in Nat /\ MaxRooms \in Nat
      /\ queue \in 0..QueueCap /\ made \in 0..MaxRooms
      /\ room \in [pc : {"idle", "create", "save"}, bri : Info]
  BY NoneTypes, BoundsAssumption DEF TypeOK, BoundsAssumption
<1>1. CASE Upcoming \/ start_race_for
  <2>1. queue' \in 0..QueueCap
    BY <1>0, <1>1 DEF Upcoming, start_race_for
  <2>2. QED
    BY <1>1, <2>1 DEF Upcoming, start_race_for, TypeOK, rows, posts, bounds
<1>2. CASE RoomTake
  <2>1. queue' \in 0..QueueCap
    BY <1>0, <1>2 DEF RoomTake
  <2>2. room' \in [pc : {"idle", "create", "save"}, bri : Info]
    BY <1>0, <1>2 DEF RoomTake, IdleRoom
  <2>3. QED
    BY <1>2, <2>1, <2>2 DEF RoomTake, TypeOK, rows, posts, bounds
<1>3. CASE RoomCreate
  <2>0. /\ made < MaxRooms /\ made' \in {made, made + 1}
        /\ room' \in {IdleRoom, [pc |-> "save", bri |-> Fill(room.bri, "url")]}
    BY <1>3 DEF RoomCreate
  <2>1. made' \in 0..MaxRooms
    BY <1>0, <2>0
  <2>2. Fill(room.bri, "url") \in Info
    BY <1>0, InfoTypes DEF Columns
  <2>3. room' \in [pc : {"idle", "create", "save"}, bri : Info]
    BY <1>0, <2>0, <2>2 DEF IdleRoom
  <2>4. Counters(begun', failures', restarts')
    BY <1>3, CountTypes DEF RoomCreate
  <2>5. QED
    BY <1>3, <2>1, <2>3, <2>4 DEF RoomCreate, TypeOK, Counters, rows, posts
<1>4. CASE RoomSave
  <2>1. info' \in Info /\ room' \in [pc : {"idle", "create", "save"}, bri : Info]
    BY <1>0, <1>4 DEF RoomSave, IdleRoom
  <2>2. Counters(begun', failures', restarts')
    BY <1>4, CountTypes DEF RoomSave
  <2>3. QED
    BY <1>4, <2>1, <2>2 DEF RoomSave, TypeOK, Counters, posts
<1>5. QED
  BY <1>1, <1>2, <1>3, <1>4 DEF Rooms

LEMMA OtherTypes ==
    ASSUME TypeOK, RemoveReaction \/ Commentators \/ Restart \/ Racetime
    PROVE  TypeOK'
<1>1. CASE Racetime
  BY <1>1 DEF Racetime, Play, OffThePage, TypeOK, rows, posts, rooms, bounds
<1>2. CASE RemoveReaction \/ Commentators
  <2>1. begun \in 0..MaxBegun /\ begun < MaxBegun /\ begun' = begun + 1
    BY <1>2 DEF TypeOK, RemoveReaction, Commentators
  <2>2. begun' \in 0..MaxBegun
    BY <2>1, BoundsAssumption DEF BoundsAssumption
  <2>3. info \in Info /\ GetOrCreate \in Info
    BY InfoTypes DEF TypeOK, GetOrCreate
  <2>4. QED
    BY <1>2, <2>2, <2>3 DEF RemoveReaction, Commentators, TypeOK, posts, rooms
<1>3. CASE Restart
  <2>1. restarts \in 0..MaxRestarts /\ restarts < MaxRestarts /\ restarts' = restarts + 1
    BY <1>3 DEF TypeOK, Restart
  <2>2. restarts' \in 0..MaxRestarts /\ queue' \in 0..QueueCap
    BY <1>3, <2>1, BoundsAssumption DEF Restart, BoundsAssumption
  <2>3. /\ IdleTask \in Task /\ IdleScan \in Scanner
        /\ IdleRoom \in [pc : {"idle", "create", "save"}, bri : Info]
    BY NoneTypes DEF IdleTask, IdleScan, IdleRoom, Task, Scanner, Pcs
  <2>4. QED
    BY <1>3, <2>2, <2>3 DEF Restart, TypeOK, rows, posts
<1>4. QED
  BY <1>1, <1>2, <1>3

-----------------------------------------------------------------------------
(* Posts, action by action.                                                *)

\* A task other than t is as it was, and t begins with kind, pc and bri.
LEMMA BegunTask ==
    ASSUME TypeOK, NEW t \in Tasks, NEW kind, NEW pc, NEW br, NEW bri, Begin(t, kind, pc, br, bri)
    PROVE  /\ \A u \in Tasks : u # t => task'[u] = task[u]
           /\ task'[t].kind = kind /\ task'[t].pc = pc
           /\ task'[t].br = br /\ task'[t].bri = bri
BY DEF Begin, TypeOK

LEMMA WentTask ==
    ASSUME TypeOK, NEW t \in Tasks, NEW pc, NEW bri, Goto(t, pc, bri)
    PROVE  /\ \A u \in Tasks : u # t => task'[u] = task[u]
           /\ task'[t].kind = task[t].kind /\ task'[t].pc = pc
           /\ task'[t].br = task[t].br /\ task'[t].bri = bri
BY DEF Goto, TypeOK, Task

LEMMA DoneTask ==
    ASSUME TypeOK, NEW t \in Tasks, Done(t)
    PROVE  (\A u \in Tasks : u # t => task'[u] = task[u]) /\ task'[t] = IdleTask
BY DEF Done, TypeOK

\* Steps after which no task is at an earlier or a new place that matters here.
LEMMA PostInvStays ==
    ASSUME TypeOK, PostInv, begun' = begun, Sent' = Sent,
           \A t \in Tasks : \/ task'[t] = task[t]
                            \/ /\ task'[t].pc # "signup"
                               /\ t \in Posting' => t \in Posting
    PROVE  PostInv'
<1>1. begun \in Nat
  BY BegunType
<1>2. Posting' \subseteq Posting
  BY DEF Posting
<1>3. PostsAreLeft'
  BY <1>1, <1>2, PostsStay DEF PostInv
<1>4. SignupsArePosted'
  BY DEF PostInv, SignupsArePosted, PostIds
<1>5. QED
  BY <1>3, <1>4 DEF PostInv

\* A command begins.
LEMMA PostInvBegins ==
    ASSUME TypeOK, PostInv, NEW t \in Tasks, NEW kind, NEW pc, NEW br, NEW bri,
           Begin(t, kind, pc, br, bri), pc = "signup" => bri.comm \in PostIds, post' = post
    PROVE  PostInv'
<1>1. begun \in Nat /\ begun' = begun + 1 /\ Sent' = Sent
  BY BegunType DEF Begin, Sent
<1>2. Posting' \subseteq Posting \cup {t}
  BY BegunTask DEF Posting
<1>3. PostsAreLeft'
  BY <1>1, <1>2, PostComes DEF PostInv
<1>4. SignupsArePosted'
  BY BegunTask DEF PostInv, SignupsArePosted, PostIds
<1>5. QED
  BY <1>3, <1>4 DEF PostInv

LEMMA InitPosts == Init => PostInv
<1> SUFFICES ASSUME Init PROVE PostInv
  OBVIOUS
<1>1. Posting = {} /\ Sent = {} /\ begun = 0
  BY DEF Init, Posting, Sent, IdleTask
<1>2. PostsAreLeft
  BY <1>1, FS_EmptySet DEF PostsAreLeft
<1>3. SignupsArePosted
  BY DEF Init, SignupsArePosted, IdleTask
<1>4. QED
  BY <1>2, <1>3 DEF PostInv

\* A post that is deleted was made.
LEMMA DeletedSent ==
    ASSUME TypeOK, NEW bri, post' = Deleted(bri)
    PROVE  Sent' = Sent
BY DeletedPosts DEF TypeOK, Sent

LEMMA SchedulePosts ==
    ASSUME TypeOK, PostInv, NEW t \in Tasks, Schedule(t)
    PROVE  PostInv'
<1>1. CASE ScheduleRead(t)
  BY <1>1, PostInvBegins DEF ScheduleRead, posts
<1>2. CASE ScheduleInfo(t) \/ ScheduleWipe(t) \/ ScheduleSave(t) \/ ScheduleClear(t)
  <2>1. t \in Posting
    BY <1>2 DEF ScheduleInfo, ScheduleWipe, ScheduleSave, ScheduleClear, At, Posting
  <2>2. PICK pc, bri : pc \in {"wipe", "save", "clear", "post"} /\ Goto(t, pc, bri)
    BY <1>2 DEF ScheduleInfo, ScheduleWipe, ScheduleSave, ScheduleClear
  <2>3. begun' = begun
    BY <1>2 DEF ScheduleInfo, ScheduleWipe, ScheduleSave, ScheduleClear, bounds, Count
  <2>4. Sent' = Sent
    <3>1. post' = post \/ post' = Deleted(task[t].bri)
      BY <1>2 DEF ScheduleInfo, ScheduleWipe, ScheduleSave, ScheduleClear, posts
    <3>2. QED
      BY <3>1, DeletedSent DEF Sent
  <2>5. QED
    BY <2>1, <2>2, <2>3, <2>4, WentTask, PostInvStays
<1>3. CASE SchedulePost(t)
  <2> DEFINE m == CHOOSE k \in PostIds : post[k].state = "unsent"
  <2>1. t \in Posting
    BY <1>3 DEF SchedulePost, At, Posting
  <2>2. post' = post \/ \E p : post' = [post EXCEPT ![m] = p]
    BY <1>3 DEF SchedulePost
  <2>3. PICK bri : Goto(t, "update", bri)
    BY <1>3 DEF SchedulePost
  <2>4. Posting' \subseteq Posting \ {t}
    BY <2>3, WentTask DEF Posting
  <2>5. begun' = begun /\ begun \in Nat
    BY <1>3, BegunType DEF SchedulePost, Count
  <2> HIDE DEF m
  <2>6. Sent' \subseteq Sent \cup {m}
    BY <2>2 DEF Sent, TypeOK
  <2>7. PostsAreLeft'
    BY <2>1, <2>4, <2>5, <2>6, PostIsMade DEF PostInv
  <2>8. SignupsArePosted'
    BY <2>3, WentTask DEF PostInv, SignupsArePosted, PostIds
  <2>9. QED
    BY <2>7, <2>8 DEF PostInv
<1>4. QED
  BY <1>1, <1>2, <1>3 DEF Schedule

LEMMA ReportPosts ==
    ASSUME TypeOK, PostInv, NEW t \in Tasks, Report(t)
    PROVE  PostInv'
<1>1. CASE ReportRead(t)
  BY <1>1, PostInvBegins DEF ReportRead, posts
<1>2. CASE ReportInfo(t)
  <2>1. Done(t) \/ \E bri : Goto(t, "finish", bri)
    BY <1>2 DEF ReportInfo
  <2>2. begun' = begun /\ Sent' = Sent
    BY <1>2 DEF ReportInfo, bounds, posts, Sent
  <2>3. QED
    BY <2>1, <2>2, WentTask, DoneTask, PostInvStays DEF Posting, IdleTask
<1>3. CASE Finish(t)
  <2>1. begun' = begun /\ Sent' = Sent
    BY <1>3 DEF Finish, bounds, posts, Sent
  <2>2. /\ \A u \in Tasks : u # t => task'[u] = task[u]
        /\ task'[t].pc = "announce"
    BY <1>3 DEF Finish, TypeOK, Task
  <2>3. QED
    BY <2>1, <2>2, PostInvStays DEF Posting
<1>4. CASE Announce(t)
  <2>1. task[t].br.result \in Results \cup {None}
    BY TaskFields DEF TypeOK, Race
  <2>2. begun' = begun /\ Sent' = Sent
    BY <1>4, <2>1, AnnouncedTypes DEF Announce
  <2>3. QED
    BY <1>4, <2>2, DoneTask, PostInvStays DEF Announce, Posting, IdleTask
<1>5. QED
  BY <1>1, <1>2, <1>3, <1>4 DEF Report

LEMMA CommentatePosts ==
    ASSUME TypeOK, PostInv, NEW t \in Tasks, Commentate(t)
    PROVE  PostInv'
<1>1. CASE Confirm(t) \/ Restream(t) \/ SetRestream(t)
  <2>1. \/ Begin(t, "confirm", "post", NoBr, info)
        \/ Begin(t, "restream", "post", NoBr, Fill(info, "channel"))
        \/ \E bri : Begin(t, "set_restream", "update", NoBr, bri)
    BY <1>1 DEF Confirm, Restream, SetRestream
  <2>2. post' = post
    BY <1>1 DEF Confirm, Restream, SetRestream, posts
  <2>3. QED
    BY <2>1, <2>2, PostInvBegins
<1>2. CASE Signup(t)
  <2>1. info.comm \in PostIds
    BY <1>2 DEF Signup, Recognised
  <2>2. Begin(t, "signup", "signup", NoBr, info) /\ post' = post
    BY <1>2 DEF Signup, posts
  <2>3. QED
    BY <2>1, <2>2, PostInvBegins
<1>3. CASE ConfirmPost(t) \/ ConfirmClear(t) \/ RestreamPost(t)
  <2>1. PICK pc, bri : pc \in {"clear", "update"} /\ Goto(t, pc, bri)
    BY <1>3 DEF ConfirmPost, ConfirmClear, RestreamPost
  <2>2. task[t].kind # "schedule"
    BY <1>3 DEF ConfirmPost, ConfirmClear, RestreamPost, At
  <2>3. begun' = begun
    BY <1>3 DEF ConfirmPost, ConfirmClear, RestreamPost, Count
  <2>4. Sent' = Sent
    <3>1. post' = post \/ post' = Deleted(task[t].bri)
      BY <1>3 DEF ConfirmPost, ConfirmClear, RestreamPost, posts
    <3>2. QED
      BY <3>1, DeletedSent DEF Sent
  <2>5. t \notin Posting'
    BY <2>1, <2>2, WentTask DEF Posting
  <2>6. QED
    BY <2>1, <2>3, <2>4, <2>5, WentTask, PostInvStays
<1>4. CASE SignupInsert(t)
  <2>1. begun' = begun /\ Sent' = Sent
    BY <1>4 DEF SignupInsert, bounds, posts, Sent
  <2>2. QED
    BY <1>4, <2>1, DoneTask, PostInvStays DEF SignupInsert, Posting, IdleTask
<1>5. QED
  BY <1>1, <1>2, <1>3, <1>4 DEF Commentate

LEMMA OtherPosts ==
    ASSUME TypeOK, PostInv,
           \/ \E t \in Tasks : UpdateInfo(t) \/ TaskFails(t)
           \/ Scan \/ ScanFails \/ Rooms \/ RemoveReaction \/ Commentators \/ Restart
           \/ Racetime
    PROVE  PostInv'
<1>1. ASSUME NEW t \in Tasks, UpdateInfo(t) \/ TaskFails(t) PROVE PostInv'
  <2>1. begun' = begun /\ Sent' = Sent
    BY <1>1 DEF UpdateInfo, TaskFails, bounds, posts, Sent, Count
  <2>2. Done(t)
    BY <1>1 DEF UpdateInfo, TaskFails
  <2>3. QED
    BY <2>1, <2>2, DoneTask, PostInvStays DEF Posting, IdleTask
<1>2. CASE Scan \/ ScanFails
  <2>1. begun' = begun /\ Sent' = Sent
    <3>1. CASE ScanAnnounce
      <4>1. scan.result \in Results \cup {None}
        BY DEF TypeOK, Scanner
      <4>2. QED
        BY <3>1, <4>1, AnnouncedTypes DEF ScanAnnounce
    <3>2. CASE \/ ScanLoad \/ ScanQuery \/ ScanNext \/ ScanUpdate \/ ScanFinish \/ ScanFails
      BY <3>2 DEF ScanLoad, ScanQuery, ScanNext, ScanUpdate, ScanFinish, ScanFails,
                  bounds, posts, Sent, Count
    <3>3. QED
      BY <1>2, <3>1, <3>2 DEF Scan
  <2>2. task' = task
    BY <1>2 DEF Scan, ScanLoad, ScanQuery, ScanNext, ScanUpdate, ScanFinish, ScanAnnounce, ScanFails
  <2>3. QED
    BY <2>1, <2>2, PostInvStays
<1>3. CASE Rooms \/ Racetime
  <2>1. begun' = begun /\ task' = task
    BY <1>3 DEF Rooms, Upcoming, start_race_for, RoomTake, RoomCreate, RoomSave, Racetime, Play, OffThePage,
                bounds, Count
  <2>2. Sent' = Sent
    BY <1>3 DEF Rooms, Upcoming, start_race_for, RoomTake, RoomCreate, RoomSave, Racetime, Play, OffThePage,
                posts, Sent
  <2>3. QED
    BY <2>1, <2>2, PostInvStays
<1>4. CASE RemoveReaction \/ Commentators
  <2>1. /\ begun' = begun + 1 /\ begun \in Nat /\ Sent' = Sent /\ Posting' = Posting
        /\ task' = task
    BY <1>4, BegunType DEF RemoveReaction, Commentators, posts, Sent, Posting
  <2>2. PostsAreLeft'
    BY <2>1, PostsStay DEF PostInv
  <2>3. QED
    BY <2>1, <2>2 DEF PostInv, SignupsArePosted, PostIds
<1>5. CASE Restart
  <2>1. begun' = begun /\ Sent' = Sent /\ \A t \in Tasks : task'[t] = IdleTask
    BY <1>5 DEF Restart, posts, Sent
  <2>2. QED
    BY <2>1, PostInvStays DEF Posting, IdleTask
<1>6. QED
  BY <1>1, <1>2, <1>3, <1>4, <1>5

-----------------------------------------------------------------------------
(* The theorems.                                                           *)

LEMMA InitTypes == Init => TypeOK
<1> SUFFICES ASSUME Init PROVE TypeOK
  OBVIOUS
<1>1. /\ IdleTask \in Task /\ IdleScan \in Scanner
      /\ IdleRoom \in [pc : {"idle", "create", "save"}, bri : Info]
  BY NoneTypes DEF IdleTask, IdleScan, IdleRoom, Task, Scanner, Pcs
<1>2. 0 \in 0..QueueCap /\ 0 \in 0..MaxRooms /\ Counters(0, 0, 0)
  BY BoundsAssumption DEF BoundsAssumption, Counters
<1>3. post \in [PostIds -> Post]
  BY DEF Init, Post
<1>4. QED
  BY <1>1, <1>2, <1>3, NoneTypes DEF Init, TypeOK, Counters

LEMMA NextTypes == TypeOK /\ PostInv /\ [Next]_vars => TypeOK' /\ PostInv'
<1> SUFFICES ASSUME TypeOK, PostInv, [Next]_vars PROVE TypeOK' /\ PostInv'
  OBVIOUS
<1>1. ASSUME NEW t \in Tasks, Schedule(t) \/ Report(t) \/ Commentate(t)
      PROVE  TypeOK' /\ PostInv'
  BY <1>1, ScheduleTypes, ReportTypes, CommentateTypes, SchedulePosts, ReportPosts,
     CommentatePosts
<1>2. ASSUME NEW t \in Tasks, UpdateInfo(t) \/ TaskFails(t) PROVE TypeOK' /\ PostInv'
  BY <1>2, TaskEndTypes, OtherPosts
<1>3. CASE Scan \/ ScanFails \/ Rooms
  BY <1>3, ScanTypes, RoomTypes, OtherPosts
<1>4. CASE RemoveReaction \/ Commentators \/ Restart \/ Racetime
  BY <1>4, OtherTypes, OtherPosts
<1>5. CASE UNCHANGED vars
  <2>1. TypeOK'
    BY <1>5 DEF TypeOK, vars, rows, posts, rooms, bounds
  <2>2. PostInv'
    BY <1>5, PostInvStays DEF vars, posts, bounds, Sent
  <2>3. QED
    BY <2>1, <2>2
<1>6. QED
  BY <1>1, <1>2, <1>3, <1>4, <1>5 DEF Next

\* Every variable keeps its type; in particular no command runs out of posts,
\* and no reaction is handled without the post it was made to.
THEOREM TypeCorrect == Spec => []TypeOK
<1>1. Spec => [](TypeOK /\ PostInv)
  BY InitTypes, InitPosts, NextTypes, PTL DEF Spec
<1>2. QED
  BY <1>1, PTL

-----------------------------------------------------------------------------
(* A finished race has a result.                                           *)

\* The scanner never comes to finish a race without a result.
ScanHasResult == scan.pc \in {"update", "finish", "announce"} => scan.result \in Results

\* What any step may do to the row of the race: nothing, schedule it, or finish
\* it with a result, whichever copy it writes back.
LEMMA RaceSteps ==
    ASSUME TypeOK, ScanHasResult, [Next]_vars
    PROVE  \/ race' = race
           \/ /\ \E t \in Tasks : ScheduleSave(t)
              /\ \E br \in Race : race' = SaveRace([br EXCEPT !.state = "Scheduled"])
           \/ \E br \in Race, r \in Results : race' = SaveRace(AddResults(br, r))
<1>1. ASSUME NEW t \in Tasks, Schedule(t)
      PROVE  \/ race' = race
             \/ /\ ScheduleSave(t)
                /\ \E br \in Race : race' = SaveRace([br EXCEPT !.state = "Scheduled"])
  <2>1. task[t].br \in Race
    BY TaskFields DEF TypeOK
  <2>2. \/ race' = race
        \/ ScheduleSave(t) /\ race' = SaveRace([task[t].br EXCEPT !.state = "Scheduled"])
    BY <1>1 DEF Schedule, ScheduleRead, ScheduleInfo, ScheduleWipe, ScheduleSave, ScheduleClear,
                SchedulePost, rows
  <2>3. QED
    BY <2>1, <2>2
<1>2. ASSUME NEW t \in Tasks, Report(t)
      PROVE  \/ race' = race
             \/ \E br \in Race, r \in Results : race' = SaveRace(AddResults(br, r))
  <2>1. task[t].br \in Race
    BY TaskFields DEF TypeOK
  <2>2. race' = race \/ \E r \in Results : race' = SaveRace(AddResults(task[t].br, r))
    BY <1>2 DEF Report, ReportRead, ReportInfo, Finish, Announce, rows
  <2>3. QED
    BY <2>1, <2>2
<1>3. ASSUME Scan
      PROVE  \/ race' = race
             \/ \E br \in Race, r \in Results : race' = SaveRace(AddResults(br, r))
  <2>1. scan.br \in Race
    BY DEF TypeOK, Scanner
  <2>2. race' = race \/ (scan.pc = "finish" /\ race' = SaveRace(AddResults(scan.br, scan.result)))
    BY <1>3 DEF Scan, ScanLoad, ScanQuery, ScanNext, ScanUpdate, ScanFinish, ScanAnnounce, rows
  <2>3. QED
    BY <2>1, <2>2 DEF ScanHasResult
<1>4. ASSUME NEW t \in Tasks, Commentate(t) PROVE race' = race
  BY <1>4 DEF Commentate, Confirm, ConfirmPost, ConfirmClear, Signup, SignupInsert, Restream,
              RestreamPost, SetRestream, rows
<1>5. ASSUME NEW t \in Tasks, UpdateInfo(t) \/ TaskFails(t) PROVE race' = race
  BY <1>5 DEF UpdateInfo, TaskFails, rows
<1>6. CASE \/ Rooms \/ ScanFails \/ RemoveReaction \/ Commentators \/ Restart
           \/ Racetime
  BY <1>6 DEF Rooms, Upcoming, start_race_for, RoomTake, RoomCreate, RoomSave, ScanFails,
              RemoveReaction, Commentators, Restart, Racetime, Play, OffThePage, rows
<1>7. CASE UNCHANGED vars
  BY <1>7 DEF vars, rows
<1>8. QED
  BY <1>1, <1>2, <1>3, <1>4, <1>5, <1>6, <1>7 DEF Next

LEMMA NextScanHasResult == TypeOK /\ ScanHasResult /\ [Next]_vars => ScanHasResult'
<1> SUFFICES ASSUME TypeOK, ScanHasResult, [Next]_vars PROVE ScanHasResult'
  OBVIOUS
<1>1. scan \in Scanner
  BY DEF TypeOK
<1>2. CASE Scan \/ ScanFails
  <2>0. scan.todo \subseteq Results
    BY <1>1 DEF Scanner
  <2>1. CASE ScanNext
    <3>1. CASE scan' = IdleScan
      BY <3>1 DEF ScanHasResult, IdleScan
    <3>2. ASSUME NEW r \in scan.todo,
                 scan' = [scan EXCEPT !.pc = "update", !.result = r, !.todo = @ \ {r}]
          PROVE  scan'.result = r
      BY <1>1, <3>2 DEF Scanner
    <3>3. QED
      BY <2>0, <2>1, <3>1, <3>2 DEF ScanNext, ScanHasResult
  <2>2. CASE \/ ScanLoad \/ ScanQuery \/ ScanUpdate \/ ScanFinish \/ ScanAnnounce \/ ScanFails
    <3>1. CASE ScanLoad \/ ScanQuery \/ ScanFails
      <4>1. scan'.pc \in {"query", "next", "idle"}
        <5>1. CASE ScanLoad
          BY <5>1 DEF ScanLoad, IdleScan
        <5>2. CASE ScanQuery
          BY <1>1, <5>2 DEF ScanQuery, Scanner
        <5>3. CASE ScanFails
          <6>1. scan' \in {IdleScan, [scan EXCEPT !.pc = "next", !.result = None]}
            BY <5>3 DEF ScanFails
          <6>2. [scan EXCEPT !.pc = "next", !.result = None].pc = "next"
            BY <1>1 DEF Scanner
          <6>3. IdleScan.pc = "idle"
            BY DEF IdleScan
          <6>4. QED
            BY <6>1, <6>2, <6>3
        <5>4. QED
          BY <3>1, <5>1, <5>2, <5>3
      <4>2. QED
        BY <4>1 DEF ScanHasResult
    <3>2. CASE ScanUpdate
      BY <1>1, <3>2 DEF ScanUpdate, ScanHasResult, Scanner
    <3>3. CASE ScanFinish \/ ScanAnnounce
      <4>1. \/ scan'.pc = "next"
            \/ scan.pc = "finish" /\ scan' = [scan EXCEPT !.pc = "announce"]
        BY <1>1, <3>3 DEF ScanFinish, ScanAnnounce, Scanner
      <4>2. QED
        BY <1>1, <4>1 DEF ScanHasResult, Scanner
    <3>4. QED
      BY <2>2, <3>1, <3>2, <3>3
  <2>3. QED
    BY <1>2, <2>1, <2>2 DEF Scan
<1>3. CASE Restart
  BY <1>3 DEF Restart, ScanHasResult, IdleScan
<1>4. ASSUME NEW t \in Tasks,
             Schedule(t) \/ Report(t) \/ Commentate(t) \/ UpdateInfo(t) \/ TaskFails(t)
      PROVE  scan' = scan
  BY <1>4 DEF Schedule, ScheduleRead, ScheduleInfo, ScheduleWipe, ScheduleSave, ScheduleClear,
              SchedulePost, Report, ReportRead, ReportInfo, Finish, Announce, Commentate, Confirm,
              ConfirmPost, ConfirmClear, Signup, SignupInsert, Restream, RestreamPost,
              SetRestream, UpdateInfo, TaskFails
<1>5. CASE \/ Rooms \/ RemoveReaction \/ Commentators \/ UNCHANGED vars
           \/ Racetime
  BY <1>5 DEF Rooms, Upcoming, start_race_for, RoomTake, RoomCreate, RoomSave,
              RemoveReaction, Commentators, Racetime, Play, OffThePage, vars, ScanHasResult
<1>6. QED
  BY <1>2, <1>3, <1>4, <1>5 DEF Next, ScanHasResult

\* One step of the two theorems below.
LEMMA NextResult ==
    ASSUME TypeOK, ScanHasResult, [Next]_vars
    PROVE  /\ FinishedHasResult => FinishedHasResult'
           /\ race.result # None => race'.result # None
<1>1. race \in Race
  BY DEF TypeOK
<1>2. CASE \E br \in Race : race' = SaveRace([br EXCEPT !.state = "Scheduled"])
  BY <1>1, <1>2 DEF SaveRace, Race, FinishedHasResult
<1>3. CASE \E br \in Race, r \in Results : race' = SaveRace(AddResults(br, r))
  BY <1>1, <1>3, DataAssumption DEF DataAssumption, SaveRace, AddResults, Race, FinishedHasResult
<1>4. CASE race' = race
  BY <1>4 DEF FinishedHasResult
<1>5. QED
  BY <1>2, <1>3, <1>4, RaceSteps

LEMMA ScansHaveResults == Spec => []ScanHasResult
<1>1. Init => ScanHasResult
  BY DEF Init, ScanHasResult, IdleScan
<1>2. QED
  BY <1>1, NextScanHasResult, TypeCorrect, PTL DEF Spec

\* A finished race has a result, whoever wrote its row last: a report, a
\* scan, or a schedule command that read it before it was finished.
THEOREM FinishedRacesHaveResults == Spec => []FinishedHasResult
<1>1. Init => FinishedHasResult
  BY DEF Init, FinishedHasResult, NoBr
<1>2. QED
  BY <1>1, NextResult, ScansHaveResults, TypeCorrect, PTL DEF Spec

\* No stale copy erases a result.
THEOREM ResultsAreKept == Spec => ResultIsKept
<1>1. TypeOK /\ ScanHasResult /\ [Next]_vars => [race.result # None => race.result' # None]_vars
  BY NextResult
<1>2. QED
  BY <1>1, ScansHaveResults, TypeCorrect, PTL DEF Spec, ResultIsKept

-----------------------------------------------------------------------------
(* When one handler runs at a time (MaxBusy = 1), what it read is what the *)
(* rows still say.  The invariant says so of each copy, and what the posts,*)
(* the signup, the result posted and the rooms have to do with the rows    *)
(* while that handler is between two steps.                                *)

\* Copies of the info are of the same event ...
SameEvent(bri) ==
    /\ bri.scheduled = info.scheduled
    /\ "url" \in bri.filled <=> "url" \in info.filled

\* ... no other post than the one bri records is shown ...
OnlyPost(bri) == \A m \in PostIds : post[m].state = "shown" => bri.comm = m

\* ... and that one announces the time of bri.
Advertised(bri) ==
    /\ OnlyPost(bri)
    /\ bri.comm # 0 => post[bri.comm].time = bri.scheduled

Clean == failures = 0 /\ restarts = 0

Replacing(c) == c.kind = "schedule" /\ c.pc \in {"clear", "post", "update"}

\* What holds of the race while the command c is handled ...
Global(c) ==
    /\ made <= 1 + failures + restarts
    /\ "url" \notin info.filled /\ room.pc # "save" => made <= failures + restarts
    /\ Clean =>
        /\ ~Replacing(c) => Advertised(info)
        /\ signup \in {None, "by_admin", info.scheduled}
        /\ c.pc # "announce" /\ reported # None => reported = race.result

\* ... and of what c has read and is to write.
Local(c) ==
    /\ c.pc \in {"wipe", "clear", "post", "signup", "update"} => SameEvent(c.bri)
    /\ c.pc \in {"info", "wipe", "save"} /\ c.kind = "schedule" =>
            c.br = race /\ race.state # "Finished"
    /\ c.pc = "announce" => c.br.result = race.result
    /\ Clean =>
        /\ c.kind = "schedule" /\ c.pc \in {"wipe", "save", "clear", "post"} => OnlyPost(c.bri)
        /\ c.kind = "schedule" /\ c.pc = "save" => signup = None
        /\ c.kind = "schedule" /\ c.pc = "post" => c.bri.comm = 0
        /\ \/ c.pc \in {"signup", "update"}
           \/ c.kind # "schedule" /\ c.pc \in {"post", "clear"}
           => Advertised(c.bri)

OnlyTask(t) ==
    /\ \A u \in Tasks : u = t \/ task[u].pc = "idle"
    /\ scan.pc = "idle" /\ room.pc = "idle"
    /\ Global(task[t]) /\ Local(task[t])

OnlyScan ==
    /\ Busy = {} /\ room.pc = "idle"
    /\ Global([IdleTask EXCEPT !.pc = scan.pc])
    /\ scan.pc # "idle" => scan.bri.scheduled = info.scheduled /\ scan.bri.comm = info.comm
    /\ scan.pc = "announce" => scan.result = race.result

OnlyRoom ==
    /\ Busy = {} /\ scan.pc = "idle"
    /\ Global(IdleTask)
    /\ room.pc # "idle" =>
        /\ room.bri.scheduled = info.scheduled /\ room.bri.comm = info.comm
        /\ "url" \notin info.filled
        /\ room.pc = "save" => "url" \in room.bri.filled

OneAtATime == OnlyScan \/ OnlyRoom \/ \E t \in Tasks : OnlyTask(t)

\* Changes to an info that matter to none of these.
Alike(b1, b2) ==
    /\ b1.scheduled = b2.scheduled /\ b1.comm = b2.comm
    /\ "url" \in b1.filled <=> "url" \in b2.filled

LEMMA AlikeInfos ==
    ASSUME NEW bri \in Info
    PROVE  /\ \A col \in Columns \ {"url"} : Alike(Fill(bri, col), bri) /\ Alike(Clear(bri, col), bri)
           /\ Alike([bri EXCEPT !.exists = TRUE], bri)
BY DEF Alike, Fill, Clear, Info, Columns

LEMMA CountersAreNat == TypeOK => failures \in Nat /\ restarts \in Nat /\ made \in Nat
<1>1. TypeOK => /\ failures \in 0..MaxFailures /\ restarts \in 0..MaxRestarts
                /\ made \in 0..MaxRooms
  BY DEF TypeOK
<1>2. QED
  BY <1>1, BoundsAssumption DEF BoundsAssumption

\* Fewer failures would mean fewer rooms.
LEMMA MoreRoom ==
    ASSUME TypeOK, failures' \in Nat, failures <= failures'
    PROVE  /\ made <= 1 + failures + restarts => made <= 1 + failures' + restarts
           /\ made <= failures + restarts => made <= failures' + restarts
BY CountersAreNat

LEMMA GlobalStays ==
    ASSUME TypeOK, NEW c, NEW d, Global(c), Alike(info', info),
           d.pc # "announce" => race'.result = race.result,
           post' = post, reported' = reported, made' = made, restarts' = restarts,
           signup' \in {signup, None, "by_admin"},
           failures' \in Nat, failures <= failures', room.pc # "save",
           Replacing(c) => Replacing(d), c.pc = "announce" => d.pc = "announce"
    PROVE  Global(d)'
<1>1. /\ failures \in Nat /\ restarts \in Nat /\ made \in Nat /\ failures' \in Nat
      /\ failures <= failures'
  BY CountersAreNat
<1>2. /\ made <= 1 + failures + restarts => made <= 1 + failures' + restarts
      /\ made <= failures + restarts => made <= failures' + restarts
  BY MoreRoom
<1>3. Clean' => Clean
  BY <1>1 DEF Clean
<1>4. Advertised(info) => Advertised(info)'
  BY DEF Advertised, OnlyPost, Alike, PostIds
<1>5. QED
  BY <1>2, <1>3, <1>4 DEF Global, Alike, Replacing

\* After a failure little is promised.
LEMMA GlobalFails ==
    ASSUME TypeOK, NEW c, NEW d, Global(c), "url" \in info'.filled <=> "url" \in info.filled,
           made' = made, restarts' = restarts, failures' = failures + 1, room.pc # "save"
    PROVE  Global(d)' /\ ~Clean'
<1>1. /\ failures \in Nat /\ restarts \in Nat /\ made \in Nat /\ failures' \in Nat
      /\ failures <= failures' /\ failures' # 0
  BY CountersAreNat
<1>2. /\ made <= 1 + failures + restarts => made <= 1 + failures' + restarts
      /\ made <= failures + restarts => made <= failures' + restarts
  BY <1>1, MoreRoom
<1>3. QED
  BY <1>1, <1>2 DEF Global, Clean

-----------------------------------------------------------------------------
(* Whose turn it is.                                                       *)

\* Nothing begins while something else is at work.
LEMMA OneBegins == ASSUME MaxBusy = 1, OneAtATime, MayBegin PROVE Quiet
<1>1. CASE OnlyScan \/ OnlyRoom
  <2>1. Busy = {} /\ Cardinality(Busy) = 0
    BY <1>1, FS_EmptySet DEF OnlyScan, OnlyRoom
  <2>2. QED
    BY <2>1 DEF MayBegin, Quiet
<1>2. ASSUME NEW t \in Tasks, OnlyTask(t) PROVE Quiet
  <2>1. Busy \subseteq {t} /\ scan.pc = "idle" /\ room.pc = "idle"
    BY <1>2 DEF OnlyTask, Busy
  <2>2. Busy = {} \/ Busy = {t}
    BY <2>1
  <2>3. Cardinality({t}) = 1
    BY FS_Singleton
  <2>4. QED
    BY <2>1, <2>2, <2>3 DEF MayBegin, Quiet
<1>3. QED
  BY <1>1, <1>2 DEF OneAtATime

LEMMA NothingAtWork == ASSUME OneAtATime, Quiet PROVE Global(IdleTask)
<1>1. \A t \in Tasks : task[t].pc = "idle"
  BY DEF Quiet, Busy
<1>2. IdleTask.pc = "idle" /\ [IdleTask EXCEPT !.pc = scan.pc].pc = "idle"
  BY DEF Quiet, IdleTask
<1>3. QED
  BY <1>1, <1>2 DEF OneAtATime, OnlyScan, OnlyRoom, OnlyTask, Quiet, Global, Replacing

LEMMA TaskAtWork ==
    ASSUME OneAtATime, NEW t \in Tasks, task[t].pc # "idle"
    PROVE  OnlyTask(t)
BY DEF OneAtATime, OnlyScan, OnlyRoom, OnlyTask, Busy

LEMMA TaskGoesOn ==
    ASSUME NEW t \in Tasks, \A u \in Tasks : u = t \/ task[u].pc = "idle",
           \A u \in Tasks : u # t => task'[u] = task[u],
           scan.pc = "idle", room.pc = "idle", scan' = scan, room' = room,
           NEW d, d = task'[t], Global(d)', Local(d)'
    PROVE  OneAtATime'
<1>1. Global(task[t])' /\ Local(task[t])'
  BY DEF Global, Local, Replacing
<1>2. \A u \in Tasks : u = t \/ task'[u].pc = "idle"
  OBVIOUS
<1>3. OnlyTask(t)'
  BY <1>1, <1>2 DEF OnlyTask
<1>4. QED
  BY <1>3 DEF OneAtATime

\* A command begins.
LEMMA TaskBegins ==
    ASSUME MaxBusy = 1, TypeOK, OneAtATime, NEW t \in Tasks, NEW kind, NEW pc, NEW br, NEW bri,
           Begin(t, kind, pc, br, bri), pc # "announce", race' = race, signup' = signup,
           Alike(info', info), post' = post, reported' = reported, made' = made,
           scan' = scan, room' = room, NEW d, d = task'[t], Local(d)'
    PROVE  OneAtATime'
<1>1. Quiet /\ Global(IdleTask)
  BY OneBegins, NothingAtWork DEF Begin
<1>2. failures' = failures /\ restarts' = restarts /\ failures \in Nat
  BY CountersAreNat DEF Begin
<1>3. ~Replacing(IdleTask) /\ IdleTask.pc # "announce"
  BY DEF Replacing, IdleTask
<1>4. Global(d)'
  BY <1>1, <1>2, <1>3, GlobalStays DEF Quiet
<1>5. \A u \in Tasks : task[u].pc = "idle"
  BY <1>1 DEF Quiet, Busy
<1>6. \A u \in Tasks : u # t => task'[u] = task[u]
  BY BegunTask
<1>7. QED
  BY <1>1, <1>4, <1>5, <1>6, TaskGoesOn DEF Quiet

\* A command goes on, or ends, at t.
LEMMA TaskSteps ==
    ASSUME TypeOK, OneAtATime, NEW t \in Tasks, task[t].pc # "idle",
           \A u \in Tasks : u # t => task'[u] = task[u],
           scan' = scan, room' = room, NEW d, d = task'[t], Global(d)', Local(d)'
    PROVE  OneAtATime'
BY TaskAtWork, TaskGoesOn DEF OnlyTask

\* A command ends, and fails.
LEMMA IdleIsFine == Local(IdleTask)' /\ ~Replacing(IdleTask) /\ IdleTask.pc = "idle"
BY DEF Local, Replacing, IdleTask

LEMMA TaskBreaks ==
    ASSUME TypeOK, OneAtATime, NEW t \in Tasks, TaskFails(t)
    PROVE  OneAtATime'
<1>1. task[t].pc # "idle" /\ Count(FALSE) /\ Done(t)
  BY DEF TaskFails, At
<1>2. /\ race' = race /\ info' = info /\ made' = made /\ scan' = scan /\ room' = room
  BY DEF TaskFails, rows, rooms
<1>3. failures' = failures + 1 /\ restarts' = restarts
  BY <1>1 DEF Count
<1>4. room.pc = "idle" /\ Global(task[t])
  BY <1>1, TaskAtWork DEF OnlyTask
<1>5. Global(IdleTask)'
  BY <1>2, <1>3, <1>4, GlobalFails
<1>6. QED
  BY <1>1, <1>2, <1>5, DoneTask, TaskSteps, IdleIsFine

\* A command saves the info and ends.
LEMMA TaskUpdates ==
    ASSUME TypeOK, OneAtATime, NEW t \in Tasks, UpdateInfo(t)
    PROVE  OneAtATime'
<1>1. PICK c : c = task[t]
  OBVIOUS
<1>2. /\ c.pc = "update" /\ info' = c.bri /\ Done(t) /\ race' = race /\ signup' = signup
      /\ post' = post /\ reported' = reported /\ made' = made /\ scan' = scan /\ room' = room
      /\ failures' = failures /\ restarts' = restarts
  BY <1>1 DEF UpdateInfo, posts, rooms, bounds
<1>3. room.pc = "idle" /\ Global(c) /\ Local(c)
  BY <1>1, <1>2, TaskAtWork DEF OnlyTask
<1>4. SameEvent(c.bri) /\ (Clean => Advertised(c.bri))
  BY <1>2, <1>3 DEF Local
<1>5. Clean => Advertised(info)'
  BY <1>2, <1>4 DEF Advertised, OnlyPost, PostIds
<1>6. Global(IdleTask)'
  BY <1>2, <1>3, <1>4, <1>5, IdleIsFine DEF Global, SameEvent, Clean
<1>7. QED
  BY <1>1, <1>2, <1>6, DoneTask, TaskSteps, IdleIsFine

-----------------------------------------------------------------------------
(* Commands, one at a time.                                                *)

\* A deleted post takes nothing from what is announced.
LEMMA DeletedPost ==
    ASSUME TypeOK, NEW bri, post' = Deleted(bri)
    PROVE  \A m \in PostIds : /\ post'[m].time = post[m].time
                              /\ post'[m].state = "shown" =>
                                    post[m].state = "shown" /\ bri.comm # m
BY DEF TypeOK, Deleted, Post

LEMMA DeletedStays ==
    ASSUME TypeOK, NEW bri, NEW b \in Info, post' = post \/ post' = Deleted(bri),
           Advertised(b)
    PROVE  Advertised(b)'
<1>1. b.comm # 0 => b.comm \in PostIds
  BY DEF Info
<1>2. \A m \in PostIds : /\ post'[m].time = post[m].time
                         /\ post'[m].state = "shown" => post[m].state = "shown"
  BY DeletedPost
<1>3. QED
  BY <1>1, <1>2 DEF Advertised, OnlyPost, PostIds

LEMMA ClearedInfo ==
    ASSUME NEW bri \in Info, NEW ok \in BOOLEAN
    PROVE  /\ ClearComm(bri, ok) \in Info
           /\ ClearComm(bri, ok).scheduled = bri.scheduled
           /\ ClearComm(bri, ok).filled = bri.filled
           /\ ok => ClearComm(bri, ok).comm = 0
BY DEF ClearComm, Info

LEMMA ScheduleAlone ==
    ASSUME MaxBusy = 1, TypeOK, PostInv, OneAtATime, NEW t \in Tasks, Schedule(t)
    PROVE  OneAtATime'
<1>0. /\ race \in Race /\ info \in Info /\ task[t].br \in Race /\ task[t].bri \in Info
  BY TaskFields DEF TypeOK
<1> PICK c : c = task[t]
  OBVIOUS
<1> PICK d : d = task'[t]
  OBVIOUS
<1>1. CASE ScheduleRead(t)
  <2>1. /\ Begin(t, "schedule", "info", race, NoInfo) /\ race.state # "Finished"
        /\ race' = race /\ info' = info /\ signup' = signup /\ post' = post
        /\ reported' = reported /\ made' = made /\ scan' = scan /\ room' = room
    BY <1>1 DEF ScheduleRead, rows, posts, rooms
  <2>2. d.pc = "info" /\ d.br = race
    BY <2>1, BegunTask
  <2>3. Local(d)'
    BY <2>1, <2>2 DEF Local
  <2>4. Alike(info', info)
    BY <2>1 DEF Alike
  <2>5. QED
    BY <2>1, <2>3, <2>4, TaskBegins
<1>2. CASE ScheduleInfo(t)
  <2>1. /\ c.kind = "schedule" /\ c.pc = "info" /\ info' = GetOrCreate
        /\ Goto(t, "wipe", GetOrCreate) /\ race' = race /\ signup' = signup /\ post' = post
        /\ reported' = reported /\ made' = made /\ scan' = scan /\ room' = room
        /\ failures' = failures /\ restarts' = restarts
    BY <1>2 DEF ScheduleInfo, At, posts, rooms, bounds
  <2>2. room.pc = "idle" /\ Global(c) /\ Local(c)
    BY <2>1, TaskAtWork DEF OnlyTask
  <2>3. d.kind = "schedule" /\ d.pc = "wipe" /\ d.br = c.br /\ d.bri = info'
    BY <2>1, WentTask
  <2>4. Alike(info', info)
    BY <1>0, <2>1, AlikeInfos DEF GetOrCreate
  <2>5. failures \in Nat
    BY CountersAreNat
  <2>6. Global(d)'
    BY <2>1, <2>2, <2>3, <2>4, <2>5, GlobalStays DEF Replacing
  <2>7. Clean' => OnlyPost(d.bri)'
    BY <2>1, <2>2, <2>3, <2>4 DEF Clean, Global, Replacing, Advertised, OnlyPost, Alike, PostIds
  <2>8. Local(d)'
    BY <2>1, <2>2, <2>3, <2>7 DEF Local, SameEvent
  <2>9. QED
    BY <2>1, <2>6, <2>8, WentTask, TaskSteps
<1>3. CASE ScheduleWipe(t)
  <2>1. PICK when \in Times : Goto(t, "save", Rescheduled(c.bri, when))
    BY <1>3 DEF ScheduleWipe
  <2>2. /\ c.kind = "schedule" /\ c.pc = "wipe" /\ info' = info
        /\ race' = race /\ signup' = None /\ post' = post
        /\ reported' = reported /\ made' = made /\ scan' = scan /\ room' = room
        /\ failures' = failures /\ restarts' = restarts
    BY <1>3 DEF ScheduleWipe, At, posts, rooms, bounds
  <2>3. room.pc = "idle" /\ Global(c) /\ Local(c)
    BY <2>2, TaskAtWork DEF OnlyTask
  <2>4. /\ d.kind = "schedule" /\ d.pc = "save" /\ d.br = c.br
        /\ d.bri = Rescheduled(c.bri, when)
    BY <2>1, <2>2, WentTask
  <2>5. d.bri.comm = c.bri.comm
    BY <1>0, <2>4 DEF Rescheduled, Clear, Info
  <2>6. Alike(info', info) /\ failures \in Nat
    BY <2>2, CountersAreNat DEF Alike
  <2>7. Global(d)'
    BY <2>2, <2>3, <2>4, <2>6, GlobalStays DEF Replacing
  <2>8. Local(d)'
    BY <2>2, <2>3, <2>4, <2>5 DEF Local, OnlyPost, PostIds, Clean
  <2>9. QED
    BY <2>1, <2>2, <2>7, <2>8, WentTask, TaskSteps
<1>4. CASE ScheduleSave(t)
  <2>1. /\ c.kind = "schedule" /\ c.pc = "save" /\ info' = c.bri
        /\ race' = SaveRace([c.br EXCEPT !.state = "Scheduled"]) /\ made' = 0
        /\ signup' = signup /\ post' = post /\ reported' = reported
        /\ scan' = scan /\ room' = room /\ failures' = failures /\ restarts' = restarts
        /\ Goto(t, "clear", c.bri)
    BY <1>4 DEF ScheduleSave, At, posts, rooms, bounds
  <2>2. room.pc = "idle" /\ Global(c) /\ Local(c)
    BY <2>1, TaskAtWork DEF OnlyTask
  <2>3. d.kind = "schedule" /\ d.pc = "clear" /\ d.bri = c.bri
    BY <2>1, WentTask
  <2>4. race'.result = race.result
    BY <1>0, <2>1, <2>2 DEF Local, SaveRace, Race
  <2>5. failures \in Nat /\ restarts \in Nat
    BY CountersAreNat
  <2>6. made' <= 1 + failures' + restarts' /\ made' <= failures' + restarts'
    BY <2>1, <2>5
  <2>7. Clean' => signup' = None /\ OnlyPost(c.bri)'
    BY <2>1, <2>2 DEF Clean, Local, OnlyPost, PostIds
  <2>8. Global(d)'
    BY <2>1, <2>2, <2>3, <2>4, <2>6, <2>7 DEF Global, Replacing, Clean
  <2>9. Local(d)'
    BY <2>1, <2>3, <2>7 DEF Local, SameEvent, OnlyPost
  <2>10. QED
    BY <2>1, <2>8, <2>9, WentTask, TaskSteps
<1>5. CASE ScheduleClear(t)
  <2>1. PICK okComm \in BOOLEAN, okTentative \in BOOLEAN :
           /\ Count(okComm /\ okTentative)
           /\ post' = IF okComm THEN Deleted(c.bri) ELSE post
           /\ Goto(t, "post", IF okTentative THEN Clear(ClearComm(c.bri, okComm), "tentative")
                             ELSE ClearComm(c.bri, okComm))
    BY <1>5 DEF ScheduleClear
  <2>2. /\ c.kind = "schedule" /\ c.pc = "clear" /\ info' = info /\ race' = race
        /\ signup' = signup /\ reported' = reported /\ made' = made
        /\ scan' = scan /\ room' = room /\ restarts' = restarts
    BY <1>5, <2>1 DEF ScheduleClear, At, rows, rooms, Count
  <2>3. room.pc = "idle" /\ Global(c) /\ Local(c)
    BY <2>2, TaskAtWork DEF OnlyTask
  <2>4. /\ d.kind = "schedule" /\ d.pc = "post"
        /\ d.bri \in {Clear(ClearComm(c.bri, okComm), "tentative"), ClearComm(c.bri, okComm)}
    BY <2>1, <2>2, WentTask
  <2>5. /\ d.bri.scheduled = c.bri.scheduled
        /\ "url" \in d.bri.filled <=> "url" \in c.bri.filled
        /\ okComm => d.bri.comm = 0
    <3> DEFINE b == ClearComm(c.bri, okComm)
    <3>1. /\ b \in Info /\ b.scheduled = c.bri.scheduled
          /\ b.filled = c.bri.filled /\ (okComm => b.comm = 0)
      BY <1>0, ClearedInfo
    <3>2. d.bri \in {Clear(b, "tentative"), b}
      BY <2>4
    <3> HIDE DEF b
    <3>3. "tentative" \in Columns \ {"url"}
      BY DEF Columns
    <3>4. Alike(Clear(b, "tentative"), b)
      BY <3>1, <3>3, AlikeInfos
    <3>5. d.bri = b \/ Alike(d.bri, b)
      BY <3>2, <3>4
    <3>6. QED
      BY <3>1, <3>5 DEF Alike
  <2>6. SameEvent(d.bri)'
    BY <2>2, <2>3, <2>5 DEF Local, SameEvent
  <2>7. CASE okComm /\ okTentative
    <3>1. failures' = failures /\ failures \in Nat /\ post' = Deleted(c.bri)
      BY <2>1, <2>7, CountersAreNat DEF Count
    <3>2. Global(d)'
      BY <2>2, <2>3, <2>4, <3>1, MoreRoom DEF Global, Replacing, Clean
    <3>3. Clean' => OnlyPost(d.bri)'
      BY <2>2, <2>3, <3>1, DeletedPost DEF Clean, Local, OnlyPost, PostIds
    <3>4. Local(d)'
      BY <2>4, <2>5, <2>6, <2>7, <3>3 DEF Local
    <3>5. QED
      BY <2>1, <2>2, <3>2, <3>4, WentTask, TaskSteps
  <2>8. CASE ~(okComm /\ okTentative)
    <3>1. failures' = failures + 1
      BY <2>1, <2>8 DEF Count
    <3>2. Global(d)' /\ ~Clean'
      BY <2>2, <2>3, <3>1, GlobalFails
    <3>3. Local(d)'
      BY <2>4, <2>6, <3>2 DEF Local
    <3>4. QED
      BY <2>1, <2>2, <3>2, <3>3, WentTask, TaskSteps
  <2>9. QED
    BY <2>7, <2>8
<1>6. CASE SchedulePost(t)
  <2> DEFINE m == CHOOSE k \in PostIds : post[k].state = "unsent"
             made1 == [post EXCEPT ![m] = [state |-> "shown", time |-> c.bri.scheduled]]
  <2>1. /\ c.kind = "schedule" /\ c.pc = "post" /\ info' = info /\ race' = race
        /\ signup' = signup /\ reported' = reported /\ made' = made
        /\ scan' = scan /\ room' = room /\ restarts' = restarts
    BY <1>6 DEF SchedulePost, At, rows, rooms, Count
  <2>2. \/ post' = made1 /\ Goto(t, "update", [c.bri EXCEPT !.comm = m]) /\ Count(TRUE)
        \/ Goto(t, "update", c.bri) /\ Count(FALSE)
    BY <1>6 DEF SchedulePost
  <2>3. m \in PostIds
    <3>1. t \in Posting
      BY <2>1 DEF Posting
    <3>2. QED
      BY <3>1, PostIsLeft DEF PostInv
  <2>4. /\ made1[m].time = c.bri.scheduled
        /\ \A k \in PostIds : made1[k].state = "shown" => k = m \/ post[k].state = "shown"
        /\ [c.bri EXCEPT !.comm = m].comm = m
        /\ [c.bri EXCEPT !.comm = m].scheduled = c.bri.scheduled
        /\ [c.bri EXCEPT !.comm = m].filled = c.bri.filled
    BY <1>0, <2>3 DEF TypeOK, Info
  <2> HIDE DEF m, made1
  <2>5. room.pc = "idle" /\ Global(c) /\ Local(c)
    BY <2>1, TaskAtWork DEF OnlyTask
  <2>6. CASE post' = made1 /\ Goto(t, "update", [c.bri EXCEPT !.comm = m]) /\ Count(TRUE)
    <3>1. d.kind = "schedule" /\ d.pc = "update" /\ d.bri = [c.bri EXCEPT !.comm = m]
      BY <2>1, <2>6, WentTask
    <3>2. failures' = failures /\ failures \in Nat
      BY <2>6, CountersAreNat DEF Count
    <3>3. Global(d)'
      BY <2>1, <2>5, <3>1, <3>2, MoreRoom DEF Global, Replacing, Clean
    <3>4. Clean' => \A k \in PostIds : post[k].state # "shown"
      <4>1. Clean' => OnlyPost(c.bri) /\ c.bri.comm = 0
        BY <2>1, <2>5, <3>2 DEF Clean, Local
      <4>2. 0 \notin PostIds
        BY DEF PostIds
      <4>3. QED
        BY <4>1, <4>2 DEF OnlyPost
    <3>5. Clean' => Advertised(d.bri)'
      BY <2>3, <2>4, <2>6, <3>1, <3>4 DEF Advertised, OnlyPost, PostIds
    <3>6. Local(d)'
      BY <2>1, <2>4, <2>5, <3>1, <3>5 DEF Local, SameEvent
    <3>7. QED
      BY <2>1, <2>6, <3>3, <3>6, WentTask, TaskSteps
  <2>7. CASE Goto(t, "update", c.bri) /\ Count(FALSE)
    <3>1. d.kind = "schedule" /\ d.pc = "update" /\ d.bri = c.bri /\ failures' = failures + 1
      BY <2>1, <2>7, WentTask DEF Count
    <3>2. Global(d)' /\ ~Clean'
      BY <2>1, <2>5, <3>1, GlobalFails
    <3>3. Local(d)'
      BY <2>1, <2>5, <3>1, <3>2 DEF Local, SameEvent
    <3>4. QED
      BY <2>1, <2>7, <3>2, <3>3, WentTask, TaskSteps
  <2>8. QED
    BY <2>2, <2>6, <2>7
<1>7. QED
  BY <1>1, <1>2, <1>3, <1>4, <1>5, <1>6 DEF Schedule

LEMMA ReportAlone ==
    ASSUME MaxBusy = 1, TypeOK, OneAtATime, NEW t \in Tasks, Report(t)
    PROVE  OneAtATime'
<1>0. /\ race \in Race /\ info \in Info /\ task[t] \in Task
      /\ task[t].br \in Race /\ task[t].bri \in Info
  BY TaskFields DEF TypeOK
<1> PICK c : c = task[t]
  OBVIOUS
<1> PICK d : d = task'[t]
  OBVIOUS
<1>1. CASE ReportRead(t)
  <2>1. PICK kind \in {"report", "rereport"} : Begin(t, kind, "info", race, NoInfo)
    BY <1>1 DEF ReportRead
  <2>2. /\ race' = race /\ info' = info /\ signup' = signup /\ post' = post
        /\ reported' = reported /\ made' = made /\ scan' = scan /\ room' = room
    BY <1>1 DEF ReportRead, rows, posts, rooms
  <2>3. d.kind \in {"report", "rereport"} /\ d.pc = "info"
    BY <2>1, BegunTask
  <2>4. Local(d)' /\ Alike(info', info)
    BY <2>2, <2>3 DEF Local, Alike
  <2>5. QED
    BY <2>1, <2>2, <2>4, TaskBegins
<1>2. CASE ReportInfo(t)
  <2>1. /\ c.kind \in {"report", "rereport"} /\ c.pc = "info" /\ info' = GetOrCreate
        /\ race' = race /\ signup' = signup /\ post' = post
        /\ reported' = reported /\ made' = made /\ scan' = scan /\ room' = room
        /\ failures' = failures /\ restarts' = restarts
    BY <1>2 DEF ReportInfo, At, posts, rooms, bounds
  <2>2. Goto(t, "finish", GetOrCreate) \/ Done(t)
    BY <1>2 DEF ReportInfo
  <2>3. room.pc = "idle" /\ Global(c)
    BY <2>1, TaskAtWork DEF OnlyTask
  <2>4. /\ \/ d = IdleTask
           \/ d.kind \in {"report", "rereport"} /\ d.pc = "finish"
        /\ \A u \in Tasks : u # t => task'[u] = task[u]
    BY <2>1, <2>2, WentTask, DoneTask
  <2>5. Local(d)'
    BY <2>4, IdleIsFine DEF Local
  <2>6. Alike(info', info) /\ failures \in Nat
    BY <1>0, <2>1, AlikeInfos, CountersAreNat DEF GetOrCreate
  <2>7. Global(d)'
    BY <2>1, <2>3, <2>6, GlobalStays DEF Replacing
  <2>8. QED
    BY <2>1, <2>4, <2>5, <2>7, TaskSteps
<1>3. CASE Finish(t)
  <2>1. PICK r \in Results :
          /\ race' = SaveRace(AddResults(c.br, r))
          /\ task' = [task EXCEPT ![t] = [c EXCEPT !.pc = "announce", !.br = AddResults(c.br, r)]]
    BY <1>3 DEF Finish
  <2>2. /\ c.pc = "finish" /\ info' = info /\ signup' = signup /\ post' = post
        /\ reported' = reported /\ made' = made /\ scan' = scan /\ room' = room
        /\ failures' = failures /\ restarts' = restarts
    BY <1>3 DEF Finish, posts, rooms, bounds
  <2>3. room.pc = "idle" /\ Global(c)
    BY <2>2, TaskAtWork DEF OnlyTask
  <2>4. AddResults(c.br, r).result = r /\ race'.result = r
    <3>1. r # None
      BY DataAssumption DEF DataAssumption
    <3>2. AddResults(c.br, r).result = r
      BY <1>0 DEF AddResults, Race
    <3>3. QED
      BY <2>1, <3>1, <3>2 DEF SaveRace
  <2>5. /\ d = [c EXCEPT !.pc = "announce", !.br = AddResults(c.br, r)]
        /\ \A u \in Tasks : u # t => task'[u] = task[u]
    BY <2>1 DEF TypeOK
  <2>6. d.pc = "announce" /\ d.br.result = r
    BY <1>0, <2>4, <2>5 DEF Task
  <2>7. Local(d)'
    BY <2>4, <2>6 DEF Local
  <2>8. Alike(info', info) /\ failures \in Nat
    BY <2>2, CountersAreNat DEF Alike
  <2>9. Global(d)'
    BY <2>2, <2>3, <2>6, <2>8, GlobalStays DEF Replacing
  <2>10. QED
    BY <2>2, <2>5, <2>7, <2>9, TaskSteps
<1>4. CASE Announce(t)
  <2>1. PICK okResult \in BOOLEAN, okComm \in BOOLEAN :
          /\ Count(okResult /\ okComm)
          /\ reported' = IF okResult THEN c.br.result ELSE reported
          /\ post' = IF okComm THEN Deleted(c.bri) ELSE post
    BY <1>4 DEF Announce, Announced
  <2>2. /\ c.pc = "announce" /\ info' = info /\ race' = race /\ signup' = signup
        /\ made' = made /\ scan' = scan /\ room' = room /\ restarts' = restarts /\ Done(t)
    BY <1>4, <2>1 DEF Announce, rows, rooms, Count
  <2>3. room.pc = "idle" /\ Global(c) /\ Local(c)
    BY <2>2, TaskAtWork DEF OnlyTask
  <2>4. CASE okResult /\ okComm
    <3>1. failures' = failures /\ reported' = race.result /\ post' = Deleted(c.bri)
      BY <2>1, <2>2, <2>3, <2>4 DEF Count, Local
    <3>2. Clean' => Advertised(info)'
      BY <1>0, <2>2, <2>3, <3>1, DeletedStays DEF Clean, Global, Replacing, Advertised, OnlyPost
    <3>3. Global(IdleTask)'
      BY <2>2, <2>3, <3>1, <3>2 DEF Global, Clean
    <3>4. QED
      BY <2>2, <3>3, DoneTask, TaskSteps, IdleIsFine
  <2>5. CASE ~(okResult /\ okComm)
    <3>1. failures' = failures + 1
      BY <2>1, <2>5 DEF Count
    <3>2. Global(IdleTask)'
      BY <2>2, <2>3, <3>1, GlobalFails
    <3>3. QED
      BY <2>2, <3>2, DoneTask, TaskSteps, IdleIsFine
  <2>6. QED
    BY <2>4, <2>5
<1>5. QED
  BY <1>1, <1>2, <1>3, <1>4 DEF Report

LEMMA CommentateAlone ==
    ASSUME MaxBusy = 1, TypeOK, PostInv, OneAtATime, NEW t \in Tasks, Commentate(t)
    PROVE  OneAtATime'
<1>0. info \in Info /\ task[t].bri \in Info
  BY TaskFields DEF TypeOK
<1> PICK c : c = task[t]
  OBVIOUS
<1> PICK d : d = task'[t]
  OBVIOUS
<1>1. CASE Confirm(t) \/ Signup(t) \/ Restream(t) \/ SetRestream(t)
  <2>1. /\ race' = race /\ signup' = signup /\ post' = post /\ reported' = reported
        /\ made' = made /\ scan' = scan /\ room' = room
    BY <1>1 DEF Confirm, Signup, Restream, SetRestream, rows, posts, rooms
  <2>2. info' \in Info /\ Alike(info', info)
    <3>1. info' = info \/ info' = GetOrCreate
      BY <1>1 DEF Confirm, Signup, Restream, SetRestream, rows
    <3>2. QED
      BY <1>0, <3>1, AlikeInfos, InfoTypes DEF GetOrCreate, Alike
  <2>3. PICK kind \in {"confirm", "signup", "restream", "set_restream"},
             pc \in {"post", "signup", "update"},
             bri \in {info', Fill(info', "channel"), Clear(info', "channel")} :
           Begin(t, kind, pc, NoBr, bri)
    BY <1>1 DEF Confirm, Signup, Restream, SetRestream, rows
  <2>4. Alike(bri, info')
    BY <2>2, AlikeInfos DEF Alike, Columns
  <2>5. d.kind = kind /\ d.pc = pc /\ d.bri = bri
    BY <2>3, BegunTask
  <2>6. Global(IdleTask) /\ failures' = failures /\ restarts' = restarts
    BY <2>3, OneBegins, NothingAtWork DEF Begin
  <2>7. Clean' => Advertised(bri)'
    BY <2>1, <2>2, <2>4, <2>6, IdleIsFine
    DEF Clean, Global, Advertised, OnlyPost, Alike, PostIds
  <2>8. Local(d)'
    BY <2>4, <2>5, <2>7 DEF Local, SameEvent, Alike
  <2>9. QED
    BY <2>1, <2>2, <2>3, <2>8, TaskBegins
<1>2. CASE ConfirmPost(t) \/ RestreamPost(t)
  <2>1. /\ c.kind \in {"confirm", "restream"} /\ c.pc = "post" /\ info' = info /\ race' = race
        /\ signup' = signup /\ post' = post /\ reported' = reported
        /\ made' = made /\ scan' = scan /\ room' = room
    BY <1>2 DEF ConfirmPost, RestreamPost, At, rows, posts, rooms
  <2>2. PICK ok \in BOOLEAN, pc \in {"clear", "update"}, bri \in Info :
           Count(ok) /\ Goto(t, pc, bri) /\ Alike(bri, c.bri)
    <3>1. CASE ConfirmPost(t)
      <4> DEFINE with(okT) == IF okT THEN Fill(c.bri, "tentative") ELSE c.bri
      <4>1. PICK okT \in BOOLEAN, okR \in BOOLEAN :
              /\ Count(okT /\ okR)
              /\ Goto(t, "clear", IF okR THEN Fill(with(okT), "request") ELSE with(okT))
        BY <3>1 DEF ConfirmPost
      <4>2. with(okT) \in Info /\ Alike(with(okT), c.bri)
        <5>1. Fill(c.bri, "tentative") \in Info /\ Alike(Fill(c.bri, "tentative"), c.bri)
          BY <1>0, InfoTypes, AlikeInfos DEF Columns
        <5>2. QED
          BY <1>0, <5>1 DEF Alike
      <4> HIDE DEF with
      <4>3. /\ Fill(with(okT), "request") \in Info
            /\ Alike(Fill(with(okT), "request"), with(okT))
        BY <4>2, InfoTypes, AlikeInfos DEF Columns
      <4>4. QED
        BY <4>1, <4>2, <4>3 DEF Alike
    <3>2. CASE RestreamPost(t)
      <4>1. /\ Clear(c.bri, "tentative") \in Info
            /\ Alike(Clear(c.bri, "tentative"), c.bri) /\ Alike(c.bri, c.bri)
        BY <1>0, InfoTypes, AlikeInfos DEF Columns, Alike
      <4>2. QED
        BY <1>0, <3>2, <4>1 DEF RestreamPost
    <3>3. QED
      BY <1>2, <3>1, <3>2
  <2>3. room.pc = "idle" /\ Global(c) /\ Local(c)
    BY <2>1, TaskAtWork DEF OnlyTask
  <2>4. d.kind = c.kind /\ d.pc = pc /\ d.bri = bri
    BY <2>2, WentTask
  <2>5. restarts' = restarts /\ failures \in Nat /\ failures' \in Nat /\ failures <= failures'
    BY <2>2, CountersAreNat DEF Count
  <2>6. Clean' => Clean
    BY <2>5 DEF Clean
  <2>7. Global(d)'
    BY <2>1, <2>3, <2>4, <2>5, GlobalStays DEF Replacing, Alike
  <2>8. Clean' => Advertised(bri)'
    BY <2>1, <2>2, <2>3, <2>6 DEF Local, Advertised, OnlyPost, Alike, PostIds
  <2>9. Local(d)'
    BY <2>1, <2>2, <2>3, <2>4, <2>8 DEF Local, SameEvent, Alike
  <2>10. QED
    BY <2>1, <2>2, <2>7, <2>9, WentTask, TaskSteps
<1>3. CASE ConfirmClear(t)
  <2>1. PICK ok \in BOOLEAN :
           /\ Count(ok)
           /\ post' = IF ok THEN Deleted(c.bri) ELSE post
           /\ Goto(t, "update", ClearComm(c.bri, ok))
    BY <1>3 DEF ConfirmClear
  <2>2. /\ c.kind = "confirm" /\ c.pc = "clear" /\ info' = info /\ race' = race
        /\ signup' = signup /\ reported' = reported /\ made' = made
        /\ scan' = scan /\ room' = room /\ restarts' = restarts
    BY <1>3, <2>1 DEF ConfirmClear, At, rows, rooms, Count
  <2>3. room.pc = "idle" /\ Global(c) /\ Local(c)
    BY <2>2, TaskAtWork DEF OnlyTask
  <2>4. d.kind = c.kind /\ d.pc = "update" /\ d.bri = ClearComm(c.bri, ok)
    BY <2>1, WentTask
  <2>5. SameEvent(d.bri)'
    BY <1>0, <2>2, <2>3, <2>4, ClearedInfo DEF Local, SameEvent
  <2>6. CASE ok
    <3>1. failures' = failures /\ post' = Deleted(c.bri) /\ d.bri.comm = 0
      BY <1>0, <2>1, <2>4, <2>6, ClearedInfo DEF Count
    <3>2. Clean' => Advertised(info)'
      BY <1>0, <2>2, <2>3, <3>1, DeletedStays DEF Clean, Global, Replacing, Advertised, OnlyPost
    <3>3. Global(d)'
      BY <2>2, <2>3, <2>4, <3>1, <3>2 DEF Global, Clean, Replacing
    <3>4. Clean' => Advertised(d.bri)'
      BY <2>2, <2>3, <3>1, DeletedPost DEF Clean, Local, Advertised, OnlyPost, PostIds
    <3>5. Local(d)'
      BY <2>4, <2>5, <3>4 DEF Local
    <3>6. QED
      BY <2>1, <2>2, <3>3, <3>5, WentTask, TaskSteps
  <2>7. CASE ~ok
    <3>1. failures' = failures + 1
      BY <2>1, <2>7 DEF Count
    <3>2. Global(d)' /\ ~Clean'
      BY <2>2, <2>3, <3>1, GlobalFails
    <3>3. Local(d)'
      BY <2>4, <2>5, <3>2 DEF Local
    <3>4. QED
      BY <2>1, <2>2, <3>2, <3>3, WentTask, TaskSteps
  <2>8. QED
    BY <2>6, <2>7
<1>4. CASE SignupInsert(t)
  <2>1. /\ c.pc = "signup" /\ info' = info /\ race' = race
        /\ signup' = IF signup = None THEN post[c.bri.comm].time ELSE signup
        /\ post' = post /\ reported' = reported /\ made' = made
        /\ scan' = scan /\ room' = room /\ failures' = failures /\ restarts' = restarts
        /\ Done(t)
    BY <1>4 DEF SignupInsert, posts, rooms, bounds
  <2>2. room.pc = "idle" /\ Global(c) /\ Local(c)
    BY <2>1, TaskAtWork DEF OnlyTask
  <2>3. c.bri.comm # 0
    BY <2>1 DEF PostInv, SignupsArePosted, PostIds
  <2>4. Clean => post[c.bri.comm].time = info.scheduled
    BY <2>1, <2>2, <2>3 DEF Local, Advertised, SameEvent
  <2>5. Global(IdleTask)'
    BY <2>1, <2>2, <2>4, IdleIsFine
    DEF Global, Clean, Replacing, Advertised, OnlyPost, PostIds
  <2>6. QED
    BY <2>1, <2>5, DoneTask, TaskSteps, IdleIsFine
<1>5. QED
  BY <1>1, <1>2, <1>3, <1>4 DEF Commentate

-----------------------------------------------------------------------------
(* The scanner and the rooms, one at a time.                               *)

LEMMA ScanAtWork == ASSUME OneAtATime, scan.pc # "idle" PROVE OnlyScan
BY DEF OneAtATime, OnlyRoom, OnlyTask

\* What the scanner does at another place than the two below.
LEMMA ScanGoesOn ==
    ASSUME TypeOK, NEW s, s = scan', NEW p, p = scan'.pc, Busy = {}, room.pc = "idle",
           NEW c, ~Replacing(c), c.pc = "announce" => p = "announce", Global(c),
           p # "announce" => race'.result = race.result, p = "announce" => s.result = race'.result,
           Alike(info', info), post' = post, reported' = reported, made' = made,
           signup' = signup, task' = task, room' = room, restarts' = restarts,
           failures' \in Nat, failures <= failures',
           p # "idle" => s.bri.scheduled = info.scheduled /\ s.bri.comm = info.comm
    PROVE  OneAtATime'
<1> PICK d : d = [IdleTask EXCEPT !.pc = p]
  OBVIOUS
<1>1. d.pc = p
  BY DEF IdleTask
<1>2. Global(d)'
  BY <1>1, GlobalStays
<1>3. OnlyScan'
  BY <1>1, <1>2 DEF OnlyScan, Busy, Alike
<1>4. QED
  BY <1>3 DEF OneAtATime

LEMMA ScanAlone ==
    ASSUME MaxBusy = 1, TypeOK, ScanHasResult, OneAtATime, Scan \/ ScanFails
    PROVE  OneAtATime'
<1>0. /\ race \in Race /\ info \in Info /\ scan \in Scanner /\ scan.br \in Race
      /\ scan.bri \in Info
  BY DEF TypeOK, Scanner
<1> PICK c : c = [IdleTask EXCEPT !.pc = scan.pc]
  OBVIOUS
<1> PICK s : s = scan'
  OBVIOUS
<1>1. c.pc = scan.pc /\ ~Replacing(c)
  BY DEF IdleTask, Replacing, None
<1>2. CASE ScanLoad
  <2>1. Quiet /\ Global(IdleTask)
    BY <1>2, OneBegins, NothingAtWork DEF ScanLoad
  <2>2. /\ race' = race /\ info' = info /\ signup' = signup /\ post' = post
        /\ reported' = reported /\ made' = made /\ task' = task /\ room' = room
        /\ failures' = failures /\ restarts' = restarts
    BY <1>2 DEF ScanLoad, rows, posts, rooms, bounds
  <2>3. s.pc = "query" /\ s.bri = info
    BY <1>2 DEF ScanLoad, IdleScan
  <2>4. Alike(info', info) /\ failures \in Nat
    BY <2>2, CountersAreNat DEF Alike
  <2>5. QED
    BY <2>1, <2>2, <2>3, <2>4, ScanGoesOn, IdleIsFine DEF Quiet
<1>3. CASE ScanQuery \/ ScanNext \/ ScanFails
  <2>1. /\ race' = race /\ info' = info /\ signup' = signup /\ post' = post
        /\ reported' = reported /\ made' = made /\ task' = task /\ room' = room
        /\ restarts' = restarts /\ failures' \in {failures, failures + 1}
    BY <1>3 DEF ScanQuery, ScanNext, ScanFails, rows, posts, rooms, bounds, Count
  <2>2. scan.pc \in {"query", "next", "update", "finish"}
    BY <1>3 DEF ScanQuery, ScanNext, ScanFails
  <2>3. \/ s = IdleScan
        \/ s.pc \in {"next", "update"} /\ s.bri = scan.bri
    BY <1>0, <1>3 DEF ScanQuery, ScanNext, ScanFails, Scanner
  <2>4. s.pc # "announce" /\ (s.pc # "idle" => s.bri = scan.bri)
    BY <2>3 DEF IdleScan
  <2>5. /\ Busy = {} /\ room.pc = "idle" /\ Global(c)
        /\ scan.bri.scheduled = info.scheduled /\ scan.bri.comm = info.comm
    BY <2>2, ScanAtWork DEF OnlyScan
  <2>6. Alike(info', info) /\ failures' \in Nat /\ failures <= failures'
    BY <2>1, CountersAreNat DEF Alike
  <2>7. QED
    BY <1>1, <2>1, <2>2, <2>4, <2>5, <2>6, ScanGoesOn
<1>4. CASE ScanUpdate
  <2>1. /\ scan.pc = "update" /\ race' = race /\ signup' = signup /\ post' = post
        /\ reported' = reported /\ made' = made /\ task' = task /\ room' = room
        /\ restarts' = restarts
    BY <1>4 DEF ScanUpdate, posts, rooms, Count
  <2>2. /\ Busy = {} /\ room.pc = "idle" /\ Global(c)
        /\ scan.bri.scheduled = info.scheduled /\ scan.bri.comm = info.comm
    BY <2>1, ScanAtWork DEF OnlyScan
  <2>3. s.pc = "finish" /\ s.bri = scan.bri
    BY <1>0, <1>4 DEF ScanUpdate, Scanner
  <2>4. CASE info' = info /\ failures' = failures + 1
    <3>1. failures' \in Nat /\ failures <= failures' /\ Alike(info', info)
      BY <2>1, <2>4, CountersAreNat DEF Alike
    <3>2. QED
      BY <1>1, <2>1, <2>2, <2>3, <2>4, <3>1, ScanGoesOn
  <2>5. CASE info' = Fill(scan.bri, "url") /\ failures' = failures
    <3>1. /\ info'.scheduled = info.scheduled /\ info'.comm = info.comm
          /\ "url" \in info'.filled
      BY <1>0, <2>2, <2>5 DEF Fill, Info
    <3> PICK d : d = [IdleTask EXCEPT !.pc = scan'.pc]
      OBVIOUS
    <3>2. d.pc = "finish" /\ ~Replacing(d)
      BY <2>3 DEF IdleTask, Replacing
    <3>3. Clean' => Advertised(info)'
      BY <1>1, <2>1, <2>2, <2>5, <3>1
      DEF Clean, Global, Advertised, OnlyPost, PostIds
    <3>4. Global(d)'
      BY <1>1, <2>1, <2>2, <2>5, <3>1, <3>2, <3>3 DEF Global, Clean
    <3>5. OnlyScan'
      BY <2>1, <2>2, <2>3, <3>1, <3>4 DEF OnlyScan, Busy
    <3>6. QED
      BY <3>5 DEF OneAtATime
  <2>6. QED
    BY <1>4, <2>4, <2>5 DEF ScanUpdate, Count
<1>5. CASE ScanFinish
  <2>1. /\ scan.pc = "finish" /\ info' = info /\ signup' = signup /\ post' = post
        /\ reported' = reported /\ made' = made /\ task' = task /\ room' = room
        /\ failures' = failures /\ restarts' = restarts
    BY <1>5 DEF ScanFinish, posts, rooms, bounds
  <2>2. /\ Busy = {} /\ room.pc = "idle" /\ Global(c)
        /\ scan.bri.scheduled = info.scheduled /\ scan.bri.comm = info.comm
    BY <2>1, ScanAtWork DEF OnlyScan
  <2>3. Alike(info', info) /\ failures \in Nat
    BY <2>1, CountersAreNat DEF Alike
  <2>4. CASE /\ race' = SaveRace(AddResults(scan.br, scan.result))
             /\ scan' = [scan EXCEPT !.pc = "announce"]
    <3>1. scan.result \in Results /\ scan.result # None
      BY <2>1, DataAssumption DEF ScanHasResult, DataAssumption
    <3>2. AddResults(scan.br, scan.result).result = scan.result
      BY <1>0 DEF AddResults, Race
    <3>3. race'.result = scan.result
      BY <2>4, <3>1, <3>2 DEF SaveRace
    <3>4. s.pc = "announce" /\ s.result = scan.result /\ s.bri = scan.bri
      BY <1>0, <2>4 DEF Scanner
    <3>5. QED
      BY <1>1, <2>1, <2>2, <2>3, <3>3, <3>4, ScanGoesOn
  <2>5. CASE scan' = [scan EXCEPT !.pc = "next", !.result = None] /\ race' = race
    <3>1. s.pc = "next" /\ s.bri = scan.bri /\ race' = race
      BY <1>0, <2>5 DEF Scanner
    <3>2. failures' \in Nat /\ failures <= failures' /\ s.pc # "announce"
      BY <2>1, <2>3, <3>1
    <3>3. QED
      BY <1>1, <2>1, <2>2, <2>3, <3>1, <3>2, ScanGoesOn
  <2>6. QED
    BY <1>5, <2>4, <2>5 DEF ScanFinish
<1>6. CASE ScanAnnounce
  <2>1. PICK okResult \in BOOLEAN, okComm \in BOOLEAN :
          /\ Count(okResult /\ okComm)
          /\ reported' = IF okResult THEN scan.result ELSE reported
          /\ post' = IF okComm THEN Deleted(scan.bri) ELSE post
    BY <1>6 DEF ScanAnnounce, Announced
  <2>2. /\ scan.pc = "announce" /\ info' = info /\ race' = race /\ signup' = signup
        /\ made' = made /\ task' = task /\ room' = room /\ restarts' = restarts
        /\ scan' = [scan EXCEPT !.pc = "next", !.result = None]
    BY <1>6, <2>1 DEF ScanAnnounce, rows, rooms, Count
  <2>3. /\ Busy = {} /\ room.pc = "idle" /\ Global(c) /\ scan.result = race.result
        /\ scan.bri.scheduled = info.scheduled /\ scan.bri.comm = info.comm
    BY <2>2, ScanAtWork DEF OnlyScan
  <2>4. s.pc = "next" /\ s.bri = scan.bri
    BY <1>0, <2>2 DEF Scanner
  <2> PICK d : d = [IdleTask EXCEPT !.pc = scan'.pc]
    OBVIOUS
  <2>5. Global(d)'
    <3>1. CASE okResult /\ okComm
      <4>1. failures' = failures /\ reported' = race.result /\ post' = Deleted(scan.bri)
        BY <2>1, <2>3, <3>1 DEF Count
      <4>2. Clean' => Advertised(info)'
        BY <1>0, <1>1, <2>2, <2>3, <4>1, DeletedStays
        DEF Clean, Global, Advertised, OnlyPost
      <4>3. QED
        BY <2>2, <2>3, <4>1, <4>2 DEF Global, Clean
    <3>2. CASE ~(okResult /\ okComm)
      <4>1. failures' = failures + 1
        BY <2>1, <3>2 DEF Count
      <4>2. QED
        BY <2>2, <2>3, <4>1, GlobalFails
    <3>3. QED
      BY <3>1, <3>2
  <2>6. OnlyScan'
    BY <2>2, <2>3, <2>4, <2>5 DEF OnlyScan, Busy
  <2>7. QED
    BY <2>6 DEF OneAtATime
<1>7. QED
  BY <1>2, <1>3, <1>4, <1>5, <1>6 DEF Scan

\* Steps that change nothing the invariant is about.
LEMMA NothingHappens ==
    ASSUME OneAtATime, race' = race, info' = info, signup' = signup, post' = post,
           reported' = reported, made' = made, task' = task, scan' = scan, room' = room,
           failures' = failures, restarts' = restarts
    PROVE  OneAtATime'
<1>1. \A c : Global(c) => Global(c)'
  BY DEF Global, Replacing, Clean, Advertised, OnlyPost, PostIds
<1>2. \A c : Local(c) => Local(c)'
  BY DEF Local, Clean, SameEvent, Advertised, OnlyPost, PostIds
<1>3. OnlyScan => OnlyScan'
  BY <1>1 DEF OnlyScan, Busy
<1>4. OnlyRoom => OnlyRoom'
  BY <1>1 DEF OnlyRoom, Busy
<1>5. ASSUME NEW t \in Tasks, OnlyTask(t) PROVE OnlyTask(t)'
  <2> PICK c : c = task[t]
    OBVIOUS
  <2>1. Global(c)' /\ Local(c)'
    BY <1>1, <1>2, <1>5 DEF OnlyTask
  <2>2. Global(task[t])' /\ Local(task[t])'
    BY <2>1 DEF Global, Local, Replacing
  <2>3. QED
    BY <1>5, <2>2 DEF OnlyTask
<1>6. QED
  BY <1>3, <1>4, <1>5 DEF OneAtATime

LEMMA RoomsAlone ==
    ASSUME MaxBusy = 1, TypeOK, OneAtATime, Rooms
    PROVE  OneAtATime'
<1>0. /\ info \in Info /\ room.bri \in Info
      /\ failures \in Nat /\ restarts \in Nat /\ made \in Nat
  BY CountersAreNat DEF TypeOK
<1>1. CASE Upcoming \/ start_race_for
  BY <1>1, NothingHappens DEF Upcoming, start_race_for, rows, posts, bounds
<1>2. /\ RoomTake \/ RoomCreate \/ RoomSave
         => /\ race' = race /\ signup' = signup /\ post' = post /\ reported' = reported
            /\ task' = task /\ scan' = scan
  BY DEF RoomTake, RoomCreate, RoomSave, rows, posts
<1>3. room.pc # "idle" => OnlyRoom
  BY DEF OneAtATime, OnlyScan, OnlyTask
<1>4. CASE RoomTake
  <2>1. Quiet /\ Global(IdleTask)
    BY <1>4, OneBegins, NothingAtWork DEF RoomTake
  <2>2. /\ info' = info /\ made' = made /\ failures' = failures /\ restarts' = restarts
        /\ \/ room' = IdleRoom
           \/ "url" \notin info.filled /\ room' = [pc |-> "create", bri |-> info]
    BY <1>4 DEF RoomTake, rows, bounds
  <2>3. Alike(info', info)
    BY <2>2 DEF Alike
  <2>4. Global(IdleTask)'
    BY <1>0, <1>2, <1>4, <2>1, <2>2, <2>3, GlobalStays DEF Quiet
  <2>5. OnlyRoom'
    BY <1>2, <1>4, <2>1, <2>2, <2>4 DEF OnlyRoom, Quiet, Busy, IdleRoom
  <2>6. QED
    BY <2>5 DEF OneAtATime
<1>5. CASE RoomCreate
  <2>1. /\ room.pc = "create" /\ info' = info /\ restarts' = restarts
        /\ \/ /\ made' = made + 1 /\ failures' = failures
              /\ room' = [pc |-> "save", bri |-> Fill(room.bri, "url")]
           \/ /\ made' \in {made, made + 1} /\ failures' = failures + 1
              /\ room' = IdleRoom
    BY <1>5 DEF RoomCreate, rows, Count
  <2>2. OnlyRoom /\ Global(IdleTask) /\ "url" \notin info.filled
    BY <1>3, <2>1 DEF OnlyRoom
  <2>3. made <= failures + restarts
    BY <2>1, <2>2 DEF Global
  <2>4. /\ made' <= 1 + failures' + restarts'
        /\ room'.pc # "save" => made' <= failures' + restarts'
    <3>1. CASE /\ made' = made + 1 /\ failures' = failures
               /\ room' = [pc |-> "save", bri |-> Fill(room.bri, "url")]
      BY <1>0, <2>1, <2>3, <3>1
    <3>2. CASE made' \in {made, made + 1} /\ failures' = failures + 1
      BY <1>0, <2>1, <2>3, <3>2
    <3>3. QED
      BY <2>1, <3>1, <3>2
  <2>5. Clean' => Clean
    BY <1>0, <2>1 DEF Clean
  <2>6. Global(IdleTask)'
    BY <1>2, <1>5, <2>1, <2>2, <2>4, <2>5, IdleIsFine
    DEF Global, Advertised, OnlyPost, PostIds
  <2>7. room'.pc # "idle" => /\ room'.bri.scheduled = info.scheduled
                             /\ room'.bri.comm = info.comm
                             /\ "url" \in room'.bri.filled
    BY <1>0, <2>1, <2>2 DEF OnlyRoom, Fill, Info, IdleRoom
  <2>8. OnlyRoom'
    BY <1>2, <1>5, <2>1, <2>2, <2>6, <2>7 DEF OnlyRoom, Busy
  <2>9. QED
    BY <2>8 DEF OneAtATime
<1>6. CASE RoomSave
  <2>1. /\ room.pc = "save" /\ made' = made /\ restarts' = restarts /\ room' = IdleRoom
        /\ \/ info' = room.bri /\ failures' = failures
           \/ info' = info /\ failures' = failures + 1
    BY <1>6 DEF RoomSave, Count
  <2>2. /\ OnlyRoom /\ Global(IdleTask) /\ "url" \in room.bri.filled
        /\ room.bri.scheduled = info.scheduled /\ room.bri.comm = info.comm
    BY <1>3, <2>1 DEF OnlyRoom
  <2>3. made <= 1 + failures + restarts
    BY <2>2 DEF Global
  <2>4. /\ made' <= 1 + failures' + restarts'
        /\ "url" \notin info'.filled => made' <= failures' + restarts'
    <3>1. CASE info' = room.bri /\ failures' = failures
      BY <2>1, <2>2, <2>3, <3>1
    <3>2. CASE info' = info /\ failures' = failures + 1
      BY <1>0, <2>1, <2>3, <3>2
    <3>3. QED
      BY <2>1, <3>1, <3>2
  <2>5. Clean' => Clean /\ info' = room.bri
    BY <1>0, <2>1 DEF Clean
  <2>6. Clean' => Advertised(info)'
    BY <1>2, <1>6, <2>2, <2>5, IdleIsFine DEF Global, Advertised, OnlyPost, PostIds
  <2>7. Global(IdleTask)'
    BY <1>2, <1>6, <2>2, <2>4, <2>5, <2>6, IdleIsFine DEF Global
  <2>8. OnlyRoom'
    BY <1>2, <1>6, <2>1, <2>2, <2>7 DEF OnlyRoom, Busy, IdleRoom
  <2>9. QED
    BY <2>8 DEF OneAtATime
<1>7. QED
  BY <1>1, <1>4, <1>5, <1>6 DEF Rooms

LEMMA OthersAlone ==
    ASSUME MaxBusy = 1, TypeOK, OneAtATime,
           RemoveReaction \/ Commentators \/ Restart \/ Racetime
    PROVE  OneAtATime'
<1>0. info \in Info /\ failures \in Nat /\ restarts \in Nat /\ made \in Nat
  BY CountersAreNat DEF TypeOK
<1>1. CASE Racetime
  BY <1>1, NothingHappens DEF Racetime, Play, OffThePage, rows, posts, rooms, bounds
<1>2. CASE RemoveReaction \/ Commentators
  <2>1. Quiet /\ Global(IdleTask)
    BY <1>2, OneBegins, NothingAtWork DEF RemoveReaction, Commentators
  <2>2. /\ race' = race /\ post' = post /\ reported' = reported /\ made' = made
        /\ task' = task /\ scan' = scan /\ room' = room
        /\ failures' = failures /\ restarts' = restarts
        /\ info' = info \/ info' = GetOrCreate
        /\ signup' \in {signup, None, "by_admin"}
    BY <1>2 DEF RemoveReaction, Commentators, posts, rooms
  <2>3. Alike(info', info)
    BY <1>0, <2>2, AlikeInfos DEF GetOrCreate, Alike
  <2>4. Global(IdleTask)'
    BY <1>0, <2>1, <2>2, <2>3, GlobalStays DEF Quiet
  <2>5. OnlyRoom'
    BY <2>1, <2>2, <2>4 DEF OnlyRoom, Quiet, Busy
  <2>6. QED
    BY <2>5 DEF OneAtATime
<1>3. CASE Restart
  <2>1. /\ race' = race /\ info' = info /\ made' = made /\ failures' = failures
        /\ restarts' = restarts + 1 /\ room' = IdleRoom /\ scan' = IdleScan
        /\ task' = [t \in Tasks |-> IdleTask]
    BY <1>3 DEF Restart, rows
  <2>2. made <= 1 + failures + restarts
    BY DEF OneAtATime, OnlyScan, OnlyRoom, OnlyTask, Global
  <2>3. made' <= 1 + failures' + restarts' /\ made' <= failures' + restarts' /\ ~Clean'
    BY <1>0, <2>1, <2>2 DEF Clean
  <2>4. Global(IdleTask)'
    BY <2>3 DEF Global
  <2>5. OnlyRoom'
    BY <2>1, <2>4 DEF OnlyRoom, Busy, IdleTask, IdleScan, IdleRoom
  <2>6. QED
    BY <2>5 DEF OneAtATime
<1>4. QED
  BY <1>1, <1>2, <1>3

LEMMA NextAlone ==
    ASSUME MaxBusy = 1, TypeOK, PostInv, ScanHasResult, OneAtATime, [Next]_vars
    PROVE  OneAtATime'
<1>1. CASE UNCHANGED vars
  BY <1>1, NothingHappens DEF vars, rows, posts, rooms, bounds
<1>2. ASSUME NEW t \in Tasks,
             Schedule(t) \/ Report(t) \/ Commentate(t) \/ UpdateInfo(t) \/ TaskFails(t)
      PROVE  OneAtATime'
  BY <1>2, ScheduleAlone, ReportAlone, CommentateAlone, TaskUpdates, TaskBreaks
<1>3. CASE Scan \/ ScanFails \/ Rooms
  BY <1>3, ScanAlone, RoomsAlone
<1>4. CASE RemoveReaction \/ Commentators \/ Restart \/ Racetime
  BY <1>4, OthersAlone
<1>5. QED
  BY <1>1, <1>2, <1>3, <1>4 DEF Next

LEMMA InitAlone == Init => OneAtATime
<1> SUFFICES ASSUME Init PROVE OneAtATime
  OBVIOUS
<1>1. Global(IdleTask)
  BY DEF Init, Global, Advertised, OnlyPost, NoInfo
<1>2. OnlyRoom
  BY <1>1 DEF Init, OnlyRoom, Busy, IdleTask, IdleScan, IdleRoom
<1>3. QED
  BY <1>2 DEF OneAtATime

\* While the bot handles one thing at a time, nothing it has read is stale when
\* it writes, and between two handlers the posts, the signup, the result posted
\* and the rooms agree with the rows.
THEOREM HandlersAlone == ASSUME MaxBusy = 1 PROVE Spec => []OneAtATime
<1>1. Spec => [](TypeOK /\ PostInv)
  BY InitTypes, InitPosts, NextTypes, PTL DEF Spec
<1>2. TypeOK /\ PostInv /\ ScanHasResult /\ OneAtATime /\ [Next]_vars => OneAtATime'
  BY NextAlone
<1>3. QED
  BY <1>1, <1>2, InitAlone, ScansHaveResults, PTL DEF Spec

\* A race gets one room per schedule, plus one for each time its url was lost.
THEOREM RoomsAreNotRepeated == ASSUME MaxBusy = 1 PROVE Spec => []OneRoom
<1>1. OneAtATime => OneRoom
  BY DEF OneAtATime, OnlyScan, OnlyRoom, OnlyTask, Global, OneRoom
<1>2. QED
  BY <1>1, HandlersAlone, PTL

\* The one post that asks for commentators is on record, with the right time.
THEOREM PostsAreRecorded == ASSUME MaxBusy = 1 PROVE Spec => []AnnouncedIsRecorded
<1>1. OneAtATime => AnnouncedIsRecorded
  BY NothingAtWork, IdleIsFine
  DEF AnnouncedIsRecorded, Undisturbed, Clean, Global, Advertised, OnlyPost, PostIds
<1>2. QED
  BY <1>1, HandlersAlone, PTL

\* Nobody stays signed up for a time the race was moved from.
THEOREM SignupsFollow == ASSUME MaxBusy = 1 PROVE Spec => []SignupIsForTheScheduledTime
<1>1. OneAtATime => SignupIsForTheScheduledTime
  BY NothingAtWork DEF SignupIsForTheScheduledTime, Undisturbed, Clean, Global
<1>2. QED
  BY <1>1, HandlersAlone, PTL

\* The result that was posted last is the one on record.
THEOREM PostedResultsAreRecorded == ASSUME MaxBusy = 1 PROVE Spec => []PostedIsRecorded
<1>1. OneAtATime => PostedIsRecorded
  BY NothingAtWork, IdleIsFine DEF PostedIsRecorded, Undisturbed, Clean, Global
<1>2. QED
  BY <1>1, HandlersAlone, PTL

-----------------------------------------------------------------------------
(* The contract.                                                           *)

\* Each step is one of the contract: a race that was read unfinished still is
\* when the command that schedules it saves it.
LEMMA NextContract ==
    ASSUME TypeOK, ScanHasResult, OneAtATime, [Next]_vars
    PROVE  [Contract!Next]_<<race.state, race.result>>
<1>0. race \in Race
  BY DEF TypeOK
<1>1. CASE race' = race
  BY <1>1
<1>2. ASSUME NEW t \in Tasks, ScheduleSave(t)
      PROVE  [Contract!Next]_<<race.state, race.result>>
  <2>1. /\ task[t].kind = "schedule" /\ task[t].pc = "save"
        /\ race' = SaveRace([task[t].br EXCEPT !.state = "Scheduled"])
    BY <1>2 DEF ScheduleSave, At
  <2>2. task[t].br = race /\ race.state # "Finished"
    BY <2>1, TaskAtWork DEF OnlyTask, Local
  <2>3. race'.state = "Scheduled" /\ race'.result = race.result
    BY <1>0, <2>1, <2>2 DEF SaveRace, Race
  <2>4. QED
    BY <2>2, <2>3 DEF Contract!Next, Contract!Schedule
<1>3. CASE \E br \in Race, r \in Results : race' = SaveRace(AddResults(br, r))
  <2>1. race'.state = "Finished" /\ race'.result \in Results
    BY <1>3, DataAssumption DEF DataAssumption, SaveRace, AddResults, Race
  <2>2. QED
    BY <2>1 DEF Contract!Next, Contract!Finish, Contract!Correct
<1>4. QED
  BY <1>1, <1>2, <1>3, RaceSteps

\* While the bot handles one thing at a time a race is scheduled, finished once
\* and corrected, and nothing else.
THEOREM RefinesContract == ASSUME MaxBusy = 1 PROVE Spec => ImplementsContract
<1>1. Init => Contract!Init
  BY DEF Init, Contract!Init, NoBr, None, Contract!None
<1>2. TypeOK /\ ScanHasResult /\ OneAtATime /\ [Next]_vars
         => [Contract!Next]_<<race.state, race.result>>
  BY NextContract
<1>3. QED
  BY <1>1, <1>2, HandlersAlone, ScansHaveResults, TypeCorrect, PTL
  DEF Spec, ImplementsContract, Contract!Spec

-----------------------------------------------------------------------------
(* Handlers that overlap.  What goes wrong then is always that a copy is   *)
(* written back over what another handler has written since.  Here it is   *)
(* said which overlaps do that, for each of the promises above; all others *)
(* are harmless, however many handlers run.                                *)

\* A schedule command that has read the race and is to save it.
Scheduling(c) == c.kind = "schedule" /\ c.pc \in {"info", "wipe", "save"}

\* Its copy has no result, and neither has a race that is not finished.
UnfinishedInv ==
    /\ OutcomeOnlyWhenFinished
    /\ \A t \in Tasks : Scheduling(task[t]) => task[t].br.result = None

\* The schedule command saves no race that was finished since it read it.
SavesUnfinished == \A t \in Tasks : ScheduleSave(t) => race.state # "Finished"

\* Only the tasks that take a step change, unless the bot dies.
LEMMA TaskOfStep ==
    ASSUME TypeOK, NEW t \in Tasks,
           Schedule(t) \/ Report(t) \/ Commentate(t) \/ UpdateInfo(t) \/ TaskFails(t)
    PROVE  \A u \in Tasks : u # t => task'[u] = task[u]
<1>1. CASE Schedule(t)
  <2>1. \/ \E kind, pc, br, bri : Begin(t, kind, pc, br, bri)
        \/ \E pc, bri : Goto(t, pc, bri)
    BY <1>1 DEF Schedule, ScheduleRead, ScheduleInfo, ScheduleWipe, ScheduleSave, ScheduleClear,
                SchedulePost
  <2>2. QED
    BY <2>1, BegunTask, WentTask
<1>2. CASE Report(t)
  <2>1. CASE ReportRead(t)
    BY <2>1, BegunTask DEF ReportRead
  <2>2. CASE ReportInfo(t)
    <3>1. Done(t) \/ Goto(t, "finish", GetOrCreate)
      BY <2>2 DEF ReportInfo
    <3>2. QED
      BY <3>1, WentTask, DoneTask
  <2>3. CASE Finish(t)
    BY <2>3 DEF Finish, TypeOK
  <2>4. CASE Announce(t)
    BY <2>4, DoneTask DEF Announce
  <2>5. QED
    BY <1>2, <2>1, <2>2, <2>3, <2>4 DEF Report
<1>3. CASE Commentate(t)
  <2>1. \/ \E kind, pc, br, bri : Begin(t, kind, pc, br, bri)
        \/ \E pc, bri : Goto(t, pc, bri)
        \/ Done(t)
    BY <1>3 DEF Commentate, Confirm, ConfirmPost, ConfirmClear, Signup, SignupInsert, Restream,
                RestreamPost, SetRestream
  <2>2. QED
    BY <2>1, BegunTask, WentTask, DoneTask
<1>4. CASE UpdateInfo(t) \/ TaskFails(t)
  BY <1>4, DoneTask DEF UpdateInfo, TaskFails
<1>5. QED
  BY <1>1, <1>2, <1>3, <1>4

LEMMA TasksStay ==
    ASSUME \/ Scan \/ ScanFails \/ Rooms \/ RemoveReaction \/ Commentators
           \/ Racetime \/ UNCHANGED vars
    PROVE  task' = task
BY DEF Scan, ScanLoad, ScanQuery, ScanNext, ScanUpdate, ScanFinish, ScanAnnounce, ScanFails,
       Rooms, Upcoming, start_race_for, RoomTake, RoomCreate, RoomSave, RemoveReaction,
       Commentators, Racetime, Play, OffThePage, vars

\* A schedule command has its copy from when it began.
LEMMA SchedulingCopies ==
    ASSUME TypeOK, [Next]_vars, NEW t \in Tasks, Scheduling(task'[t])
    PROVE  \/ Scheduling(task[t]) /\ task'[t].br = task[t].br
           \/ race.state # "Finished" /\ race' = race /\ task'[t].br = race
<1>1. CASE task'[t] = task[t]
  BY <1>1
<1>2. CASE Schedule(t)
  <2>1. CASE ScheduleRead(t)
    <3>1. /\ Begin(t, "schedule", "info", race, NoInfo)
          /\ race.state # "Finished" /\ race' = race
      BY <2>1 DEF ScheduleRead, rows
    <3>2. QED
      BY <3>1, BegunTask
  <2>2. CASE ~ScheduleRead(t)
    <3>1. /\ task[t].kind = "schedule"
          /\ \/ task[t].pc \in {"info", "wipe"} /\ \E pc, bri : Goto(t, pc, bri)
             \/ \E bri : \E pc \in {"clear", "post", "update"} : Goto(t, pc, bri)
      BY <1>2, <2>2 DEF Schedule, ScheduleInfo, ScheduleWipe, ScheduleSave, ScheduleClear,
                        SchedulePost, At
    <3>2. QED
      BY <3>1, WentTask DEF Scheduling
  <2>3. QED
    BY <2>1, <2>2
<1>3. CASE Report(t)
  <2>1. CASE ReportRead(t)
    BY <2>1, BegunTask DEF ReportRead, Scheduling
  <2>2. CASE ReportInfo(t)
    <3>1. Done(t) \/ Goto(t, "finish", GetOrCreate)
      BY <2>2 DEF ReportInfo
    <3>2. QED
      BY <3>1, WentTask, DoneTask DEF Scheduling, IdleTask
  <2>3. CASE Finish(t)
    <3>1. task'[t].pc = "announce"
      BY <2>3 DEF Finish, TypeOK, Task
    <3>2. QED
      BY <3>1 DEF Scheduling
  <2>4. CASE Announce(t)
    BY <2>4, DoneTask DEF Announce, Scheduling, IdleTask
  <2>5. QED
    BY <1>3, <2>1, <2>2, <2>3, <2>4 DEF Report
<1>4. CASE Commentate(t)
  <2>1. \/ \E pc, br, bri : \E kind \in Kinds \ {"schedule"} : Begin(t, kind, pc, br, bri)
        \/ \E bri : \E pc \in {"clear", "update"} : Goto(t, pc, bri)
        \/ Done(t)
    BY <1>4 DEF Commentate, Confirm, ConfirmPost, ConfirmClear, Signup, SignupInsert, Restream,
                RestreamPost, SetRestream, Kinds
  <2>2. QED
    BY <2>1, BegunTask, WentTask, DoneTask DEF Scheduling, IdleTask
<1>5. CASE UpdateInfo(t) \/ TaskFails(t)
  <2>1. Done(t)
    BY <1>5 DEF UpdateInfo, TaskFails
  <2>2. QED
    BY <2>1, DoneTask DEF Scheduling, IdleTask
<1>6. CASE Restart
  BY <1>6 DEF Restart, Scheduling, IdleTask
<1>7. QED
  BY <1>1, <1>2, <1>3, <1>4, <1>5, <1>6, TaskOfStep, TasksStay DEF Next

\* One step: it keeps the invariant and is one of the contract, unless it
\* saves a stale race.
LEMMA UnfinishedStep ==
    ASSUME TypeOK, ScanHasResult, UnfinishedInv, [Next]_vars, [SavesUnfinished]_vars
    PROVE  UnfinishedInv' /\ [Contract!Next]_<<race.state, race.result>>
<1>0. race \in Race /\ OutcomeOnlyWhenFinished
  BY DEF TypeOK, UnfinishedInv
<1>1. \A t \in Tasks : Scheduling(task'[t]) => task'[t].br.result = None
  BY <1>0, SchedulingCopies DEF UnfinishedInv, OutcomeOnlyWhenFinished
<1>2. /\ OutcomeOnlyWhenFinished'
      /\ [Contract!Next]_<<race.state, race.result>>
  <2>1. CASE race' = race
    BY <1>0, <2>1 DEF OutcomeOnlyWhenFinished
  <2>2. ASSUME NEW t \in Tasks, ScheduleSave(t)
        PROVE  /\ OutcomeOnlyWhenFinished'
               /\ [Contract!Next]_<<race.state, race.result>>
    <3>1. /\ Scheduling(task[t])
          /\ race' = SaveRace([task[t].br EXCEPT !.state = "Scheduled"])
          /\ task'[t].pc = "clear"
      BY <2>2, WentTask DEF ScheduleSave, At, Scheduling
    <3>2. task[t].br \in Race /\ task[t].br.result = None
      BY <3>1, TaskFields DEF TypeOK, UnfinishedInv
    <3>3. race'.state = "Scheduled" /\ race'.result = race.result
      BY <1>0, <3>1, <3>2 DEF SaveRace, Race
    <3>4. vars' # vars
      BY <3>1 DEF Scheduling, vars
    <3>5. race.state # "Finished"
      BY <2>2, <3>4 DEF SavesUnfinished
    <3>6. QED
      BY <1>0, <3>3, <3>5 DEF OutcomeOnlyWhenFinished, Contract!Next, Contract!Schedule
  <2>3. CASE \E br \in Race, r \in Results : race' = SaveRace(AddResults(br, r))
    <3>1. race'.state = "Finished" /\ race'.result \in Results
      BY <2>3, DataAssumption DEF DataAssumption, SaveRace, AddResults, Race
    <3>2. QED
      BY <3>1 DEF OutcomeOnlyWhenFinished, Contract!Next, Contract!Finish, Contract!Correct
  <2>4. QED
    BY <2>1, <2>2, <2>3, RaceSteps
<1>3. QED
  BY <1>1, <1>2 DEF UnfinishedInv

LEMMA UnfinishedInit == Init => UnfinishedInv /\ Contract!Init
<1> SUFFICES ASSUME Init PROVE UnfinishedInv /\ Contract!Init
  OBVIOUS
<1>1. \A t \in Tasks : ~Scheduling(task[t])
  BY DEF Init, Scheduling, IdleTask
<1>2. QED
  BY <1>1 DEF Init, UnfinishedInv, OutcomeOnlyWhenFinished, Contract!Init, NoBr, None, Contract!None

\* A save of a stale race breaks the contract, and leaves a race that has an
\* outcome but is not finished.
LEMMA StaleSave ==
    ASSUME TypeOK, FinishedHasResult, [Next]_vars, NEW t \in Tasks, ScheduleSave(t),
           race.state = "Finished"
    PROVE  ~OutcomeOnlyWhenFinished' /\ ~[Contract!Next]_<<race.state, race.result>>
<1>1. race \in Race /\ task[t].br \in Race /\ race.result # None
  BY TaskFields DEF TypeOK, FinishedHasResult
<1>2. race' = SaveRace([task[t].br EXCEPT !.state = "Scheduled"])
  BY DEF ScheduleSave
<1>3. race'.state = "Scheduled" /\ race'.result # None
  BY <1>1, <1>2 DEF SaveRace, Race
<1>4. QED
  BY <1>3 DEF OutcomeOnlyWhenFinished, Contract!Next, Contract!Schedule, Contract!Finish,
              Contract!Correct

\* However many handlers run at once, the race keeps its contract if and only
\* if no schedule command saves a race that was finished since it read it: all
\* other overlaps, of two reports, of a report and a scan, of two schedule
\* commands or of anything with the commentary and the rooms, keep it.
THEOREM ContractKept == Spec => (ImplementsContract <=> [][SavesUnfinished]_vars)
<1>1. TypeOK /\ ScanHasResult /\ UnfinishedInv /\ [Next]_vars /\ [SavesUnfinished]_vars
        => UnfinishedInv' /\ [Contract!Next]_<<race.state, race.result>>
  BY UnfinishedStep
<1>2. TypeOK /\ FinishedHasResult /\ [Next]_vars /\ [Contract!Next]_<<race.state, race.result>>
        => [SavesUnfinished]_vars
  BY StaleSave DEF SavesUnfinished
<1>3. QED
  BY <1>1, <1>2, UnfinishedInit, ScansHaveResults, TypeCorrect, FinishedRacesHaveResults, PTL
  DEF Spec, ImplementsContract, Contract!Spec

\* The same save is the only way to a race that has an outcome and is not
\* finished.
THEOREM OutcomesKept == Spec => ([]OutcomeOnlyWhenFinished <=> [][SavesUnfinished]_vars)
<1>1. TypeOK /\ ScanHasResult /\ UnfinishedInv /\ [Next]_vars /\ [SavesUnfinished]_vars
        => UnfinishedInv'
  BY UnfinishedStep
<1>2. TypeOK /\ FinishedHasResult /\ [Next]_vars /\ OutcomeOnlyWhenFinished'
        => [SavesUnfinished]_vars
  BY StaleSave DEF SavesUnfinished
<1>3. UnfinishedInv => OutcomeOnlyWhenFinished
  BY DEF UnfinishedInv
<1>4. QED
  BY <1>1, <1>2, <1>3, UnfinishedInit, ScansHaveResults, TypeCorrect, FinishedRacesHaveResults, PTL
  DEF Spec

\* No handler is about to save a result while a schedule command has a copy of
\* the unfinished race.
FinishesApart ==
    (\E t \in Tasks : Scheduling(task[t])) =>
        scan.pc # "finish" /\ \A t \in Tasks : task[t].pc # "finish"

\* Then that copy stays what the row says.
UnfinishedCopies == \A t \in Tasks : Scheduling(task[t]) => race.state # "Finished"

\* Only a handler that is about to save a result finishes a race.
LEMMA FinishesRace ==
    ASSUME TypeOK, [Next]_vars, race.state # "Finished", race'.state = "Finished"
    PROVE  scan.pc = "finish" \/ \E t \in Tasks : task[t].pc = "finish"
<1>0. race \in Race /\ race' # race
  BY DEF TypeOK
<1>1. ASSUME NEW t \in Tasks, Schedule(t) PROVE FALSE
  <2>1. ScheduleSave(t)
    BY <1>0, <1>1 DEF Schedule, ScheduleRead, ScheduleInfo, ScheduleWipe, ScheduleClear,
                      SchedulePost, rows
  <2>2. task[t].br \in Race /\ race' = SaveRace([task[t].br EXCEPT !.state = "Scheduled"])
    BY <2>1, TaskFields DEF TypeOK, ScheduleSave
  <2>3. QED
    BY <2>2 DEF SaveRace, Race
<1>2. ASSUME NEW t \in Tasks, Report(t) PROVE task[t].pc = "finish"
  BY <1>0, <1>2 DEF Report, ReportRead, ReportInfo, Finish, Announce, rows
<1>3. CASE Scan
  BY <1>0, <1>3 DEF Scan, ScanLoad, ScanQuery, ScanNext, ScanUpdate, ScanFinish, ScanAnnounce, rows
<1>4. ASSUME NEW t \in Tasks, Commentate(t) \/ UpdateInfo(t) \/ TaskFails(t) PROVE FALSE
  BY <1>0, <1>4 DEF Commentate, Confirm, ConfirmPost, ConfirmClear, Signup, SignupInsert,
              Restream, RestreamPost, SetRestream, UpdateInfo, TaskFails, rows
<1>5. CASE \/ Rooms \/ ScanFails \/ RemoveReaction \/ Commentators \/ Restart
           \/ Racetime \/ UNCHANGED vars
  BY <1>0, <1>5 DEF Rooms, Upcoming, start_race_for, RoomTake, RoomCreate, RoomSave, ScanFails,
              RemoveReaction, Commentators, Restart, Racetime, Play, OffThePage, vars, rows
<1>6. QED
  BY <1>1, <1>2, <1>3, <1>4, <1>5 DEF Next

LEMMA UnfinishedCopiesStep ==
    ASSUME TypeOK, FinishesApart, UnfinishedCopies, [Next]_vars
    PROVE  UnfinishedCopies' /\ [SavesUnfinished]_vars
<1>1. ASSUME NEW t \in Tasks, Scheduling(task'[t]) PROVE race'.state # "Finished"
  <2>1. CASE Scheduling(task[t])
    BY <2>1, FinishesRace DEF FinishesApart, UnfinishedCopies
  <2>2. CASE ~Scheduling(task[t])
    BY <1>1, <2>2, SchedulingCopies
  <2>3. QED
    BY <2>1, <2>2
<1>2. \A t \in Tasks : ScheduleSave(t) => race.state # "Finished"
  BY DEF UnfinishedCopies, ScheduleSave, At, Scheduling
<1>3. QED
  BY <1>1, <1>2 DEF UnfinishedCopies, SavesUnfinished

LEMMA SavesAreUnfinished == Spec /\ []FinishesApart => [][SavesUnfinished]_vars
<1>1. TypeOK /\ FinishesApart /\ UnfinishedCopies /\ [Next]_vars
        => UnfinishedCopies' /\ [SavesUnfinished]_vars
  BY UnfinishedCopiesStep
<1>2. Init => UnfinishedCopies
  BY DEF Init, UnfinishedCopies, Scheduling, IdleTask
<1>3. QED
  BY <1>1, <1>2, TypeCorrect, PTL DEF Spec

LEMMA UnfinishedInvariant == Spec /\ []FinishesApart => []UnfinishedInv
<1>1. TypeOK /\ ScanHasResult /\ UnfinishedInv /\ [Next]_vars /\ [SavesUnfinished]_vars
        => UnfinishedInv'
  BY UnfinishedStep
<1>2. QED
  BY <1>1, UnfinishedInit, SavesAreUnfinished, ScansHaveResults, TypeCorrect, PTL DEF Spec

\* So the contract is kept as long as no handler saves a result while a schedule
\* command is between its read of the race and its save: everything else may
\* overlap, and MaxBusy may be anything.
THEOREM ContractUnlessOverlap == Spec /\ []FinishesApart => ImplementsContract
<1>1. QED
  BY SavesAreUnfinished, ContractKept, PTL

-----------------------------------------------------------------------------
(* Results that are posted, when handlers overlap.                         *)

Announcing(c) == c.pc = "announce"

\* While a handler is between the save of a result and its post, no other is
\* about to save or to post one.
ResultsOneByOne ==
    /\ scan.pc = "announce" => \A t \in Tasks : task[t].pc \notin {"finish", "announce"}
    /\ \A t \in Tasks : Announcing(task[t]) =>
        /\ scan.pc # "finish"
        /\ \A u \in Tasks \ {t} : task[u].pc \notin {"finish", "announce"}

\* What is about to be posted is on record, and so is what was posted last.
PostedInv ==
    /\ \A t \in Tasks : Announcing(task[t]) => task[t].br.result = race.result
    /\ Announcing(scan) => scan.result = race.result
    /\ Clean /\ reported # None =>
        \/ reported = race.result
        \/ Announcing(scan) \/ \E t \in Tasks : Announcing(task[t])

\* Failures and restarts are not forgotten.
LEMMA CountGrows ==
    ASSUME TypeOK, NEW ok, Count(ok)
    PROVE  (Clean' => Clean /\ ok)
<1>1. failures \in Nat
  BY CountersAreNat
<1>2. restarts' = restarts /\ ((ok /\ failures' = failures) \/ failures' = failures + 1)
  BY DEF Count
<1>3. QED
  BY <1>1, <1>2 DEF Clean

LEMMA CleanBefore == ASSUME TypeOK, [Next]_vars, Clean' PROVE Clean
<1>1. CASE failures' = failures /\ restarts' = restarts
  BY <1>1 DEF Clean
<1>2. CASE \E ok : Count(ok)
  BY <1>2, CountGrows
<1>3. CASE Restart
  BY <1>3, CountersAreNat DEF Restart, Clean
<1>4. ASSUME NEW t \in Tasks,
             Schedule(t) \/ Report(t) \/ Commentate(t) \/ UpdateInfo(t) \/ TaskFails(t)
      PROVE  (failures' = failures /\ restarts' = restarts) \/ \E ok : Count(ok)
  <2>1. CASE Schedule(t)
    BY <2>1 DEF Schedule, ScheduleRead, ScheduleInfo, ScheduleWipe, ScheduleSave, ScheduleClear,
                SchedulePost, Begin, bounds
  <2>2. CASE Report(t)
    BY <2>2 DEF Report, ReportRead, ReportInfo, Finish, Announce, Announced, Begin, bounds
  <2>3. CASE Commentate(t)
    BY <2>3 DEF Commentate, Confirm, ConfirmPost, ConfirmClear, Signup, SignupInsert, Restream,
                RestreamPost, SetRestream, Begin, bounds
  <2>4. CASE UpdateInfo(t) \/ TaskFails(t)
    BY <2>4 DEF UpdateInfo, TaskFails, bounds
  <2>5. QED
    BY <1>4, <2>1, <2>2, <2>3, <2>4
<1>5. CASE Scan \/ ScanFails
  BY <1>1, <1>2, <1>5 DEF Scan, ScanLoad, ScanQuery, ScanNext, ScanUpdate, ScanFinish,
                          ScanAnnounce, Announced, ScanFails, bounds
<1>6. CASE Rooms
  BY <1>1, <1>2, <1>6 DEF Rooms, Upcoming, start_race_for, RoomTake, RoomCreate, RoomSave, bounds
<1>7. CASE RemoveReaction \/ Commentators \/ Racetime \/ UNCHANGED vars
  BY <1>1, <1>7 DEF RemoveReaction, Commentators, Racetime, Play, OffThePage, vars, bounds
<1>8. QED
  BY <1>1, <1>2, <1>3, <1>4, <1>5, <1>6, <1>7 DEF Next

\* Who saved a result is to post it, and does.
LEMMA AnnouncingTasks ==
    ASSUME TypeOK, [Next]_vars, NEW t \in Tasks
    PROVE  /\ Announcing(task'[t]) => \/ Finish(t)
                                      \/ Announcing(task[t]) /\ task'[t].br = task[t].br
           /\ Announcing(task[t]) => Announcing(task'[t]) \/ Announce(t) \/ Restart
<1>1. CASE task'[t] = task[t]
  BY <1>1
<1>2. CASE Schedule(t) \/ Commentate(t)
  <2>1. ~Announcing(task[t])
    BY <1>2 DEF Schedule, ScheduleRead, ScheduleInfo, ScheduleWipe, ScheduleSave, ScheduleClear,
                SchedulePost, Commentate, Confirm, ConfirmPost, ConfirmClear, Signup, SignupInsert,
                Restream, RestreamPost, SetRestream, Begin, At, Announcing
  <2>2. \/ \E kind, br, bri : \E pc \in Pcs \ {"announce"} : Begin(t, kind, pc, br, bri)
        \/ \E bri : \E pc \in Pcs \ {"announce"} : Goto(t, pc, bri)
        \/ Done(t)
    BY <1>2 DEF Schedule, ScheduleRead, ScheduleInfo, ScheduleWipe, ScheduleSave, ScheduleClear,
                SchedulePost, Commentate, Confirm, ConfirmPost, ConfirmClear, Signup, SignupInsert,
                Restream, RestreamPost, SetRestream, Pcs
  <2>3. task'[t].pc # "announce"
    BY <2>2, BegunTask, WentTask, DoneTask DEF IdleTask
  <2>4. QED
    BY <2>1, <2>3 DEF Announcing
<1>3. CASE Report(t)
  <2>1. CASE ReportRead(t)
    BY <2>1, BegunTask DEF ReportRead, Announcing, Begin
  <2>2. CASE ReportInfo(t)
    <3>1. Done(t) \/ Goto(t, "finish", GetOrCreate)
      BY <2>2 DEF ReportInfo
    <3>2. QED
      BY <2>2, <3>1, WentTask, DoneTask DEF ReportInfo, At, Announcing, IdleTask
  <2>3. CASE Finish(t)
    BY <2>3 DEF Finish, Announcing
  <2>4. CASE Announce(t)
    BY <2>4, DoneTask DEF Announce, Announcing, IdleTask
  <2>5. QED
    BY <1>3, <2>1, <2>2, <2>3, <2>4 DEF Report
<1>4. CASE UpdateInfo(t) \/ TaskFails(t)
  <2>1. Done(t) /\ task[t].pc # "announce"
    BY <1>4 DEF UpdateInfo, TaskFails, At
  <2>2. QED
    BY <2>1, DoneTask DEF Announcing, IdleTask
<1>5. CASE Restart
  BY <1>5 DEF Restart, Announcing, IdleTask
<1>6. QED
  BY <1>1, <1>2, <1>3, <1>4, <1>5, TaskOfStep, TasksStay DEF Next

LEMMA AnnouncingScan ==
    ASSUME TypeOK, [Next]_vars
    PROVE  /\ Announcing(scan)' => \/ ScanFinish /\ scan'.result = scan.result
                                   \/ Announcing(scan) /\ scan'.result = scan.result
           /\ Announcing(scan) => Announcing(scan)' \/ ScanAnnounce \/ Restart
<1>0. scan \in Scanner
  BY DEF TypeOK
<1>1. CASE scan' = scan
  BY <1>1 DEF Announcing
<1>2. CASE Scan
  <2>1. CASE ScanLoad \/ ScanQuery \/ ScanNext \/ ScanUpdate
    <3>1. scan.pc # "announce"
      BY <2>1 DEF ScanLoad, ScanQuery, ScanNext, ScanUpdate
    <3>2. scan'.pc # "announce"
      <4>1. CASE ScanLoad \/ ScanQuery \/ ScanUpdate
        BY <1>0, <4>1 DEF ScanLoad, ScanQuery, ScanUpdate, Scanner, IdleScan
      <4>2. CASE ScanNext
        <5>1. \/ scan' = IdleScan
              \/ \E r : scan' = [scan EXCEPT !.pc = "update", !.result = r, !.todo = @ \ {r}]
          BY <4>2 DEF ScanNext
        <5>2. ASSUME NEW r,
                     scan' = [scan EXCEPT !.pc = "update", !.result = r, !.todo = @ \ {r}]
              PROVE  scan'.pc = "update"
          BY <1>0, <5>2 DEF Scanner
        <5>3. IdleScan.pc = "idle"
          BY DEF IdleScan
        <5>4. QED
          BY <5>1, <5>2, <5>3
      <4>3. QED
        BY <2>1, <4>1, <4>2
    <3>3. QED
      BY <3>1, <3>2 DEF Announcing
  <2>2. CASE ScanFinish
    <3>1. scan.pc = "finish"
      BY <2>2 DEF ScanFinish
    <3>2. \/ scan' = [scan EXCEPT !.pc = "announce"]
          \/ scan' = [scan EXCEPT !.pc = "next", !.result = None]
      BY <2>2 DEF ScanFinish
    <3>3. QED
      BY <1>0, <2>2, <3>1, <3>2 DEF Announcing, Scanner
  <2>3. CASE ScanAnnounce
    BY <1>0, <2>3 DEF ScanAnnounce, Announcing, Scanner
  <2>4. QED
    BY <1>2, <2>1, <2>2, <2>3 DEF Scan
<1>3. CASE ScanFails
  <2>1. scan' = IdleScan \/ scan' = [scan EXCEPT !.pc = "next", !.result = None]
    BY <1>3 DEF ScanFails
  <2>2. scan'.pc # "announce" /\ scan.pc # "announce"
    BY <1>0, <1>3, <2>1 DEF ScanFails, Scanner, IdleScan
  <2>3. QED
    BY <2>2 DEF Announcing
<1>4. CASE Restart
  BY <1>4 DEF Restart, Announcing, IdleScan
<1>5. ASSUME NEW t \in Tasks,
             Schedule(t) \/ Report(t) \/ Commentate(t) \/ UpdateInfo(t) \/ TaskFails(t)
      PROVE  scan' = scan
  BY <1>5 DEF Schedule, ScheduleRead, ScheduleInfo, ScheduleWipe, ScheduleSave, ScheduleClear,
              SchedulePost, Report, ReportRead, ReportInfo, Finish, Announce, Commentate, Confirm,
              ConfirmPost, ConfirmClear, Signup, SignupInsert, Restream, RestreamPost,
              SetRestream, UpdateInfo, TaskFails
<1>6. CASE \/ Rooms \/ RemoveReaction \/ Commentators \/ UNCHANGED vars
           \/ Racetime
  BY <1>1, <1>6 DEF Rooms, Upcoming, start_race_for, RoomTake, RoomCreate, RoomSave,
                    RemoveReaction, Commentators, Racetime, Play, OffThePage, vars
<1>7. QED
  BY <1>1, <1>2, <1>3, <1>4, <1>5, <1>6 DEF Next

\* Only a handler that is to finish the race changes its result; the copies of
\* schedule commands have none.
LEMMA ResultChanges ==
    ASSUME TypeOK, ScanHasResult, UnfinishedInv, [Next]_vars, race'.result # race.result
    PROVE  ScanFinish \/ \E t \in Tasks : Finish(t)
<1>0. race' # race /\ race \in Race
  BY DEF TypeOK
<1>1. ASSUME NEW t \in Tasks, Schedule(t) PROVE FALSE
  <2>1. ScheduleSave(t)
    BY <1>0, <1>1 DEF Schedule, ScheduleRead, ScheduleInfo, ScheduleWipe, ScheduleClear,
                      SchedulePost, rows
  <2>2. /\ Scheduling(task[t]) /\ task[t].br \in Race
        /\ race' = SaveRace([task[t].br EXCEPT !.state = "Scheduled"])
    BY <2>1, TaskFields DEF TypeOK, ScheduleSave, At, Scheduling
  <2>3. task[t].br.result = None
    BY <2>2 DEF UnfinishedInv
  <2>4. QED
    BY <1>0, <2>2, <2>3 DEF SaveRace, Race
<1>2. ASSUME NEW t \in Tasks, Report(t) PROVE Finish(t)
  BY <1>0, <1>2 DEF Report, ReportRead, ReportInfo, Announce, rows
<1>3. CASE Scan
  BY <1>0, <1>3 DEF Scan, ScanLoad, ScanQuery, ScanNext, ScanUpdate, ScanAnnounce, rows
<1>4. ASSUME NEW t \in Tasks, Commentate(t) \/ UpdateInfo(t) \/ TaskFails(t) PROVE FALSE
  BY <1>0, <1>4 DEF Commentate, Confirm, ConfirmPost, ConfirmClear, Signup, SignupInsert,
              Restream, RestreamPost, SetRestream, UpdateInfo, TaskFails, rows
<1>5. CASE \/ Rooms \/ ScanFails \/ RemoveReaction \/ Commentators \/ Restart
           \/ Racetime \/ UNCHANGED vars
  BY <1>0, <1>5 DEF Rooms, Upcoming, start_race_for, RoomTake, RoomCreate, RoomSave, ScanFails,
              RemoveReaction, Commentators, Restart, Racetime, Play, OffThePage, vars, rows
<1>6. QED
  BY <1>1, <1>2, <1>3, <1>4, <1>5 DEF Next

\* A post is made by who announces.
LEMMA PostsResult ==
    ASSUME TypeOK, [Next]_vars, reported' # reported
    PROVE  ScanAnnounce \/ \E t \in Tasks : Announce(t)
<1>1. ASSUME NEW t \in Tasks, Schedule(t) \/ Commentate(t) \/ UpdateInfo(t) \/ TaskFails(t)
      PROVE  FALSE
  BY <1>1 DEF Schedule, ScheduleRead, ScheduleInfo, ScheduleWipe, ScheduleSave, ScheduleClear,
              SchedulePost, Commentate, Confirm, ConfirmPost, ConfirmClear, Signup, SignupInsert,
              Restream, RestreamPost, SetRestream, UpdateInfo, TaskFails, posts
<1>2. ASSUME NEW t \in Tasks, Report(t) PROVE Announce(t)
  BY <1>2 DEF Report, ReportRead, ReportInfo, Finish, posts
<1>3. CASE Scan
  BY <1>3 DEF Scan, ScanLoad, ScanQuery, ScanNext, ScanUpdate, ScanFinish, posts
<1>4. CASE \/ Rooms \/ ScanFails \/ RemoveReaction \/ Commentators \/ Restart
           \/ Racetime \/ UNCHANGED vars
  BY <1>4 DEF Rooms, Upcoming, start_race_for, RoomTake, RoomCreate, RoomSave, ScanFails,
              RemoveReaction, Commentators, Restart, Racetime, Play, OffThePage, vars, posts
<1>5. QED
  BY <1>1, <1>2, <1>3, <1>4 DEF Next

LEMMA PostedStep ==
    ASSUME TypeOK, ScanHasResult, UnfinishedInv, ResultsOneByOne, PostedInv, [Next]_vars
    PROVE  PostedInv'
<1>0. race \in Race /\ scan \in Scanner
  BY DEF TypeOK
<1>1. CASE \E t \in Tasks : Finish(t)
  <2>1. PICK t \in Tasks : Finish(t)
    BY <1>1
  <2>2. PICK r \in Results :
            /\ race' = SaveRace(AddResults(task[t].br, r))
            /\ task' = [task EXCEPT ![t] = [@ EXCEPT !.pc = "announce", !.br = AddResults(task[t].br, r)]]
    BY <2>1 DEF Finish
  <2>3. task[t].br \in Race /\ task[t].pc = "finish" /\ reported' = reported /\ scan' = scan
    BY <2>1, TaskFields DEF TypeOK, Finish, posts
  <2>4. race'.result = r /\ AddResults(task[t].br, r).result = r
    BY <2>2, <2>3, DataAssumption DEF DataAssumption, SaveRace, AddResults, Race
  <2>5. /\ task'[t].pc = "announce" /\ task'[t].br.result = r
        /\ \A u \in Tasks \ {t} : task'[u] = task[u]
    BY <2>2, <2>4 DEF TypeOK, Task
  <2>6. ~Announcing(scan) /\ \A u \in Tasks \ {t} : ~Announcing(task[u])
    BY <2>3 DEF ResultsOneByOne, Announcing
  <2>7. QED
    BY <2>3, <2>4, <2>5, <2>6 DEF PostedInv, Announcing
<1>2. CASE ScanFinish
  <2>1. scan.pc = "finish" /\ task' = task /\ reported' = reported
    BY <1>2 DEF ScanFinish, posts
  <2>2. /\ ~Announcing(scan) /\ \A t \in Tasks : ~Announcing(task[t])
    BY <2>1 DEF ResultsOneByOne, Announcing
  <2>3. CASE race' = race /\ ~Announcing(scan)'
    BY <2>1, <2>2, <2>3, CleanBefore DEF PostedInv
  <2>4. CASE race' = SaveRace(AddResults(scan.br, scan.result)) /\ scan'.pc = "announce"
    <3>1. scan.br \in Race /\ scan.result \in Results
      BY <1>0, <2>1 DEF Scanner, ScanHasResult
    <3>2. race'.result = scan.result
      BY <2>4, <3>1, DataAssumption DEF DataAssumption, SaveRace, AddResults, Race
    <3>3. scan'.result = scan.result
      BY <2>2, <2>4, AnnouncingScan DEF Announcing
    <3>4. QED
      BY <2>1, <2>2, <2>4, <3>2, <3>3 DEF PostedInv, Announcing
  <2>5. QED
    BY <1>0, <1>2, <2>3, <2>4 DEF ScanFinish, Scanner, Announcing
<1>3. CASE ~ScanFinish /\ \A t \in Tasks : ~Finish(t)
  <2>1. race'.result = race.result
    BY <1>3, ResultChanges
  <2>2. \A t \in Tasks : Announcing(task'[t]) => task'[t].br.result = race'.result
    BY <1>3, <2>1, AnnouncingTasks DEF PostedInv
  <2>3. Announcing(scan)' => scan'.result = race'.result
    BY <1>3, <2>1, AnnouncingScan DEF PostedInv
  <2>4. CASE Restart
    <3>1. ~Clean'
      BY <2>4, CountersAreNat DEF Restart, Clean
    <3>2. QED
      BY <2>2, <2>3, <3>1 DEF PostedInv
  <2>5. ASSUME NEW r, NEW bri, Announced(r, bri), r = race.result, Clean'
        PROVE  reported' = race'.result
    <3>1. PICK okResult \in BOOLEAN, okComm \in BOOLEAN :
              Count(okResult /\ okComm) /\ reported' = IF okResult THEN r ELSE reported
      BY <2>5 DEF Announced
    <3>2. okResult
      BY <2>5, <3>1, CountGrows
    <3>3. QED
      BY <2>1, <2>5, <3>1, <3>2
  <2>6. CASE ScanAnnounce \/ \E t \in Tasks : Announce(t)
    <3>1. \E r, bri : Announced(r, bri) /\ r = race.result
      BY <2>6 DEF ScanAnnounce, Announce, PostedInv, Announcing
    <3>2. QED
      BY <2>2, <2>3, <2>5, <3>1 DEF PostedInv
  <2>7. CASE ~Restart /\ ~ScanAnnounce /\ \A t \in Tasks : ~Announce(t)
    <3>1. reported' = reported
      BY <2>7, PostsResult
    <3>2. /\ Announcing(scan) => Announcing(scan)'
          /\ \A t \in Tasks : Announcing(task[t]) => Announcing(task'[t])
      BY <2>7, AnnouncingScan, AnnouncingTasks
    <3>3. QED
      BY <2>1, <2>2, <2>3, <3>1, <3>2, CleanBefore DEF PostedInv
  <2>8. QED
    BY <2>4, <2>6, <2>7
<1>4. QED
  BY <1>1, <1>2, <1>3

\* The result that was posted last is the one on record, as long as results are
\* saved and posted one by one, and none is saved while a schedule command has
\* read the race and not yet saved it.
THEOREM PostedUnlessOverlap ==
    Spec /\ []FinishesApart /\ []ResultsOneByOne => []PostedIsRecorded
<1>1. Init => PostedInv
  BY DEF Init, PostedInv, Announcing, IdleTask, IdleScan
<1>2. TypeOK /\ ScanHasResult /\ UnfinishedInv /\ ResultsOneByOne /\ PostedInv /\ [Next]_vars
        => PostedInv'
  BY PostedStep
<1>3. PostedInv => PostedIsRecorded
  BY DEF PostedInv, PostedIsRecorded, Undisturbed, Clean, Quiet, Busy, Announcing
<1>4. Spec /\ []FinishesApart => []UnfinishedInv
  BY UnfinishedInvariant
<1>5. QED
  BY <1>1, <1>2, <1>3, <1>4, ScansHaveResults, TypeCorrect, PTL DEF Spec

-----------------------------------------------------------------------------
(* Rooms, when handlers overlap.                                           *)

\* A command that ends by writing its copy of the info back.
Keeping(c) == c.pc \in {"clear", "post", "update"}

\* No such copy is around while a room is opened.
RoomsApart == room.pc # "idle" => \A t \in Tasks : ~Keeping(task[t])

HasUrl(bri) == "url" \in bri.filled

\* How often the url of a room may have been lost.
Lost == failures + restarts

Within == made <= Lost + 1

Spare == made <= Lost

\* The url of the room that was opened is on record or about to be, and no copy
\* lacks it.
UrlKnown ==
    /\ HasUrl(info) \/ room.pc = "save"
    /\ \A t \in Tasks : Keeping(task[t]) => HasUrl(task[t].bri)
    /\ room.pc # "create"

RoomsInv ==
    /\ Within
    /\ Spare \/ UrlKnown
    /\ room.pc = "save" => HasUrl(room.bri)

LEMMA LostTypes ==
    ASSUME TypeOK, TypeOK'
    PROVE  made \in Nat /\ made' \in Nat /\ Lost \in Nat /\ Lost' \in Nat
<1>1. /\ failures' \in 0..MaxFailures /\ restarts' \in 0..MaxRestarts /\ made' \in 0..MaxRooms
  BY DEF TypeOK
<1>2. failures' \in Nat /\ restarts' \in Nat /\ made' \in Nat
  BY <1>1, BoundsAssumption DEF BoundsAssumption
<1>3. made \in Nat /\ failures \in Nat /\ restarts \in Nat
  BY CountersAreNat
<1>4. \A f, r \in Nat : f + r \in Nat
  OBVIOUS
<1>5. QED
  BY <1>2, <1>3, <1>4 DEF Lost

LEMMA LostOnce ==
    ASSUME TypeOK
    PROVE  /\ failures' = failures /\ restarts' = restarts => Lost' = Lost
           /\ failures' = failures + 1 /\ restarts' = restarts => Lost' = Lost + 1
           /\ failures' = failures /\ restarts' = restarts + 1 => Lost' = Lost + 1
<1>1. failures \in Nat /\ restarts \in Nat
  BY CountersAreNat
<1>2. (failures + 1) + restarts = (failures + restarts) + 1
  BY <1>1
<1>3. failures + (restarts + 1) = (failures + restarts) + 1
  BY <1>1
<1>4. QED
  BY <1>2, <1>3 DEF Lost

LEMMA Bounds ==
    ASSUME TypeOK, TypeOK'
    PROVE  /\ made' = made /\ Lost' \in {Lost, Lost + 1} => (Within => Within') /\ (Spare => Spare')
           /\ Within /\ made' = made /\ Lost' = Lost + 1 => Within' /\ Spare'
           /\ made' = 0 => Within' /\ Spare'
           /\ Spare /\ made' = made + 1 /\ Lost' = Lost => Within'
           /\ Spare /\ made' \in {made, made + 1} /\ Lost' = Lost + 1 => Within' /\ Spare'
<1>1. made \in Nat /\ made' \in Nat /\ Lost \in Nat /\ Lost' \in Nat
  BY LostTypes
<1>2. ASSUME NEW m \in Nat, NEW x \in Nat
      PROVE  /\ m <= x + 1 => m <= (x + 1) + 1
             /\ m <= x => m <= x + 1 /\ m + 1 <= x + 1 /\ m + 1 <= (x + 1) + 1
                          /\ m <= (x + 1) + 1
             /\ 0 <= x /\ 0 <= x + 1
  BY <1>2
<1>3. made' = made /\ Lost' \in {Lost, Lost + 1} => (Within => Within') /\ (Spare => Spare')
  BY <1>1, <1>2 DEF Within, Spare
<1>4. Within /\ made' = made /\ Lost' = Lost + 1 => Within' /\ Spare'
  BY <1>1, <1>2 DEF Within, Spare
<1>5. made' = 0 => Within' /\ Spare'
  BY <1>1, <1>2 DEF Within, Spare
<1>6. Spare /\ made' = made + 1 /\ Lost' = Lost => Within'
  BY <1>1, <1>2 DEF Within, Spare
<1>7. Spare /\ made' \in {made, made + 1} /\ Lost' = Lost + 1 => Within' /\ Spare'
  BY <1>1, <1>2 DEF Within, Spare
<1>8. QED
  BY <1>3, <1>4, <1>5, <1>6, <1>7

\* Steps that open no room and forget no url.
LEMMA UrlStays ==
    ASSUME TypeOK, TypeOK', RoomsInv, made' = made, restarts' = restarts,
           failures' = failures \/ failures' = failures + 1,
           UrlKnown => UrlKnown', room'.pc = "save" => HasUrl(room'.bri)
    PROVE  RoomsInv'
<1>1. Lost' \in {Lost, Lost + 1}
  BY LostOnce
<1>2. Within' /\ (Spare => Spare')
  BY <1>1, Bounds DEF RoomsInv
<1>3. QED
  BY <1>2 DEF RoomsInv

\* A task takes a step; what it may keep is a copy with the url, if there is one.
LEMMA TaskUrl ==
    ASSUME TypeOK, TypeOK', RoomsInv, made' = made, room' = room, restarts' = restarts,
           failures' = failures \/ failures' = failures + 1,
           HasUrl(info) => HasUrl(info'),
           NEW t \in Tasks, \A u \in Tasks : u # t => task'[u] = task[u],
           UrlKnown /\ Keeping(task'[t]) => HasUrl(task'[t].bri)
    PROVE  RoomsInv'
<1>1. UrlKnown => UrlKnown'
  BY DEF UrlKnown
<1>2. QED
  BY <1>1, UrlStays DEF RoomsInv

LEMMA SameUrl ==
    ASSUME NEW bri \in Info
    PROVE  /\ \A col \in Columns \ {"url"} : /\ HasUrl(Fill(bri, col)) <=> HasUrl(bri)
                                             /\ HasUrl(Clear(bri, col)) <=> HasUrl(bri)
           /\ HasUrl([bri EXCEPT !.exists = TRUE]) <=> HasUrl(bri)
           /\ \A ok \in BOOLEAN : HasUrl(ClearComm(bri, ok)) <=> HasUrl(bri)
           /\ HasUrl(Fill(bri, "url"))
BY DEF HasUrl, Fill, Clear, ClearComm, Info, Columns

\* What a step counts.
LEMMA CountSteps ==
    ASSUME NEW ok, Count(ok)
    PROVE  restarts' = restarts /\ (failures' = failures \/ failures' = failures + 1)
BY DEF Count

LEMMA ScheduleUrl ==
    ASSUME TypeOK, TypeOK', RoomsInv, NEW t \in Tasks, Schedule(t)
    PROVE  RoomsInv'
<1>0. /\ info \in Info /\ task[t].bri \in Info /\ \A u \in Tasks : u # t => task'[u] = task[u]
  BY TaskFields, TaskOfStep DEF TypeOK
<1>1. CASE ScheduleRead(t) \/ ScheduleInfo(t) \/ ScheduleWipe(t)
  <2>1. /\ made' = made /\ room' = room /\ failures' = failures /\ restarts' = restarts
        /\ info' \in {info, GetOrCreate}
    BY <1>1 DEF ScheduleRead, ScheduleInfo, ScheduleWipe, Begin, rows, rooms, bounds
  <2>2. task'[t].pc \in {"info", "wipe", "save"}
    <3>1. CASE ScheduleRead(t)
      BY <3>1, BegunTask DEF ScheduleRead
    <3>2. CASE ScheduleInfo(t) \/ ScheduleWipe(t)
      BY <3>2, WentTask DEF ScheduleInfo, ScheduleWipe
    <3>3. QED
      BY <1>1, <3>1, <3>2
  <2>3. HasUrl(info) => HasUrl(info')
    BY <1>0, <2>1, SameUrl DEF GetOrCreate
  <2>4. QED
    BY <1>0, <2>1, <2>2, <2>3, TaskUrl DEF Keeping
<1>2. CASE ScheduleSave(t)
  <2>1. made' = 0 /\ room' = room
    BY <1>2 DEF ScheduleSave
  <2>2. Within' /\ Spare'
    BY <2>1, Bounds
  <2>3. QED
    BY <2>1, <2>2 DEF RoomsInv
<1>3. CASE ScheduleClear(t) \/ SchedulePost(t)
  <2>1. made' = made /\ room' = room /\ info' = info /\ Keeping(task[t])
    BY <1>3 DEF ScheduleClear, SchedulePost, At, Keeping, rows, rooms
  <2>2. (\E ok : Count(ok)) /\ (HasUrl(task[t].bri) => HasUrl(task'[t].bri))
    <3>1. CASE ScheduleClear(t)
      <4> DEFINE bri(ok) == ClearComm(task[t].bri, ok)
      <4>1. PICK okComm \in BOOLEAN, okTentative \in BOOLEAN :
               /\ Count(okComm /\ okTentative)
               /\ Goto(t, "post", IF okTentative THEN Clear(bri(okComm), "tentative")
                                  ELSE bri(okComm))
        BY <3>1 DEF ScheduleClear
      <4>2. task'[t].bri \in {bri(okComm), Clear(bri(okComm), "tentative")}
        BY <4>1, WentTask
      <4>3. bri(okComm) \in Info /\ (HasUrl(task[t].bri) => HasUrl(bri(okComm)))
        BY <1>0, InfoTypes, SameUrl
      <4> HIDE DEF bri
      <4>4. HasUrl(bri(okComm)) => HasUrl(Clear(bri(okComm), "tentative"))
        BY <4>3, SameUrl DEF Columns
      <4>5. QED
        BY <4>1, <4>2, <4>3, <4>4
    <3>2. CASE SchedulePost(t)
      <4>1. \E ok : Count(ok)
        BY <3>2 DEF SchedulePost
      <4>2. \/ Goto(t, "update", task[t].bri)
            \/ \E m : Goto(t, "update", [task[t].bri EXCEPT !.comm = m])
        BY <3>2 DEF SchedulePost
      <4>3. ASSUME NEW m, Goto(t, "update", [task[t].bri EXCEPT !.comm = m])
            PROVE  HasUrl(task'[t].bri) <=> HasUrl(task[t].bri)
        <5>1. task'[t].bri = [task[t].bri EXCEPT !.comm = m]
          BY <4>3, WentTask
        <5>2. HasUrl([task[t].bri EXCEPT !.comm = m]) <=> HasUrl(task[t].bri)
          BY <1>0 DEF HasUrl, Info
        <5>3. QED
          BY <5>1, <5>2
      <4>4. ASSUME Goto(t, "update", task[t].bri) PROVE task'[t].bri = task[t].bri
        BY <4>4, WentTask
      <4>5. QED
        BY <4>1, <4>2, <4>3, <4>4
    <3>3. QED
      BY <1>3, <3>1, <3>2
  <2>3. QED
    BY <1>0, <2>1, <2>2, CountSteps, TaskUrl DEF UrlKnown
<1>4. QED
  BY <1>1, <1>2, <1>3 DEF Schedule

LEMMA ReportUrl ==
    ASSUME TypeOK, TypeOK', RoomsInv, NEW t \in Tasks, Report(t)
    PROVE  RoomsInv'
<1>0. /\ info \in Info /\ \A u \in Tasks : u # t => task'[u] = task[u]
  BY TaskOfStep DEF TypeOK
<1>1. /\ made' = made /\ room' = room /\ restarts' = restarts
      /\ failures' = failures \/ failures' = failures + 1
      /\ info' \in {info, GetOrCreate}
  BY <1>0, CountSteps
  DEF Report, ReportRead, ReportInfo, Finish, Announce, Announced, Begin, rows, rooms, bounds
<1>2. ~Keeping(task'[t])
  <2>1. CASE ReportRead(t)
    BY <2>1, BegunTask DEF ReportRead, Keeping
  <2>2. CASE ReportInfo(t)
    <3>1. Done(t) \/ Goto(t, "finish", GetOrCreate)
      BY <2>2 DEF ReportInfo
    <3>2. QED
      BY <3>1, WentTask, DoneTask DEF Keeping, IdleTask
  <2>3. CASE Finish(t)
    <3>1. task'[t].pc = "announce"
      BY <2>3 DEF Finish, TypeOK, Task
    <3>2. QED
      BY <3>1 DEF Keeping
  <2>4. CASE Announce(t)
    BY <2>4, DoneTask DEF Announce, Keeping, IdleTask
  <2>5. QED
    BY <2>1, <2>2, <2>3, <2>4 DEF Report
<1>3. HasUrl(info) => HasUrl(info')
  BY <1>0, <1>1, SameUrl DEF GetOrCreate
<1>4. QED
  BY <1>0, <1>1, <1>2, <1>3, TaskUrl

LEMMA CommentateUrl ==
    ASSUME TypeOK, TypeOK', RoomsApart', RoomsInv, NEW t \in Tasks,
           Commentate(t) \/ UpdateInfo(t) \/ TaskFails(t)
    PROVE  RoomsInv'
<1>0. /\ info \in Info /\ task[t].bri \in Info /\ \A u \in Tasks : u # t => task'[u] = task[u]
  BY TaskFields, TaskOfStep DEF TypeOK
<1>1. CASE Confirm(t) \/ Restream(t) \/ SetRestream(t)
  <2>1. /\ made' = made /\ room' = room /\ failures' = failures /\ restarts' = restarts
        /\ info' \in {info, GetOrCreate}
        /\ \E kind : \E pc \in {"post", "update"} :
             \E bri \in {info, Fill(info, "channel"), Fill(GetOrCreate, "channel"),
                         Clear(GetOrCreate, "channel")} :
                 Begin(t, kind, pc, NoBr, bri)
    BY <1>1 DEF Confirm, Restream, SetRestream, Begin, rows, rooms
  <2>2. GetOrCreate \in Info /\ (HasUrl(GetOrCreate) <=> HasUrl(info))
    BY <1>0, InfoTypes, SameUrl DEF GetOrCreate
  <2>3. Keeping(task'[t]) /\ task'[t].bri \in {info, Fill(info, "channel"),
            Fill(GetOrCreate, "channel"), Clear(GetOrCreate, "channel")}
    BY <2>1, BegunTask DEF Keeping
  <2>4. HasUrl(task'[t].bri) <=> HasUrl(info)
    <3>1. HasUrl(Fill(info, "channel")) <=> HasUrl(info)
      BY <1>0, SameUrl DEF Columns
    <3>2. /\ HasUrl(Fill(GetOrCreate, "channel")) <=> HasUrl(info)
          /\ HasUrl(Clear(GetOrCreate, "channel")) <=> HasUrl(info)
      BY <2>2, SameUrl DEF Columns
    <3>3. QED
      BY <2>3, <3>1, <3>2
  <2>5. room.pc = "idle"
    BY <2>1, <2>3 DEF RoomsApart
  <2>6. UrlKnown => HasUrl(info)
    BY <2>5 DEF UrlKnown
  <2>7. HasUrl(info) => HasUrl(info')
    BY <2>1, <2>2
  <2>8. QED
    BY <1>0, <2>1, <2>4, <2>6, <2>7, TaskUrl
<1>2. CASE ConfirmPost(t) \/ ConfirmClear(t) \/ RestreamPost(t)
  <2>1. made' = made /\ room' = room /\ info' = info /\ Keeping(task[t])
    BY <1>2 DEF ConfirmPost, ConfirmClear, RestreamPost, At, Keeping, rows, rooms
  <2>2. (\E ok : Count(ok)) /\ (HasUrl(task[t].bri) => HasUrl(task'[t].bri))
    <3>1. CASE ConfirmPost(t)
      <4> DEFINE bri(okT) == IF okT THEN Fill(task[t].bri, "tentative") ELSE task[t].bri
      <4>1. PICK okT \in BOOLEAN, okR \in BOOLEAN :
              /\ Count(okT /\ okR)
              /\ Goto(t, "clear", IF okR THEN Fill(bri(okT), "request") ELSE bri(okT))
        BY <3>1 DEF ConfirmPost
      <4>2. task'[t].bri \in {bri(okT), Fill(bri(okT), "request")}
        BY <4>1, WentTask
      <4>3. bri(okT) \in Info /\ (HasUrl(task[t].bri) => HasUrl(bri(okT)))
        <5>1. /\ Fill(task[t].bri, "tentative") \in Info
              /\ HasUrl(task[t].bri) => HasUrl(Fill(task[t].bri, "tentative"))
          BY <1>0, InfoTypes, SameUrl DEF Columns
        <5>2. QED
          BY <1>0, <5>1
      <4> HIDE DEF bri
      <4>4. HasUrl(bri(okT)) => HasUrl(Fill(bri(okT), "request"))
        BY <4>3, SameUrl DEF Columns
      <4>5. QED
        BY <4>1, <4>2, <4>3, <4>4
    <3>2. CASE ConfirmClear(t)
      <4>1. PICK ok \in BOOLEAN : Count(ok) /\ Goto(t, "update", ClearComm(task[t].bri, ok))
        BY <3>2 DEF ConfirmClear
      <4>2. task'[t].bri = ClearComm(task[t].bri, ok)
        BY <4>1, WentTask
      <4>3. HasUrl(ClearComm(task[t].bri, ok)) <=> HasUrl(task[t].bri)
        BY <1>0, SameUrl
      <4>4. QED
        BY <4>1, <4>2, <4>3
    <3>3. CASE RestreamPost(t)
      <4>1. PICK ok \in BOOLEAN :
              /\ Count(ok)
              /\ Goto(t, "update", IF ok THEN Clear(task[t].bri, "tentative") ELSE task[t].bri)
        BY <3>3 DEF RestreamPost
      <4>2. task'[t].bri \in {task[t].bri, Clear(task[t].bri, "tentative")}
        BY <4>1, WentTask
      <4>3. HasUrl(Clear(task[t].bri, "tentative")) <=> HasUrl(task[t].bri)
        BY <1>0, SameUrl DEF Columns
      <4>4. QED
        BY <4>1, <4>2, <4>3
    <3>4. QED
      BY <1>2, <3>1, <3>2, <3>3
  <2>3. QED
    BY <1>0, <2>1, <2>2, CountSteps, TaskUrl DEF UrlKnown
<1>3. CASE Signup(t)
  <2>1. /\ made' = made /\ room' = room /\ failures' = failures /\ restarts' = restarts
        /\ info' = info /\ Begin(t, "signup", "signup", NoBr, info)
    BY <1>3 DEF Signup, Begin, rows, rooms
  <2>2. ~Keeping(task'[t])
    BY <2>1, BegunTask DEF Keeping
  <2>3. QED
    BY <1>0, <2>1, <2>2, TaskUrl
<1>4. CASE SignupInsert(t) \/ TaskFails(t)
  <2>1. /\ made' = made /\ room' = room /\ restarts' = restarts
        /\ failures' = failures \/ failures' = failures + 1
        /\ info' = info /\ Done(t)
    BY <1>4, CountSteps DEF SignupInsert, TaskFails, rows, rooms, bounds
  <2>2. ~Keeping(task'[t])
    BY <2>1, DoneTask DEF Keeping, IdleTask
  <2>3. QED
    BY <1>0, <2>1, <2>2, TaskUrl
<1>5. CASE UpdateInfo(t)
  <2>1. /\ made' = made /\ room' = room /\ failures' = failures /\ restarts' = restarts
        /\ info' = task[t].bri /\ Done(t) /\ Keeping(task[t])
    BY <1>5 DEF UpdateInfo, rooms, bounds, Keeping
  <2>2. ~Keeping(task'[t])
    BY <2>1, DoneTask DEF Keeping, IdleTask
  <2>3. UrlKnown => UrlKnown'
    BY <1>0, <2>1, <2>2 DEF UrlKnown
  <2>4. QED
    BY <2>1, <2>3, UrlStays DEF RoomsInv
<1>6. QED
  BY <1>1, <1>2, <1>3, <1>4, <1>5 DEF Commentate

LEMMA RoomUrl ==
    ASSUME TypeOK, TypeOK', RoomsApart, RoomsInv, Rooms
    PROVE  RoomsInv'
<1>0. /\ info \in Info /\ room.bri \in Info /\ task' = task
  BY TasksStay DEF TypeOK
<1>1. CASE Upcoming \/ start_race_for
  <2>1. /\ made' = made /\ room' = room /\ failures' = failures /\ restarts' = restarts
        /\ info' = info
    BY <1>1 DEF Upcoming, start_race_for, rows, bounds
  <2>2. UrlKnown => UrlKnown'
    BY <1>0, <2>1 DEF UrlKnown
  <2>3. QED
    BY <2>1, <2>2, UrlStays DEF RoomsInv
<1>2. CASE RoomTake
  <2>1. /\ made' = made /\ failures' = failures /\ restarts' = restarts /\ info' = info
        /\ room.pc = "idle"
        /\ room' = IF HasUrl(info) THEN IdleRoom ELSE [pc |-> "create", bri |-> info]
    BY <1>2 DEF RoomTake, HasUrl, rows, bounds
  <2>2. UrlKnown => UrlKnown' /\ room'.pc = "idle"
    BY <1>0, <2>1 DEF UrlKnown, IdleRoom
  <2>3. room'.pc # "save"
    BY <2>1 DEF IdleRoom
  <2>4. QED
    BY <2>1, <2>2, <2>3, UrlStays
<1>3. CASE RoomCreate
  <2>1. room.pc = "create" /\ Spare /\ \A t \in Tasks : ~Keeping(task[t])
    BY <1>3 DEF RoomCreate, RoomsInv, UrlKnown, RoomsApart
  <2>2. CASE made' = made + 1 /\ room' = [pc |-> "save", bri |-> Fill(room.bri, "url")] /\ Count(TRUE)
    <3>1. Within'
      BY <2>1, <2>2, Bounds, LostOnce DEF Count
    <3>2. room'.pc = "save" /\ HasUrl(room'.bri)
      BY <1>0, <2>2, SameUrl
    <3>3. UrlKnown'
      BY <1>0, <2>1, <3>2 DEF UrlKnown
    <3>4. QED
      BY <3>1, <3>2, <3>3 DEF RoomsInv
  <2>3. CASE made' \in {made, made + 1} /\ room' = IdleRoom /\ Count(FALSE)
    <3>1. Lost' = Lost + 1
      BY <2>3, LostOnce DEF Count
    <3>2. Within' /\ Spare'
      BY <2>1, <2>3, <3>1, Bounds
    <3>3. QED
      BY <2>3, <3>2 DEF RoomsInv, IdleRoom
  <2>4. QED
    BY <1>3, <2>2, <2>3 DEF RoomCreate
<1>4. CASE RoomSave
  <2>1. /\ room.pc = "save" /\ HasUrl(room.bri) /\ made' = made /\ room' = IdleRoom
        /\ \A t \in Tasks : ~Keeping(task[t])
    BY <1>4 DEF RoomSave, RoomsInv, RoomsApart
  <2>2. CASE info' = room.bri /\ Count(TRUE)
    <3>1. failures' = failures /\ restarts' = restarts
      BY <2>2 DEF Count
    <3>2. UrlKnown' /\ room'.pc # "save"
      BY <1>0, <2>1, <2>2 DEF UrlKnown, IdleRoom
    <3>3. QED
      BY <2>1, <3>1, <3>2, UrlStays
  <2>3. CASE Count(FALSE)
    <3>1. Within' /\ Spare'
      BY <2>1, <2>3, Bounds, LostOnce DEF Count, RoomsInv
    <3>2. QED
      BY <2>1, <3>1 DEF RoomsInv, IdleRoom
  <2>4. QED
    BY <1>4, <2>2, <2>3 DEF RoomSave
<1>5. QED
  BY <1>1, <1>2, <1>3, <1>4 DEF Rooms

LEMMA ScanUrl ==
    ASSUME TypeOK, TypeOK', RoomsInv,
           \/ Scan \/ ScanFails \/ RemoveReaction \/ Commentators \/ UNCHANGED vars
           \/ Racetime
    PROVE  RoomsInv'
<1>0. /\ info \in Info /\ scan.bri \in Info /\ task' = task
  BY TasksStay DEF TypeOK, Scanner
<1>1. /\ made' = made /\ room' = room /\ restarts' = restarts
      /\ failures' = failures \/ failures' = failures + 1
      /\ info' \in {info, GetOrCreate, Fill(scan.bri, "url")}
  <2>1. CASE Scan
    BY <2>1, CountSteps DEF Scan, ScanLoad, ScanQuery, ScanNext, ScanUpdate, ScanFinish,
                            ScanAnnounce, Announced, rows, rooms, bounds
  <2>2. CASE \/ ScanFails \/ RemoveReaction \/ Commentators \/ UNCHANGED vars
             \/ Racetime
    BY <2>2, CountSteps DEF ScanFails, RemoveReaction, Commentators, Racetime, Play, OffThePage, vars, rows, rooms, bounds
  <2>3. QED
    BY <2>1, <2>2, Zenon
<1>2. HasUrl(info) => HasUrl(info')
  <2>1. HasUrl(GetOrCreate) <=> HasUrl(info)
    BY <1>0, SameUrl DEF GetOrCreate
  <2>2. HasUrl(Fill(scan.bri, "url"))
    BY <1>0, SameUrl
  <2>3. QED
    BY <1>1, <2>1, <2>2
<1>3. UrlKnown => UrlKnown'
  BY <1>0, <1>1, <1>2 DEF UrlKnown
<1>4. QED
  BY <1>1, <1>3, UrlStays DEF RoomsInv

LEMMA RoomsStep ==
    ASSUME TypeOK, TypeOK', RoomsApart, RoomsApart', RoomsInv, [Next]_vars
    PROVE  RoomsInv'
<1>1. CASE Restart
  <2>1. /\ made' = made /\ failures' = failures /\ restarts' = restarts + 1 /\ room' = IdleRoom
    BY <1>1 DEF Restart
  <2>2. Within' /\ Spare'
    BY <2>1, Bounds, LostOnce DEF RoomsInv
  <2>3. QED
    BY <2>1, <2>2 DEF RoomsInv, IdleRoom
<1>2. QED
  BY <1>1, ScheduleUrl, ReportUrl, CommentateUrl, RoomUrl, ScanUrl DEF Next

\* However many handlers run at once, a race gets one room per schedule, plus
\* one for each time its url was lost, as long as no command writes its copy of
\* the info back while a room is opened.  Scans, reports and signups may do as
\* they like.
THEOREM OneRoomUnlessOverlap == Spec /\ []RoomsApart => []OneRoom
<1>1. Init => RoomsInv
  <2>1. ASSUME Init PROVE RoomsInv
    <3>1. Within /\ Spare /\ room.pc # "save"
      BY <2>1 DEF Init, Within, Spare, Lost, IdleRoom
    <3>2. QED
      BY <3>1 DEF RoomsInv
  <2>2. QED
    BY <2>1
<1>2. TypeOK /\ TypeOK' /\ RoomsApart /\ RoomsApart' /\ RoomsInv /\ [Next]_vars => RoomsInv'
  BY RoomsStep
<1>3. TypeOK /\ RoomsInv => OneRoom
  <2>1. TypeOK => (failures + restarts) + 1 = 1 + failures + restarts
    BY CountersAreNat
  <2>2. QED
    BY <2>1 DEF RoomsInv, Within, Lost, OneRoom
<1>4. QED
  BY <1>1, <1>2, <1>3, TypeCorrect, PTL DEF Spec

-----------------------------------------------------------------------------
(* Posts and signups, when handlers overlap.                               *)

\* A command that has a copy of the info to write back; one that moves the race.
Copying(c) == c.pc \in {"wipe", "save", "clear", "post", "update"}

Rescheduling(c) == c.kind = "schedule" /\ Copying(c)

\* While a race is moved, nobody else has a copy of its info.
ScheduleApart ==
    \A t \in Tasks : Rescheduling(task[t]) =>
        /\ scan.pc = "idle" /\ room.pc = "idle"
        /\ \A u \in Tasks \ {t} : ~Copying(task[u]) /\ task[u].pc # "signup"

\* A copy that may be written back, or whose post may be looked up.
Good(bri) == bri.scheduled = info.scheduled /\ Advertised(bri)

Holding(c) ==
    c.pc = "signup" \/ (c.kind # "schedule" /\ c.pc \in {"clear", "post", "update"})

\* What holds of a command's copy.
TaskGood(c) ==
    /\ Holding(c) => Good(c.bri)
    /\ c.kind = "schedule" =>
        /\ c.pc \in {"wipe", "save", "clear", "post"} => OnlyPost(c.bri)
        /\ c.pc \in {"clear", "post", "update"} => c.bri.scheduled = info.scheduled
        /\ c.pc = "post" => c.bri.comm = 0
        /\ c.pc = "update" => Advertised(c.bri)
        /\ c.pc = "save" => signup \in {None, "by_admin"}

PostsInv ==
    Clean =>
        /\ Advertised(info) \/ \E t \in Tasks : Replacing(task[t])
        /\ \A t \in Tasks : TaskGood(task[t])
        /\ scan.pc = "idle" \/ Good(scan.bri)
        /\ room.pc = "idle" \/ Good(room.bri)
        /\ signup \in {None, "by_admin", info.scheduled}

\* Posts are at most deleted.
LEMMA GoodStays ==
    ASSUME TypeOK, info'.scheduled = info.scheduled, NEW x, post' = post \/ post' = Deleted(x),
           NEW b \in Info
    PROVE  /\ Advertised(b) => Advertised(b)'
           /\ Good(b) => Good(b)'
           /\ OnlyPost(b) => OnlyPost(b)'
<1>1. Advertised(b) => Advertised(b)'
  BY DeletedStays
<1>2. \A m \in PostIds : post'[m].state = "shown" => post[m].state = "shown"
  BY DeletedPost
<1>3. OnlyPost(b) => OnlyPost(b)'
  BY <1>2 DEF OnlyPost, PostIds
<1>4. QED
  BY <1>1, <1>3 DEF Good

LEMMA TaskGoodStays ==
    ASSUME TypeOK, info'.scheduled = info.scheduled, NEW x, post' = post \/ post' = Deleted(x),
           signup' \in {signup, None, "by_admin"}, NEW c \in Task, TaskGood(c)
    PROVE  TaskGood(c)'
<1>1. c.bri \in Info
  BY DEF Task
<1>2. QED
  BY <1>1, GoodStays DEF TaskGood

\* Copies that differ in nothing that matters here.
LEMMA AlikeGood ==
    ASSUME NEW b, NEW c, b.scheduled = c.scheduled, b.comm = c.comm
    PROVE  /\ Advertised(b) => Advertised(c)
           /\ Good(b) => Good(c)
           /\ OnlyPost(b) => OnlyPost(c)
BY DEF Advertised, Good, OnlyPost

\* Nobody moves the race while another has a copy.
LEMMA NothingMoves ==
    ASSUME PostsInv, Clean, \A t \in Tasks : ~Rescheduling(task[t])
    PROVE  Good(info)
BY DEF PostsInv, Good, Replacing, Rescheduling, Copying

\* A command takes a step; the posts are at most deleted, and the time stays.
LEMMA SteadyStep ==
    ASSUME TypeOK, PostsInv, Clean, info'.scheduled = info.scheduled,
           Advertised(info) => Advertised(info)',
           NEW x, post' = post \/ post' = Deleted(x), signup' \in {signup, None, "by_admin"},
           scan' = scan, room' = room, NEW t \in Tasks,
           \A u \in Tasks : u # t => task'[u] = task[u],
           NEW d, d = task'[t], TaskGood(d)',
           Replacing(task[t]) => Replacing(d)
    PROVE  PostsInv'
<1>1. \A u \in Tasks : TaskGood(task[u])'
  <2>1. ASSUME NEW u \in Tasks, u # t PROVE TaskGood(task[u])'
    <3>1. PICK c : c = task[u]
      OBVIOUS
    <3>2. c \in Task /\ TaskGood(c)
      BY <3>1 DEF TypeOK, PostsInv
    <3>3. TaskGood(c)'
      BY <3>2, TaskGoodStays
    <3>4. c = task'[u]
      BY <2>1, <3>1
    <3>5. QED
      BY <3>3, <3>4 DEF TaskGood, Holding
  <2>2. TaskGood(task[t])'
    BY DEF TaskGood, Holding
  <2>3. QED
    BY <2>1, <2>2
<1>2. Advertised(info)' \/ \E u \in Tasks : Replacing(task'[u])
  BY DEF PostsInv
<1>3. scan.bri \in Info /\ room.bri \in Info
  BY DEF TypeOK, Scanner
<1>4. /\ scan'.pc = "idle" \/ Good(scan.bri)'
      /\ room'.pc = "idle" \/ Good(room.bri)'
  <2>1. PICK b1, b2 : b1 = scan.bri /\ b2 = room.bri
    OBVIOUS
  <2>2. (Good(b1) => Good(b1)') /\ (Good(b2) => Good(b2)')
    BY <1>3, <2>1, GoodStays
  <2>3. QED
    BY <2>1, <2>2 DEF PostsInv, Good
<1>5. signup' \in {None, "by_admin", info'.scheduled}
  BY DEF PostsInv
<1>6. QED
  BY <1>1, <1>2, <1>4, <1>5 DEF PostsInv, Replacing

\* A command that moves the race takes a step.
LEMMA MovingStep ==
    ASSUME TypeOK, ScheduleApart, NEW t \in Tasks, Rescheduling(task[t]),
           \A u \in Tasks : u # t => task'[u] = task[u], scan' = scan, room' = room,
           NEW d, d = task'[t],
           Clean' => /\ TaskGood(d)'
                     /\ Advertised(info)' \/ Replacing(d)
                     /\ signup' \in {None, "by_admin", info'.scheduled}
    PROVE  PostsInv'
<1>1. scan.pc = "idle" /\ room.pc = "idle"
  BY DEF ScheduleApart
<1>2. \A u \in Tasks : u # t => TaskGood(task[u])'
  <2>1. \A u \in Tasks : u # t => ~Copying(task[u]) /\ task[u].pc # "signup"
    BY DEF ScheduleApart
  <2>2. \A u \in Tasks : u # t => ~Copying(task'[u]) /\ task'[u].pc # "signup"
    BY <2>1
  <2>3. QED
    BY <2>2 DEF TaskGood, Holding, Copying
<1>3. Clean' => TaskGood(task[t])'
  BY DEF TaskGood, Holding
<1>4. QED
  BY <1>1, <1>2, <1>3 DEF PostsInv, Replacing

\* After a failure nothing is promised.
LEMMA FailedStep == ASSUME TypeOK, PostsInv, Clean', NEW ok, Count(ok) PROVE ok /\ Clean
BY CountGrows

LEMMA SchedulePosted ==
    ASSUME TypeOK, PostInv, ScheduleApart, ScheduleApart', PostsInv, Clean, Clean',
           NEW t \in Tasks, Schedule(t)
    PROVE  PostsInv'
<1>0. /\ info \in Info /\ task[t].bri \in Info /\ \A u \in Tasks : u # t => task'[u] = task[u]
      /\ TaskGood(task[t])
  BY TaskFields, TaskOfStep DEF TypeOK, PostsInv
<1> PICK d : d = task'[t]
  OBVIOUS
<1>1. CASE ScheduleRead(t)
  <2>1. /\ info' = info /\ post' = post /\ signup' = signup /\ scan' = scan /\ room' = room
        /\ d.pc = "info"
    BY <1>1, BegunTask DEF ScheduleRead, rows, posts, rooms
  <2>2. TaskGood(d)' /\ ~Replacing(task[t])
    BY <1>1, <2>1 DEF TaskGood, Holding, Replacing, ScheduleRead, Begin
  <2>3. Advertised(info) => Advertised(info)'
    BY <2>1 DEF Advertised, OnlyPost, PostIds
  <2>4. QED
    BY <1>0, <2>1, <2>2, <2>3, SteadyStep
<1>2. CASE ScheduleInfo(t)
  <2>1. /\ task[t].pc = "info" /\ task[t].kind = "schedule"
        /\ info' = GetOrCreate /\ post' = post /\ signup' = signup /\ scan' = scan /\ room' = room
        /\ d.pc = "wipe" /\ d.kind = "schedule" /\ d.bri = GetOrCreate
    BY <1>2, WentTask DEF ScheduleInfo, At, posts, rooms
  <2>2. GetOrCreate.scheduled = info.scheduled /\ GetOrCreate.comm = info.comm
    BY <1>0 DEF GetOrCreate, Info
  <2>3. \A u \in Tasks : ~Rescheduling(task[u])
    <3>1. Rescheduling(task'[t])
      BY <2>1 DEF Rescheduling, Copying
    <3>2. \A u \in Tasks : u # t => ~Copying(task'[u])
      BY <3>1 DEF ScheduleApart
    <3>3. ~Copying(task[t])
      BY <2>1 DEF Copying
    <3>4. QED
      BY <1>0, <3>2, <3>3 DEF Rescheduling
  <2>4. Advertised(info)
    BY <2>3, NothingMoves DEF Good
  <2>5. Advertised(GetOrCreate)
    BY <2>2, <2>4, AlikeGood
  <2>6. Advertised(info)'
    BY <2>1, <2>5 DEF Advertised, OnlyPost, PostIds
  <2>7. TaskGood(d)'
    BY <2>1, <2>5 DEF TaskGood, Holding, Advertised, OnlyPost, PostIds
  <2>8. ~Replacing(task[t])
    BY <2>1 DEF Replacing
  <2>9. QED
    BY <1>0, <2>1, <2>2, <2>6, <2>7, <2>8, SteadyStep
<1>3. CASE ScheduleWipe(t)
  <2>1. PICK when \in Times : Goto(t, "save", Rescheduled(task[t].bri, when))
    BY <1>3 DEF ScheduleWipe
  <2>2. /\ task[t].pc = "wipe" /\ task[t].kind = "schedule"
        /\ info' = info /\ post' = post /\ signup' = None /\ scan' = scan /\ room' = room
        /\ d.pc = "save" /\ d.kind = "schedule" /\ d.bri = Rescheduled(task[t].bri, when)
    BY <1>3, <2>1, WentTask DEF ScheduleWipe, At, posts, rooms
  <2>3. d.bri.comm = task[t].bri.comm
    BY <1>0, <2>2 DEF Rescheduled, Clear, Info
  <2>4. OnlyPost(d.bri)
    BY <1>0, <2>2, <2>3 DEF TaskGood, OnlyPost
  <2>5. OnlyPost(d.bri)'
    BY <2>2, <2>4 DEF OnlyPost, PostIds
  <2>6. TaskGood(d)'
    BY <2>2, <2>5 DEF TaskGood, Holding
  <2>7. ~Replacing(task[t])
    BY <2>2 DEF Replacing
  <2>8. Advertised(info) => Advertised(info)'
    BY <2>2 DEF Advertised, OnlyPost, PostIds
  <2>9. QED
    BY <1>0, <2>2, <2>6, <2>7, <2>8, SteadyStep
<1>4. CASE ScheduleSave(t)
  <2>1. /\ task[t].pc = "save" /\ task[t].kind = "schedule"
        /\ info' = task[t].bri /\ post' = post /\ signup' = signup /\ scan' = scan /\ room' = room
        /\ d.pc = "clear" /\ d.kind = "schedule" /\ d.bri = task[t].bri
    BY <1>4, WentTask DEF ScheduleSave, At, posts
  <2>2. OnlyPost(d.bri) /\ signup \in {None, "by_admin"}
    BY <1>0, <2>1 DEF TaskGood
  <2>3. OnlyPost(d.bri)'
    BY <2>1, <2>2 DEF OnlyPost, PostIds
  <2>4. TaskGood(d)' /\ Replacing(d)
    BY <2>1, <2>3 DEF TaskGood, Holding, Replacing
  <2>5. Rescheduling(task[t])
    BY <2>1 DEF Rescheduling, Copying
  <2>6. QED
    BY <1>0, <2>1, <2>2, <2>4, <2>5, MovingStep
<1>5. CASE ScheduleClear(t)
  <2>1. PICK okComm \in BOOLEAN, okTentative \in BOOLEAN :
           /\ Count(okComm /\ okTentative)
           /\ post' = IF okComm THEN Deleted(task[t].bri) ELSE post
           /\ Goto(t, "post", IF okTentative THEN Clear(ClearComm(task[t].bri, okComm), "tentative")
                             ELSE ClearComm(task[t].bri, okComm))
    BY <1>5 DEF ScheduleClear
  <2>2. okComm /\ okTentative
    BY <2>1, FailedStep
  <2>3. /\ task[t].pc = "clear" /\ task[t].kind = "schedule"
        /\ info' = info /\ signup' = signup /\ scan' = scan /\ room' = room
        /\ post' = Deleted(task[t].bri)
        /\ Goto(t, "post", Clear(ClearComm(task[t].bri, TRUE), "tentative"))
    BY <1>5, <2>1, <2>2 DEF ScheduleClear, At, rows, rooms
  <2>4. /\ d.pc = "post" /\ d.kind = "schedule"
        /\ d.bri = Clear(ClearComm(task[t].bri, TRUE), "tentative")
    BY <2>3, WentTask
  <2>5. d.bri.comm = 0 /\ d.bri.scheduled = task[t].bri.scheduled
    BY <1>0, <2>4 DEF Clear, ClearComm, Info
  <2>6. OnlyPost(task[t].bri) /\ task[t].bri.scheduled = info.scheduled
    BY <1>0, <2>3 DEF TaskGood
  <2>7. \A m \in PostIds : post'[m].state # "shown"
    BY <2>3, <2>6, DeletedPost DEF OnlyPost
  <2>8. OnlyPost(d.bri)'
    BY <2>7 DEF OnlyPost, PostIds
  <2>9. TaskGood(d)' /\ Replacing(d)
    BY <2>3, <2>4, <2>5, <2>6, <2>8 DEF TaskGood, Holding, Replacing
  <2>10. Advertised(info) => Advertised(info)'
    BY <1>0, <2>3, DeletedStays DEF Advertised, OnlyPost, PostIds
  <2>11. QED
    BY <1>0, <2>3, <2>9, <2>10, SteadyStep
<1>6. CASE SchedulePost(t)
  <2> DEFINE bri == task[t].bri
             m == CHOOSE k \in PostIds : post[k].state = "unsent"
             made1 == [post EXCEPT ![m] = [state |-> "shown", time |-> bri.scheduled]]
  <2>1. \/ post' = made1 /\ Goto(t, "update", [bri EXCEPT !.comm = m]) /\ Count(TRUE)
        \/ Count(FALSE)
    BY <1>6 DEF SchedulePost
  <2>2. m \in PostIds
    <3>1. t \in Posting
      BY <1>6 DEF SchedulePost, At, Posting
    <3>2. QED
      BY <3>1, PostIsLeft DEF PostInv
  <2> HIDE DEF m
  <2>3. post' = made1 /\ Goto(t, "update", [bri EXCEPT !.comm = m])
    BY <2>1, FailedStep
  <2>4. /\ task[t].pc = "post" /\ task[t].kind = "schedule"
        /\ info' = info /\ signup' = signup /\ scan' = scan /\ room' = room
        /\ d.pc = "update" /\ d.kind = "schedule" /\ d.bri = [bri EXCEPT !.comm = m]
    BY <1>6, <2>3, WentTask DEF SchedulePost, At, rows, rooms
  <2>5. OnlyPost(bri) /\ bri.comm = 0 /\ bri.scheduled = info.scheduled
    BY <1>0, <2>4 DEF TaskGood
  <2>6. \A k \in PostIds : post[k].state # "shown"
    BY <2>5 DEF OnlyPost, PostIds
  <2>7. d.bri.comm = m /\ d.bri.scheduled = info.scheduled
    BY <1>0, <2>4, <2>5 DEF Info
  <2>8. /\ \A k \in PostIds : post'[k].state = "shown" => k = m
        /\ post'[m].time = info.scheduled
    BY <2>2, <2>3, <2>5, <2>6 DEF TypeOK
  <2>9. Advertised(d.bri)'
    BY <2>4, <2>7, <2>8 DEF Advertised, OnlyPost, PostIds
  <2>10. TaskGood(d)' /\ Replacing(d)
    BY <2>4, <2>7, <2>9 DEF TaskGood, Holding, Replacing
  <2>11. Rescheduling(task[t]) /\ signup' \in {None, "by_admin", info'.scheduled}
    BY <2>4 DEF Rescheduling, Copying, PostsInv
  <2>12. QED
    BY <1>0, <2>4, <2>10, <2>11, MovingStep
<1>7. QED
  BY <1>1, <1>2, <1>3, <1>4, <1>5, <1>6 DEF Schedule

LEMMA ReportPosted ==
    ASSUME TypeOK, PostsInv, Clean, Clean', NEW t \in Tasks, Report(t)
    PROVE  PostsInv'
<1>0. /\ info \in Info /\ \A u \in Tasks : u # t => task'[u] = task[u]
  BY TaskOfStep DEF TypeOK
<1> PICK d : d = task'[t]
  OBVIOUS
<1>1. /\ signup' = signup /\ scan' = scan /\ room' = room
      /\ info' \in {info, GetOrCreate}
      /\ post' = post \/ \E x : post' = Deleted(x)
  BY DEF Report, ReportRead, ReportInfo, Finish, Announce, Announced, rows, posts, rooms
<1>2. ~Copying(d) /\ d.pc # "signup"
  <2>1. CASE ReportRead(t)
    BY <2>1, BegunTask DEF ReportRead, Copying
  <2>2. CASE ReportInfo(t)
    <3>1. Done(t) \/ Goto(t, "finish", GetOrCreate)
      BY <2>2 DEF ReportInfo
    <3>2. QED
      BY <3>1, WentTask, DoneTask DEF Copying, IdleTask
  <2>3. CASE Finish(t)
    <3>1. task'[t].pc = "announce"
      BY <2>3 DEF Finish, TypeOK, Task
    <3>2. QED
      BY <3>1 DEF Copying
  <2>4. CASE Announce(t)
    BY <2>4, DoneTask DEF Announce, Copying, IdleTask
  <2>5. QED
    BY <2>1, <2>2, <2>3, <2>4 DEF Report
<1>3. TaskGood(d)'
  BY <1>2 DEF TaskGood, Holding, Copying
<1>4. ~Replacing(task[t])
  BY DEF Report, ReportRead, ReportInfo, Finish, Announce, Begin, At, Replacing
<1>5. info'.scheduled = info.scheduled /\ info'.comm = info.comm
  BY <1>0, <1>1 DEF GetOrCreate, Info
<1>6. Advertised(info) => Advertised(info)'
  <2>1. PICK b : b = info
    OBVIOUS
  <2>2. Advertised(b) => Advertised(b)'
    BY <1>0, <1>1, <1>5, <2>1, GoodStays
  <2>3. QED
    BY <1>5, <2>1, <2>2 DEF Advertised, OnlyPost
<1>7. QED
  BY <1>0, <1>1, <1>3, <1>4, <1>5, <1>6, SteadyStep

\* A command, or a signup, begins with a copy of the info.
LEMMA BeginsGood ==
    ASSUME PostsInv, Clean, ScheduleApart', NEW t \in Tasks, task[t].pc = "idle",
           \A u \in Tasks : u # t => task'[u] = task[u],
           Copying(task'[t]) \/ task'[t].pc = "signup", task'[t].kind # "schedule"
    PROVE  Good(info)
<1>1. ~Rescheduling(task[t])
  BY DEF Rescheduling, Copying
<1>2. \A u \in Tasks : u # t => ~Rescheduling(task'[u])
  BY DEF ScheduleApart
<1>3. QED
  BY <1>1, <1>2, NothingMoves

LEMMA CommentatePosted ==
    ASSUME TypeOK, PostInv, ScheduleApart, ScheduleApart', PostsInv, Clean, Clean',
           NEW t \in Tasks, Commentate(t)
    PROVE  PostsInv'
<1>0. /\ info \in Info /\ task[t].bri \in Info /\ \A u \in Tasks : u # t => task'[u] = task[u]
      /\ TaskGood(task[t])
  BY TaskFields, TaskOfStep DEF TypeOK, PostsInv
<1> PICK d : d = task'[t]
  OBVIOUS
<1>1. CASE Confirm(t) \/ Signup(t) \/ Restream(t) \/ SetRestream(t)
  <2>1. /\ post' = post /\ signup' = signup /\ scan' = scan /\ room' = room
        /\ info' \in {info, GetOrCreate} /\ task[t].pc = "idle"
    BY <1>1 DEF Confirm, Signup, Restream, SetRestream, Begin, rows, posts, rooms
  <2>2. /\ d.pc \in {"post", "signup", "update"} /\ d.kind # "schedule"
        /\ d.bri \in {info, Fill(info, "channel"), Fill(GetOrCreate, "channel"),
                      Clear(GetOrCreate, "channel")}
    <3>1. \E kind, pc, bri :
             /\ Begin(t, kind, pc, NoBr, bri)
             /\ kind # "schedule" /\ pc \in {"post", "signup", "update"}
             /\ bri \in {info, Fill(info, "channel"), Fill(GetOrCreate, "channel"),
                         Clear(GetOrCreate, "channel")}
      BY <1>1 DEF Confirm, Signup, Restream, SetRestream
    <3>2. QED
      BY <3>1, BegunTask
  <2>3. GetOrCreate.scheduled = info.scheduled /\ GetOrCreate.comm = info.comm
    BY <1>0 DEF GetOrCreate, Info
  <2>4. d.bri.scheduled = info.scheduled /\ d.bri.comm = info.comm
    <3>1. Fill(info, "channel").scheduled = info.scheduled /\ Fill(info, "channel").comm = info.comm
      BY <1>0 DEF Fill, Info
    <3>2. \A b \in {Fill(GetOrCreate, "channel"), Clear(GetOrCreate, "channel")} :
             b.scheduled = info.scheduled /\ b.comm = info.comm
      BY <1>0, <2>3 DEF Fill, Clear, GetOrCreate, Info
    <3>3. QED
      BY <2>2, <3>1, <3>2
  <2>5. Good(info)
    BY <1>0, <2>1, <2>2, BeginsGood DEF Copying
  <2>6. Advertised(info)' /\ info'.scheduled = info.scheduled
    BY <2>1, <2>3, <2>5 DEF Good, Advertised, OnlyPost, PostIds
  <2>7. Good(d.bri)'
    BY <2>1, <2>4, <2>5, <2>6 DEF Good, Advertised, OnlyPost, PostIds
  <2>8. TaskGood(d)'
    BY <2>2, <2>7 DEF TaskGood, Good
  <2>9. ~Replacing(task[t])
    BY <2>1 DEF Replacing
  <2>10. QED
    BY <1>0, <2>1, <2>6, <2>8, <2>9, SteadyStep
<1>2. CASE ConfirmPost(t) \/ RestreamPost(t)
  <2>1. /\ info' = info /\ post' = post /\ signup' = signup /\ scan' = scan /\ room' = room
        /\ task[t].kind \in {"confirm", "restream"} /\ task[t].pc = "post"
    BY <1>2 DEF ConfirmPost, RestreamPost, At, rows, posts, rooms
  <2>2. PICK new \in Info :
           /\ new.scheduled = task[t].bri.scheduled /\ new.comm = task[t].bri.comm
           /\ Goto(t, "clear", new) \/ Goto(t, "update", new)
    <3>1. \A b \in Info : \A col \in Columns :
             /\ Fill(b, col) \in Info /\ Clear(b, col) \in Info
             /\ Fill(b, col).scheduled = b.scheduled /\ Fill(b, col).comm = b.comm
             /\ Clear(b, col).scheduled = b.scheduled /\ Clear(b, col).comm = b.comm
      BY DEF Fill, Clear, Info, Columns
    <3>2. "tentative" \in Columns /\ "request" \in Columns
      BY DEF Columns
    <3>3. CASE ConfirmPost(t)
      <4> DEFINE bri(okT) == IF okT THEN Fill(task[t].bri, "tentative") ELSE task[t].bri
      <4>1. PICK okT \in BOOLEAN, okR \in BOOLEAN :
              Goto(t, "clear", IF okR THEN Fill(bri(okT), "request") ELSE bri(okT))
        BY <3>3 DEF ConfirmPost
      <4>2. /\ bri(okT) \in Info /\ bri(okT).scheduled = task[t].bri.scheduled
            /\ bri(okT).comm = task[t].bri.comm
        BY <1>0, <3>1, <3>2
      <4> HIDE DEF bri
      <4>3. QED
        BY <3>1, <3>2, <4>1, <4>2
    <3>4. CASE RestreamPost(t)
      <4>1. Goto(t, "update", task[t].bri) \/ Goto(t, "update", Clear(task[t].bri, "tentative"))
        BY <3>4 DEF RestreamPost
      <4>2. QED
        BY <1>0, <3>1, <3>2, <4>1
    <3>5. QED
      BY <1>2, <3>3, <3>4
  <2>3. /\ d.bri = new /\ d.kind = task[t].kind /\ d.pc \in {"clear", "update"}
    BY <2>2, WentTask
  <2>4. Good(task[t].bri)
    BY <1>0, <2>1 DEF TaskGood, Holding
  <2>5. Good(d.bri)
    BY <2>2, <2>3, <2>4, AlikeGood
  <2>6. Good(d.bri)'
    BY <2>1, <2>5 DEF Good, Advertised, OnlyPost, PostIds
  <2>7. TaskGood(d)'
    BY <2>1, <2>3, <2>6 DEF TaskGood, Good
  <2>8. ~Replacing(task[t])
    BY <2>1 DEF Replacing
  <2>9. Advertised(info) => Advertised(info)'
    BY <2>1 DEF Advertised, OnlyPost, PostIds
  <2>10. QED
    BY <1>0, <2>1, <2>7, <2>8, <2>9, SteadyStep
<1>3. CASE ConfirmClear(t)
  <2>1. PICK ok \in BOOLEAN :
           /\ Count(ok) /\ post' = IF ok THEN Deleted(task[t].bri) ELSE post
           /\ Goto(t, "update", ClearComm(task[t].bri, ok))
    BY <1>3 DEF ConfirmClear
  <2>2. ok
    BY <2>1, FailedStep
  <2>3. /\ info' = info /\ signup' = signup /\ scan' = scan /\ room' = room
        /\ task[t].kind = "confirm" /\ task[t].pc = "clear"
        /\ post' = Deleted(task[t].bri) /\ Goto(t, "update", ClearComm(task[t].bri, TRUE))
    BY <1>3, <2>1, <2>2 DEF ConfirmClear, At, rows, rooms
  <2>4. /\ d.pc = "update" /\ d.kind = "confirm" /\ d.bri = ClearComm(task[t].bri, TRUE)
    BY <2>3, WentTask
  <2>5. d.bri.comm = 0 /\ d.bri.scheduled = task[t].bri.scheduled
    BY <1>0, <2>4 DEF ClearComm, Info
  <2>6. OnlyPost(task[t].bri) /\ task[t].bri.scheduled = info.scheduled
    BY <1>0, <2>3 DEF TaskGood, Holding, Good, Advertised
  <2>7. \A m \in PostIds : post'[m].state # "shown"
    BY <2>3, <2>6, DeletedPost DEF OnlyPost
  <2>8. Good(d.bri)'
    BY <2>3, <2>5, <2>6, <2>7 DEF Good, Advertised, OnlyPost, PostIds
  <2>9. TaskGood(d)' /\ ~Replacing(task[t])
    BY <2>3, <2>4, <2>8 DEF TaskGood, Replacing
  <2>10. Advertised(info) => Advertised(info)'
    BY <1>0, <2>3, DeletedStays DEF Advertised, OnlyPost, PostIds
  <2>11. QED
    BY <1>0, <2>3, <2>9, <2>10, SteadyStep
<1>4. CASE SignupInsert(t)
  <2>1. /\ info' = info /\ post' = post /\ scan' = scan /\ room' = room
        /\ task[t].pc = "signup" /\ d = IdleTask
        /\ signup' = IF signup = None THEN post[task[t].bri.comm].time ELSE signup
    BY <1>4, DoneTask DEF SignupInsert, posts, rooms
  <2>2. \A u \in Tasks : ~Rescheduling(task[u])
    BY <2>1 DEF ScheduleApart, Rescheduling, Copying
  <2>3. task[t].bri.comm \in PostIds /\ Good(task[t].bri)
    BY <1>0, <2>1 DEF PostInv, SignupsArePosted, TaskGood, Holding
  <2>4. post[task[t].bri.comm].time = info.scheduled
    BY <2>3 DEF Good, Advertised, PostIds
  <2>5. signup' \in {None, "by_admin", info'.scheduled}
    BY <2>1, <2>4 DEF PostsInv
  <2>6. Good(info)
    BY <2>2, NothingMoves
  <2>7. \A b : Good(b) => Good(b)'
    BY <2>1 DEF Good, Advertised, OnlyPost, PostIds
  <2>8. \A u \in Tasks : TaskGood(task[u])'
    <3>1. ASSUME NEW u \in Tasks, u # t PROVE TaskGood(task[u])'
      <4>1. PICK c : c = task[u]
        OBVIOUS
      <4>2. TaskGood(c) /\ ~Rescheduling(c)
        BY <2>2, <4>1 DEF PostsInv
      <4>3. TaskGood(c)'
        BY <2>7, <4>2 DEF TaskGood, Rescheduling, Copying
      <4>4. c = task'[u]
        BY <1>0, <3>1, <4>1
      <4>5. QED
        BY <4>3, <4>4 DEF TaskGood, Holding
    <3>2. TaskGood(task[t])'
      BY <2>1 DEF TaskGood, Holding, IdleTask
    <3>3. QED
      BY <3>1, <3>2
  <2>9. /\ Advertised(info)'
        /\ scan'.pc = "idle" \/ Good(scan.bri)'
        /\ room'.pc = "idle" \/ Good(room.bri)'
    <3>1. PICK b0, b1, b2 : b0 = info /\ b1 = scan.bri /\ b2 = room.bri
      OBVIOUS
    <3>2. (Good(b0) => Good(b0)') /\ (Good(b1) => Good(b1)') /\ (Good(b2) => Good(b2)')
      BY <2>7
    <3>3. QED
      BY <2>1, <2>6, <3>1, <3>2 DEF PostsInv, Good
  <2>10. QED
    BY <2>5, <2>8, <2>9 DEF PostsInv
<1>5. QED
  BY <1>1, <1>2, <1>3, <1>4 DEF Commentate

LEMMA UpdatePosted ==
    ASSUME TypeOK, ScheduleApart, PostsInv, Clean, NEW t \in Tasks, UpdateInfo(t)
    PROVE  PostsInv'
<1> PICK b : b = task[t].bri
  OBVIOUS
<1>1. /\ b \in Info /\ TaskGood(task[t]) /\ task[t].pc = "update"
      /\ info' = b /\ post' = post /\ signup' = signup /\ scan' = scan /\ room' = room
      /\ task'[t] = IdleTask /\ \A u \in Tasks : u # t => task'[u] = task[u]
  BY TaskFields, DoneTask DEF UpdateInfo, TypeOK, PostsInv, posts, rooms
<1>2. TaskGood(IdleTask)'
  BY DEF TaskGood, Holding, IdleTask
<1>3. b.scheduled = info.scheduled /\ Advertised(b)
  BY <1>1 DEF TaskGood, Holding, Good
<1>4. Advertised(info)'
  BY <1>1, <1>3 DEF Advertised, OnlyPost, PostIds
<1>5. CASE Rescheduling(task[t])
  BY <1>1, <1>2, <1>3, <1>4, <1>5, MovingStep DEF PostsInv
<1>6. CASE ~Rescheduling(task[t])
  <2>1. ~Replacing(task[t])
    BY <1>6 DEF Rescheduling, Copying, Replacing
  <2>2. QED
    BY <1>1, <1>2, <1>3, <1>4, <2>1, SteadyStep
<1>7. QED
  BY <1>5, <1>6

\* A copy that somebody has: he is done with it, or it is good.
Fine(c) == c.pc = "idle" \/ (c.bri \in Info /\ Good(c.bri))

\* No command takes a step.
LEMMA WorldStep ==
    ASSUME TypeOK, PostsInv, Clean, task' = task, info'.scheduled = info.scheduled,
           Advertised(info) => Advertised(info)',
           NEW x, post' = post \/ post' = Deleted(x), signup' \in {signup, None, "by_admin"},
           NEW s, s = scan', Fine(s), NEW q, q = room', Fine(q)
    PROVE  PostsInv'
<1>1. \A u \in Tasks : TaskGood(task[u])'
  <2> SUFFICES ASSUME NEW u \in Tasks PROVE TaskGood(task[u])'
    OBVIOUS
  <2> PICK c : c = task[u]
    OBVIOUS
  <2>1. c \in Task /\ TaskGood(c)
    BY DEF TypeOK, PostsInv
  <2>2. TaskGood(c)'
    BY <2>1, TaskGoodStays
  <2>3. QED
    BY <2>2 DEF TaskGood, Holding
<1>2. /\ scan'.pc = "idle" \/ Good(scan.bri)'
      /\ room'.pc = "idle" \/ Good(room.bri)'
  <2>1. PICK b1, b2 : b1 = s.bri /\ b2 = q.bri
    OBVIOUS
  <2>2. /\ s.pc = "idle" \/ Good(b1)'
        /\ q.pc = "idle" \/ Good(b2)'
    BY <2>1, GoodStays DEF Fine
  <2>3. QED
    BY <2>1, <2>2 DEF Good
<1>3. Advertised(info)' \/ \E u \in Tasks : Replacing(task'[u])
  BY DEF PostsInv
<1>4. signup' \in {None, "by_admin", info'.scheduled}
  BY DEF PostsInv
<1>5. QED
  BY <1>1, <1>2, <1>3, <1>4 DEF PostsInv, Replacing

LEMMA CopiesFine == ASSUME TypeOK, PostsInv, Clean PROVE Fine(scan) /\ Fine(room)
BY DEF TypeOK, Scanner, PostsInv, Fine

\* The scanner, or the loop that opens rooms, gets a copy.
LEMMA NoneMoves ==
    ASSUME PostsInv, Clean, ScheduleApart', task' = task, scan'.pc # "idle" \/ room'.pc # "idle"
    PROVE  Good(info)
<1>1. \A t \in Tasks : ~Rescheduling(task[t])
  BY DEF ScheduleApart
<1>2. QED
  BY <1>1, NothingMoves

\* A copy is saved that differs in nothing that matters here.
LEMMA SavesGood ==
    ASSUME NEW b, Good(b), post' = post, info'.scheduled = b.scheduled, info'.comm = b.comm
    PROVE  info'.scheduled = info.scheduled /\ Advertised(info)'
BY DEF Good, Advertised, OnlyPost, PostIds

LEMMA ScanPosted ==
    ASSUME TypeOK, ScheduleApart', PostsInv, Clean, Clean', Scan
    PROVE  PostsInv'
<1> PICK s, q : s = scan' /\ q = room'
  OBVIOUS
<1>0. /\ info \in Info /\ scan.bri \in Info /\ task' = task /\ signup' = signup /\ room' = room
      /\ Fine(scan) /\ Fine(room)
  BY CopiesFine DEF Scan, ScanLoad, ScanQuery, ScanNext, ScanUpdate, ScanFinish, ScanAnnounce,
         Announced, TypeOK, Scanner, rows, rooms
<1>1. CASE ScanLoad
  <2>1. s.pc = "query" /\ s.bri = info /\ info' = info /\ post' = post
    BY <1>1 DEF ScanLoad, IdleScan, rows, posts
  <2>2. Good(info) /\ Fine(s)
    BY <1>0, <2>1, NoneMoves DEF Fine
  <2>3. Advertised(info) => Advertised(info)'
    BY <2>1 DEF Advertised, OnlyPost, PostIds
  <2>4. QED
    BY <1>0, <2>1, <2>2, <2>3, WorldStep
<1>2. CASE ScanUpdate
  <2>1. /\ info' = Fill(scan.bri, "url") /\ post' = post /\ scan.pc = "update"
        /\ s = [scan EXCEPT !.pc = "finish"]
    BY <1>2, FailedStep DEF ScanUpdate, posts
  <2>2. info'.scheduled = scan.bri.scheduled /\ info'.comm = scan.bri.comm
    BY <1>0, <2>1 DEF Fill, Info
  <2>3. Good(scan.bri)
    BY <2>1 DEF PostsInv
  <2>4. info'.scheduled = info.scheduled /\ Advertised(info)'
    BY <2>1, <2>2, <2>3, SavesGood
  <2>5. s.bri = scan.bri
    BY <2>1 DEF TypeOK, Scanner
  <2>6. Fine(s)
    BY <1>0, <2>3, <2>5 DEF Fine
  <2>7. QED
    BY <1>0, <2>1, <2>4, <2>6, WorldStep
<1>3. CASE ScanQuery \/ ScanNext \/ ScanFinish \/ ScanAnnounce
  <2>1. /\ info' = info /\ scan.pc # "idle"
        /\ post' = post \/ post' = Deleted(scan.bri)
    BY <1>3 DEF ScanQuery, ScanNext, ScanFinish, ScanAnnounce, Announced, rows, posts
  <2>2. s = IdleScan \/ s.bri = scan.bri
    BY <1>3 DEF ScanQuery, ScanNext, ScanFinish, ScanAnnounce, TypeOK, Scanner
  <2>3. Fine(s)
    BY <1>0, <2>1, <2>2 DEF Fine, IdleScan
  <2>4. Advertised(info) => Advertised(info)'
    <3>1. PICK b : b = info
      OBVIOUS
    <3>2. Advertised(b) => Advertised(b)'
      BY <1>0, <2>1, <3>1, GoodStays
    <3>3. QED
      BY <2>1, <3>1, <3>2 DEF Advertised, OnlyPost
  <2>5. QED
    BY <1>0, <2>1, <2>3, <2>4, WorldStep
<1>4. QED
  BY <1>1, <1>2, <1>3 DEF Scan

LEMMA RoomsPosted ==
    ASSUME TypeOK, ScheduleApart', PostsInv, Clean, Clean', Rooms
    PROVE  PostsInv'
<1> PICK s, q : s = scan' /\ q = room'
  OBVIOUS
<1>0. /\ info \in Info /\ room.bri \in Info /\ task' = task /\ signup' = signup
      /\ scan' = scan /\ post' = post /\ Fine(scan) /\ Fine(room)
  BY CopiesFine
  DEF Rooms, Upcoming, start_race_for, RoomTake, RoomCreate, RoomSave, TypeOK, rows, posts
<1>1. CASE RoomTake
  <2>1. info' = info /\ (q = IdleRoom \/ q = [pc |-> "create", bri |-> info])
    BY <1>1 DEF RoomTake, rows
  <2>2. q.pc # "idle" => Good(info)
    BY <1>0, NoneMoves
  <2>3. Advertised(info) => Advertised(info)'
    BY <1>0, <2>1 DEF Advertised, OnlyPost, PostIds
  <2>4. Fine(q)
    BY <1>0, <2>1, <2>2 DEF Fine, IdleRoom
  <2>5. QED
    BY <1>0, <2>1, <2>3, <2>4, WorldStep
<1>2. CASE RoomCreate
  <2>1. info' = info /\ room.pc = "create" /\ q = [pc |-> "save", bri |-> Fill(room.bri, "url")]
    BY <1>2, FailedStep DEF RoomCreate, rows
  <2>2. Good(room.bri)
    BY <2>1 DEF PostsInv
  <2>3. q.bri \in Info /\ q.bri.scheduled = room.bri.scheduled /\ q.bri.comm = room.bri.comm
    BY <1>0, <2>1 DEF Fill, Info, Columns
  <2>4. Fine(q)
    BY <2>2, <2>3, AlikeGood DEF Fine
  <2>5. Advertised(info) => Advertised(info)'
    BY <1>0, <2>1 DEF Advertised, OnlyPost, PostIds
  <2>6. QED
    BY <1>0, <2>1, <2>4, <2>5, WorldStep
<1>3. CASE RoomSave
  <2>1. info' = room.bri /\ q = IdleRoom /\ room.pc = "save"
    BY <1>3, FailedStep DEF RoomSave
  <2>2. Good(room.bri) /\ Fine(q)
    BY <2>1 DEF PostsInv, Fine, IdleRoom
  <2>3. info'.scheduled = info.scheduled /\ Advertised(info)'
    BY <1>0, <2>1, <2>2, SavesGood
  <2>4. QED
    BY <1>0, <2>1, <2>2, <2>3, WorldStep
<1>4. CASE Upcoming \/ start_race_for
  <2>1. info' = info /\ room' = room
    BY <1>4 DEF Upcoming, start_race_for, rows
  <2>2. Advertised(info) => Advertised(info)'
    BY <1>0, <2>1 DEF Advertised, OnlyPost, PostIds
  <2>3. QED
    BY <1>0, <2>1, <2>2, WorldStep
<1>5. QED
  BY <1>1, <1>2, <1>3, <1>4 DEF Rooms

LEMMA OthersPosted ==
    ASSUME TypeOK, PostsInv, Clean, UNCHANGED vars \/ RemoveReaction \/ Commentators
                                    \/ Racetime
    PROVE  PostsInv'
<1>1. /\ info \in Info /\ info' \in {info, GetOrCreate} /\ post' = post /\ task' = task
      /\ scan' = scan /\ room' = room /\ signup' \in {signup, None, "by_admin"}
  BY DEF RemoveReaction, Commentators, Racetime, Play, OffThePage, TypeOK, vars, rows, posts, rooms
<1>2. info'.scheduled = info.scheduled /\ info'.comm = info.comm
  BY <1>1 DEF GetOrCreate, Info
<1>3. Advertised(info) => Advertised(info)'
  BY <1>1, <1>2 DEF Advertised, OnlyPost, PostIds
<1>4. Fine(scan) /\ Fine(room)
  BY CopiesFine
<1>5. QED
  BY <1>1, <1>2, <1>3, <1>4, WorldStep

LEMMA NextPosted ==
    ASSUME TypeOK, PostInv, ScheduleApart, ScheduleApart', PostsInv, [Next]_vars
    PROVE  PostsInv'
<1> SUFFICES ASSUME Clean' PROVE PostsInv'
  BY DEF PostsInv
<1>1. Clean
  BY CleanBefore
<1>2. ASSUME NEW t \in Tasks,
             Schedule(t) \/ Report(t) \/ Commentate(t) \/ UpdateInfo(t) \/ TaskFails(t)
      PROVE  PostsInv'
  <2>1. ~TaskFails(t)
    BY FailedStep DEF TaskFails
  <2>2. QED
    BY <1>1, <1>2, <2>1, SchedulePosted, ReportPosted, CommentatePosted, UpdatePosted
<1>3. ~ScanFails
  BY FailedStep DEF ScanFails
<1>4. ~Restart
  BY DEF Restart, Clean, TypeOK
<1>5. CASE Scan \/ Rooms
  BY <1>1, <1>5, ScanPosted, RoomsPosted
<1>6. CASE UNCHANGED vars \/ RemoveReaction \/ Commentators \/ Racetime
  BY <1>1, <1>6, OthersPosted
<1>7. QED
  BY <1>2, <1>3, <1>4, <1>5, <1>6 DEF Next

LEMMA PostsInvariant == Spec /\ []ScheduleApart => []PostsInv
<1>1. Spec => [](TypeOK /\ PostInv)
  BY InitTypes, InitPosts, NextTypes, PTL DEF Spec
<1>2. Init => PostsInv
  BY DEF Init, PostsInv, Advertised, OnlyPost, NoInfo, TaskGood, Holding, IdleTask, IdleScan,
         IdleRoom
<1>3. TypeOK /\ PostInv /\ ScheduleApart /\ ScheduleApart' /\ PostsInv /\ [Next]_vars => PostsInv'
  BY NextPosted
<1>4. QED
  BY <1>1, <1>2, <1>3, PTL DEF Spec

\* However many handlers run at once: if nobody holds a copy of the info while a
\* schedule command has one to write back, then once all is done and nothing has
\* failed, the posts that are shown are the one recorded, at the recorded time.
\* Confirmations, restreams, scans and rooms may overlap, and so may reports.
THEOREM PostsUnlessOverlap == Spec /\ []ScheduleApart => []AnnouncedIsRecorded
<1>1. PostsInv => AnnouncedIsRecorded
  BY DEF PostsInv, AnnouncedIsRecorded, Undisturbed, Quiet, Busy, Clean, Replacing, Advertised,
         OnlyPost, PostIds
<1>2. QED
  BY <1>1, PostsInvariant, PTL

\* Under the same condition, nobody is left signed up for a time the race no
\* longer takes place at.
THEOREM SignupsUnlessOverlap == Spec /\ []ScheduleApart => []SignupIsForTheScheduledTime
<1>1. PostsInv => SignupIsForTheScheduledTime
  BY DEF PostsInv, SignupIsForTheScheduledTime, Undisturbed, Clean
<1>2. QED
  BY <1>1, PostsInvariant, PTL

\* None of these conditions asks more than that the bot handles one thing at a
\* time: with MaxBusy = 1 all of them hold.
THEOREM AloneIsApart ==
    ASSUME MaxBusy = 1
    PROVE  Spec => [](FinishesApart /\ ResultsOneByOne /\ RoomsApart /\ ScheduleApart)
<1>1. TypeOK /\ OneAtATime
        => FinishesApart /\ ResultsOneByOne /\ RoomsApart /\ ScheduleApart
  <2> SUFFICES ASSUME TypeOK, OneAtATime
               PROVE  FinishesApart /\ ResultsOneByOne /\ RoomsApart /\ ScheduleApart
    OBVIOUS
  <2>1. CASE \A t \in Tasks : task[t].pc = "idle"
    BY <2>1 DEF FinishesApart, ResultsOneByOne, RoomsApart, ScheduleApart, Scheduling,
                Announcing, Keeping, Rescheduling, Copying
  <2>2. CASE \E t \in Tasks : task[t].pc # "idle"
    <3>1. PICK t \in Tasks : OnlyTask(t)
      BY <2>2, TaskAtWork
    <3>2. /\ scan.pc = "idle" /\ room.pc = "idle"
          /\ \A u \in Tasks : u # t => task[u].pc = "idle"
      BY <3>1 DEF OnlyTask, Busy
    <3>3. Scheduling(task[t]) => task[t].pc # "finish"
      BY DEF Scheduling
    <3>4. QED
      BY <3>2, <3>3 DEF FinishesApart, ResultsOneByOne, RoomsApart, ScheduleApart, Scheduling,
                  Announcing, Keeping, Rescheduling, Copying
  <2>3. QED
    BY <2>1, <2>2
<1>2. QED
  BY <1>1, HandlersAlone, TypeCorrect, PTL

=============================================================================
