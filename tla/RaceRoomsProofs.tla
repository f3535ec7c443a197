--------------------------- MODULE RaceRoomsProofs ---------------------------
(***************************************************************************)
(* Players who are told of their room can enter it, and are told once, and *)
(* which season a room is opened for: for any number of races, rooms,      *)
(* handlers, commands, failures and restarts.                              *)
(***************************************************************************)
EXTENDS RaceRooms, FiniteSetTheorems, TLAPS

\* Somebody can enter the room, or racetime failed to open it.
Enter(r) == r.open \/ r.invited \/ r.shut

\* Infos are created one for each race.
InfosInv ==
    LET scheduled == {bri[i] : i \in 1..Len(bri)}
    IN IsFiniteSet(scheduled) /\ Cardinality(scheduled) = Len(bri)

\* The bot knows, handles and announces only rooms whose url is saved, and no
\* room is opened in the place of one of those.
SavedInv ==
    /\ creator.pc = "open" => creator.i \notin saved
    /\ creator.pc = "learn" => creator.i \in saved
    /\ learned \subseteq saved
    /\ \A h \in Handlers : pair[h] = NoPair \/ pair[h].room \in saved
    /\ \A i \in Infos : posted[i] > 0 => i \in saved

\* A controller announces a room that can be entered.
AnnounceInv ==
    \A h \in Handlers : pair[h].controller = "announce" => Enter(room[pair[h].room])

IInv == TypeOK /\ InfosInv /\ SavedInv /\ AnnounceInv /\ PlayersCanEnter

-----------------------------------------------------------------------------
(* Values.                                                                  *)

LEMMA InfosType ==
    /\ IsFiniteSet(Races) /\ Cardinality(Races) \in Nat \ {0} /\ 1 \in Infos
<1>1. IsFiniteSet(Races) /\ Races # {}
    BY RacesAssumption DEF RacesAssumption
<1>2. Cardinality(Races) \in Nat /\ Cardinality(Races) # 0
    BY <1>1, FS_CardinalityType, FS_EmptySet
<1> QED BY <1>1, <1>2 DEF Infos

LEMMA NoRoomType == NoRoom \in Room
<1>1. (CHOOSE s \in Seasons : TRUE) \in Seasons
    BY RacesAssumption DEF RacesAssumption
<1> QED BY <1>1 DEF NoRoom, Room

LEMMA NoPairType ==
    /\ NoPair \in Pair /\ NoPair.room = 0
    /\ NoPair.controller = "none" /\ NoPair.handler = "none"
<1>1. 0 \in 0..Capacity
    BY BoundsAssumption DEF BoundsAssumption
<1> QED BY <1>1 DEF NoPair, Pair

LEMMA TroubleType ==
    ASSUME TypeOK, Fine \/ \E n \in Nat : Trouble(n)
    PROVE  troubles' \in 0..MaxTroubles
<1>1. troubles \in 0..MaxTroubles /\ MaxTroubles \in Nat
    BY BoundsAssumption DEF TypeOK, BoundsAssumption
<1>2. CASE Fine
    BY <1>1, <1>2 DEF Fine
<1>3. CASE \E n \in Nat : Trouble(n)
    <2>1. PICK n \in Nat : troubles + n <= MaxTroubles /\ troubles' = troubles + n
        BY <1>3 DEF Trouble
    <2> QED BY <1>1, <2>1
<1> QED BY <1>2, <1>3

\* What is known of a Handler and its controller.
LEMMA PairType ==
    ASSUME IInv, NEW h \in Handlers
    PROVE  /\ pair[h] \in Pair
           /\ pair[h].asked \in BOOLEAN /\ pair[h].should_end \in BOOLEAN /\ pair[h].cut \in BOOLEAN
           /\ pair[h].commands \in 0..Capacity
           /\ \/ pair[h].controller = "none" /\ pair[h].handler = "none"
              \/ /\ pair[h].room \in saved /\ pair[h].room \in Infos
                 /\ room[pair[h].room] \in Room
<1>1. pair[h] \in Pair /\ saved \subseteq Infos /\ room \in [Infos -> Room]
    BY DEF IInv, TypeOK
<1>2. pair[h] = NoPair \/ pair[h].room \in saved
    BY DEF IInv, SavedInv
<1>3. /\ pair[h].asked \in BOOLEAN /\ pair[h].should_end \in BOOLEAN /\ pair[h].cut \in BOOLEAN
      /\ pair[h].commands \in 0..Capacity
    BY <1>1 DEF Pair
<1> QED BY <1>1, <1>2, <1>3, NoPairType

LEMMA InitIInv == Init => IInv
<1> SUFFICES ASSUME Init PROVE IInv
    OBVIOUS
<1>1. TypeOK
    <2>1. bri \in Seq(Races) /\ Len(bri) <= Cardinality(Races)
        BY InfosType DEF Init
    <2>2. creator \in [pc : {"idle", "open", "save", "learn"}, i : Infos]
        BY InfosType DEF Init
    <2>3. room \in [Infos -> Room] /\ pair \in [Handlers -> Pair]
        BY NoRoomType, NoPairType DEF Init
    <2>4. commands \in 0..MaxCommands /\ troubles \in 0..MaxTroubles
        BY BoundsAssumption DEF Init, BoundsAssumption
    <2> QED BY <2>1, <2>2, <2>3, <2>4 DEF Init, TypeOK
<1>2. InfosInv
    <2>1. {bri[i] : i \in 1..Len(bri)} = {}
        BY DEF Init
    <2> QED BY <2>1, FS_EmptySet DEF Init, InfosInv
<1>3. SavedInv
    BY DEF Init, SavedInv
<1>4. AnnounceInv
    BY NoPairType DEF Init, AnnounceInv
<1>5. PlayersCanEnter
    BY DEF Init, PlayersCanEnter
<1> QED BY <1>1, <1>2, <1>3, <1>4, <1>5 DEF IInv

-----------------------------------------------------------------------------
(* Opening rooms.                                                           *)

LEMMA ScheduledIInv == ASSUME IInv, Scheduled PROVE IInv'
<1>1. PICK r \in Races \ {bri[i] : i \in 1..Len(bri)} : bri' = Append(bri, r)
    BY DEF Scheduled
<1> DEFINE before == {bri[i] : i \in 1..Len(bri)}
           after == {bri'[i] : i \in 1..Len(bri')}
<1>2. IsFiniteSet(before) /\ Cardinality(before) = Len(bri)
    BY DEF IInv, InfosInv
<1>a. bri \in Seq(Races) /\ Len(bri) \in Nat
    BY DEF IInv, TypeOK
<1>b. r \in Races /\ r \notin before /\ bri' = Append(bri, r)
    BY <1>1
<1> HIDE DEF before, after
<1>3. /\ bri' \in Seq(Races) /\ Len(bri') = Len(bri) + 1
      /\ bri'[Len(bri')] = r /\ \A i \in 1..Len(bri) : bri'[i] = bri[i]
    BY <1>a, <1>b
<1>4. after = before \cup {r}
    <2>2. \A x \in after : x \in before \cup {r}
        <3> SUFFICES ASSUME NEW i \in 1..Len(bri') PROVE bri'[i] \in before \cup {r}
            BY DEF after
        <3>1. i \in 1..Len(bri) \/ i = Len(bri')
            BY <1>a, <1>3
        <3>2. \A k \in 1..Len(bri) : bri[k] \in before
            BY DEF before
        <3> QED BY <1>3, <3>1, <3>2
    <2>3. \A x \in before : x \in after
        <3> SUFFICES ASSUME NEW i \in 1..Len(bri) PROVE bri[i] \in after
            BY DEF before
        <3>1. i \in 1..Len(bri') /\ bri'[i] = bri[i]
            BY <1>a, <1>3
        <3> QED BY <3>1 DEF after
    <2>4. r \in after
        <3>1. Len(bri') \in 1..Len(bri')
            BY <1>a, <1>3
        <3> QED BY <1>3, <3>1 DEF after
    <2> QED BY <2>2, <2>3, <2>4
<1>5. IsFiniteSet(after) /\ Cardinality(after) = Len(bri')
    BY <1>2, <1>3, <1>4, <1>b, FS_AddElement
<1>6. Len(bri') <= Cardinality(Races)
    <2>1. after \subseteq Races
        <3> SUFFICES ASSUME NEW i \in 1..Len(bri') PROVE bri'[i] \in Races
            BY DEF after
        <3> QED BY <1>3
    <2> QED BY <1>5, <2>1, InfosType, FS_Subset
<1>c. InfosInv'
    BY <1>5 DEF InfosInv, after
<1>7. TypeOK' /\ InfosInv'
    BY <1>3, <1>6, <1>c DEF Scheduled, IInv, TypeOK
<1> QED BY <1>7 DEF Scheduled, IInv, SavedInv, AnnounceInv, PlayersCanEnter

LEMMA RequestIInv == ASSUME IInv, Request \/ create_rooms PROVE IInv'
<1>1. 1..Len(bri) \subseteq Infos
    BY InfosType DEF IInv, TypeOK, Infos
<1>2. CASE Request
    <2>1. TypeOK'
        BY <1>1, <1>2 DEF Request, IInv, TypeOK
    <2> QED BY <1>2, <2>1
            DEF Request, IInv, InfosInv, SavedInv, AnnounceInv, PlayersCanEnter
<1>3. CASE create_rooms
    <2>1. PICK i \in requests :
            creator' = IF i \in saved THEN creator ELSE [pc |-> "open", i |-> i]
        BY <1>3 DEF create_rooms
    <2>2. TypeOK'
        BY <1>3, <2>1 DEF create_rooms, IInv, TypeOK
    <2>3. SavedInv'
        BY <1>3, <2>1 DEF create_rooms, IInv, SavedInv
    <2> QED BY <1>3, <2>2, <2>3
            DEF create_rooms, IInv, InfosInv, AnnounceInv, PlayersCanEnter
<1> QED BY <1>2, <1>3

\* The room that is opened is not one that is handled or announced.
LEMMA CreateRoomIInv == ASSUME IInv, create_room_for_race PROVE IInv'
<1> DEFINE i == creator.i
<1>1. i \in Infos /\ i \notin saved
    BY DEF create_room_for_race, IInv, TypeOK, SavedInv
<1>2. /\ room' \in [Infos -> Room] /\ \A j \in Infos \ {i} : room'[j] = room[j]
    <2>1. CASE room' = room
        BY <2>1 DEF IInv, TypeOK
    <2>2. CASE \E j \in InfosFound(i) :
                 room' = [room EXCEPT ![i] = [NoRoom EXCEPT !.status = "live",
                                                            !.season = SeasonOf[bri[j]]]]
        <3>1. PICK j \in InfosFound(i) :
                 room' = [room EXCEPT ![i] = [NoRoom EXCEPT !.status = "live",
                                                            !.season = SeasonOf[bri[j]]]]
            BY <2>2
        <3>a. j \in 1..Len(bri) /\ bri \in Seq(Races)
            BY DEF InfosFound, IInv, TypeOK
        <3>b. bri[j] \in Races
            BY <3>a
        <3>2. SeasonOf[bri[j]] \in Seasons
            BY <3>b, RacesAssumption DEF RacesAssumption
        <3>3. [NoRoom EXCEPT !.status = "live", !.season = SeasonOf[bri[j]]] \in Room
            BY <3>2, NoRoomType DEF Room
        <3> DEFINE new == [NoRoom EXCEPT !.status = "live", !.season = SeasonOf[bri[j]]]
        <3>4. room' = [room EXCEPT ![i] = new] /\ new \in Room
            BY <3>1, <3>3
        <3> HIDE DEF new
        <3> QED BY <1>1, <3>4 DEF IInv, TypeOK
    <2> QED BY <2>1, <2>2 DEF create_room_for_race
<1>3. creator' \in [pc : {"save", "idle"}, i : Infos]
    <2>1. creator \in [pc : {"idle", "open", "save", "learn"}, i : Infos]
        BY DEF IInv, TypeOK
    <2>2. \E pc \in {"save", "idle"} : creator' = [creator EXCEPT !.pc = pc]
        BY DEF create_room_for_race
    <2> QED BY <2>1, <2>2
<1>4. troubles' \in 0..MaxTroubles
    BY TroubleType DEF create_room_for_race, Fails, IInv
<1>5. UNCHANGED <<bri, requests, saved, learned, pair, posted, late, commands>>
    BY DEF create_room_for_race
<1>6. TypeOK'
    BY <1>2, <1>3, <1>4, <1>5 DEF IInv, TypeOK
<1>7. SavedInv' /\ InfosInv'
    BY <1>3, <1>5 DEF IInv, SavedInv, InfosInv
<1>8. AnnounceInv'
    <2> SUFFICES ASSUME NEW h \in Handlers, pair[h].controller = "announce"
                 PROVE  Enter(room'[pair[h].room])
        BY <1>5 DEF AnnounceInv
    <2>1. pair[h].room \in saved /\ saved \subseteq Infos
        BY NoPairType DEF IInv, SavedInv, TypeOK
    <2> QED BY <1>1, <1>2, <2>1 DEF IInv, AnnounceInv
<1>9. PlayersCanEnter'
    BY <1>1, <1>2, <1>5 DEF IInv, SavedInv, PlayersCanEnter
<1> QED BY <1>6, <1>7, <1>8, <1>9 DEF IInv

LEMMA LearnIInv == ASSUME IInv, handle_one_bri \/ learn_about_bri PROVE IInv'
<1>1. creator.i \in Infos
    BY DEF IInv, TypeOK
<1>2. CASE handle_one_bri
    <2>1. troubles' \in 0..MaxTroubles
        BY <1>2, TroubleType DEF handle_one_bri, Fails, IInv
    <2>2. TypeOK'
        BY <1>1, <1>2, <2>1 DEF handle_one_bri, IInv, TypeOK
    <2>3. SavedInv'
        BY <1>1, <1>2 DEF handle_one_bri, IInv, TypeOK, SavedInv
    <2> QED BY <1>2, <2>2, <2>3
            DEF handle_one_bri, IInv, InfosInv, AnnounceInv, PlayersCanEnter
<1>3. CASE learn_about_bri
    <2>1. TypeOK'
        BY <1>1, <1>3 DEF learn_about_bri, IInv, TypeOK
    <2>2. SavedInv'
        BY <1>1, <1>3 DEF learn_about_bri, IInv, TypeOK, SavedInv
    <2> QED BY <1>3, <2>1, <2>2
            DEF learn_about_bri, IInv, InfosInv, AnnounceInv, PlayersCanEnter
<1> QED BY <1>2, <1>3

-----------------------------------------------------------------------------
(* The Handlers and the controllers.                                        *)

\* A step of a Handler or its controller.
LEMMA PairStep ==
    ASSUME IInv, NEW h \in Handlers, NEW x \in Pair,
           pair' = [pair EXCEPT ![h] = x], x.room \in saved,
           room' \in [Infos -> Room],
           \A i \in saved : Enter(room[i]) => Enter(room'[i]),
           x.controller = "announce" => Enter(room'[x.room]),
           posted' \in [Infos -> Nat],
           \A i \in Infos : posted'[i] > 0 => posted[i] > 0 \/ (i \in saved /\ Enter(room[i])),
           learned' \subseteq learned, late' \in Nat, commands' \in 0..MaxCommands,
           troubles' \in 0..MaxTroubles,
           UNCHANGED <<bri, requests, creator, saved>>
    PROVE  IInv'
<1>1. pair' \in [Handlers -> Pair] /\ saved \subseteq Infos
    BY DEF IInv, TypeOK
<1>2. TypeOK'
    BY <1>1 DEF IInv, TypeOK
<1>3. \A g \in Handlers : pair'[g] = IF g = h THEN x ELSE pair[g]
    BY DEF IInv, TypeOK
<1>4. InfosInv'
    BY DEF IInv, InfosInv
<1>5. SavedInv'
    BY <1>3 DEF IInv, SavedInv
<1>6. AnnounceInv'
    <2> SUFFICES ASSUME NEW g \in Handlers, pair'[g].controller = "announce"
                 PROVE  Enter(room'[pair'[g].room])
        BY DEF AnnounceInv
    <2>1. CASE g = h
        BY <1>3, <2>1
    <2>2. CASE g # h
        <3>1. pair[g].controller = "announce" /\ pair'[g] = pair[g]
            BY <1>3, <2>2
        <3>2. pair[g].room \in saved /\ Enter(room[pair[g].room])
            BY <3>1, PairType DEF IInv, AnnounceInv
        <3> QED BY <3>1, <3>2
    <2> QED BY <2>1, <2>2
<1>7. PlayersCanEnter'
    <2> SUFFICES ASSUME NEW i \in Infos, posted'[i] > 0 PROVE Enter(room'[i])
        BY DEF PlayersCanEnter, Enter
    <2>1. i \in saved /\ Enter(room[i])
        BY DEF IInv, SavedInv, PlayersCanEnter, Enter
    <2> QED BY <2>1
<1> QED BY <1>2, <1>4, <1>5, <1>6, <1>7 DEF IInv

\* A change of the room that is handled leaves a room that can be entered so.
LEMMA RoomStep ==
    ASSUME IInv, NEW i \in saved, NEW r \in Room, Enter(room[i]) => Enter(r),
           room' = [room EXCEPT ![i] = r]
    PROVE  /\ room' \in [Infos -> Room] /\ room'[i] = r
           /\ \A j \in saved : Enter(room[j]) => Enter(room'[j])
<1>1. room \in [Infos -> Room] /\ saved \subseteq Infos
    BY DEF IInv, TypeOK
<1> QED BY <1>1

LEMMA RoomStays ==
    ASSUME IInv, UNCHANGED room
    PROVE  /\ room' \in [Infos -> Room]
           /\ \A j \in saved : Enter(room[j]) => Enter(room'[j])
BY DEF IInv, TypeOK

LEMMA SayStep ==
    ASSUME IInv, NEW i \in saved, Say(i)
    PROVE  /\ room' \in [Infos -> Room] /\ troubles' \in 0..MaxTroubles
           /\ \A j \in saved : Enter(room[j]) => Enter(room'[j])
<1>1. room[i] \in Room /\ TypeOK
    BY DEF IInv, TypeOK
<1>2. troubles' \in 0..MaxTroubles
    BY <1>1, TroubleType DEF Say, Fails
<1>3. CASE UNCHANGED room
    BY <1>2, <1>3, RoomStays
<1>4. CASE room' = [room EXCEPT ![i].greeted = TRUE]
    <2> DEFINE r == [room[i] EXCEPT !.greeted = TRUE]
    <2>1. r \in Room /\ (Enter(room[i]) => Enter(r))
        BY <1>1 DEF Room, Enter
    <2>2. room' = [room EXCEPT ![i] = r]
        BY <1>4
    <2> HIDE DEF r
    <2> QED BY <1>2, <2>1, <2>2, RoomStep
<1> QED BY <1>3, <1>4 DEF Say

\* What a step that only moves the pair leaves as it is.
LEMMA Rest ==
    ASSUME IInv
    PROVE  /\ posted \in [Infos -> Nat] /\ late \in Nat /\ commands \in 0..MaxCommands
           /\ troubles \in 0..MaxTroubles
BY DEF IInv, TypeOK

LEMMA StartIInv == ASSUME IInv, NEW h \in Handlers, StartHandler(h) PROVE IInv'
<1>1. PICK i \in learned :
        pair' = [pair EXCEPT ![h].room = i, ![h].handler = "running", ![h].controller = "ask"]
    BY DEF StartHandler
<1>2. i \in saved /\ i \in Infos
    BY DEF IInv, SavedInv, TypeOK
<1> DEFINE x == [pair[h] EXCEPT !.room = i, !.handler = "running", !.controller = "ask"]
<1>3. pair[h] \in Pair
    BY PairType
<1>4. x \in Pair /\ x.room = i /\ x.controller = "ask"
    BY <1>2, <1>3 DEF Pair
<1>5. pair' = [pair EXCEPT ![h] = x]
    BY <1>1
<1> HIDE DEF x
<1> QED BY <1>2, <1>4, <1>5, RoomStays, Rest, PairStep DEF StartHandler

LEMMA CommandIInv == ASSUME IInv, NEW h \in Handlers, Command(h) PROVE IInv'
<1> DEFINE x == IF pair[h].controller = "gone" THEN [pair[h] EXCEPT !.should_end = TRUE]
                ELSE IF pair[h].commands < Capacity
                     THEN [pair[h] EXCEPT !.commands = @ + 1]
                     ELSE [pair[h] EXCEPT !.handler = "blocked"]
<1>1. pair[h].handler = "running" /\ commands < MaxCommands /\ commands' = commands + 1
    BY DEF Command
<1>2. pair[h] \in Pair /\ pair[h].room \in saved /\ pair[h].commands \in 0..Capacity
    BY <1>1, PairType
<1>3. x \in Pair /\ x.room = pair[h].room /\ x.controller = pair[h].controller
    <2>1. pair[h].commands < Capacity => pair[h].commands + 1 \in 0..Capacity
        BY <1>2, BoundsAssumption DEF BoundsAssumption
    <2> QED BY <1>2, <2>1 DEF Pair
<1>4. pair' = [pair EXCEPT ![h] = x]
    BY DEF Command
<1>5. commands' \in 0..MaxCommands
    BY <1>1, Rest, BoundsAssumption DEF BoundsAssumption
<1>6. x.controller = "announce" => Enter(room[x.room])
    BY <1>3 DEF IInv, AnnounceInv
<1> HIDE DEF x
<1> QED BY <1>2, <1>3, <1>4, <1>5, <1>6, RoomStays, Rest, PairStep DEF Command

LEMMA UnblockIInv == ASSUME IInv, NEW h \in Handlers, Unblock(h) PROVE IInv'
<1>1. pair[h].handler = "blocked"
    BY DEF Unblock
<1>2. pair[h] \in Pair /\ pair[h].room \in saved /\ pair[h].commands \in 0..Capacity
    BY <1>1, PairType
<1>3. PICK x \in Pair : /\ pair' = [pair EXCEPT ![h] = x]
                        /\ x.room = pair[h].room /\ x.controller = pair[h].controller
    <2>1. CASE pair' = [pair EXCEPT ![h].handler = "running", ![h].should_end = TRUE]
        <3> DEFINE x == [pair[h] EXCEPT !.handler = "running", !.should_end = TRUE]
        <3>1. x \in Pair /\ x.room = pair[h].room /\ x.controller = pair[h].controller
            BY <1>2 DEF Pair
        <3>2. pair' = [pair EXCEPT ![h] = x]
            BY <2>1
        <3> HIDE DEF x
        <3> QED BY <3>1, <3>2
    <2>2. CASE /\ pair[h].commands < Capacity
               /\ pair' = [pair EXCEPT ![h].handler = "running", ![h].commands = @ + 1]
        <3> DEFINE x == [pair[h] EXCEPT !.handler = "running", !.commands = @ + 1]
        <3>1. pair[h].commands + 1 \in 0..Capacity
            BY <1>2, <2>2, BoundsAssumption DEF BoundsAssumption
        <3>2. x \in Pair /\ x.room = pair[h].room /\ x.controller = pair[h].controller
            BY <1>2, <3>1 DEF Pair
        <3>3. pair' = [pair EXCEPT ![h] = x]
            BY <2>2
        <3> HIDE DEF x
        <3> QED BY <3>2, <3>3
    <2> QED BY <2>1, <2>2 DEF Unblock
<1>4. x.controller = "announce" => Enter(room[x.room])
    BY <1>3 DEF IInv, AnnounceInv
<1> QED BY <1>2, <1>3, <1>4, RoomStays, Rest, PairStep DEF Unblock

LEMMA chat_historyIInv == ASSUME IInv, NEW h \in Handlers, chat_history(h) PROVE IInv'
<1> DEFINE x == IF pair[h].controller = "gone"
                THEN [pair[h] EXCEPT !.handler = "gone", !.asked = FALSE]
                ELSE [pair[h] EXCEPT !.asked = FALSE,
                                     !.history = IF room[pair[h].room].greeted
                                                 THEN "greeted" ELSE "fresh"]
<1>1. pair[h].handler = "running"
    BY DEF chat_history
<1>2. pair[h] \in Pair /\ pair[h].room \in saved
    BY <1>1, PairType
<1>3. x \in Pair /\ x.room = pair[h].room /\ x.controller = pair[h].controller
    BY <1>2 DEF Pair
<1>4. pair' = [pair EXCEPT ![h] = x]
    BY DEF chat_history
<1>5. x.controller = "announce" => Enter(room[x.room])
    BY <1>3 DEF IInv, AnnounceInv
<1> HIDE DEF x
<1> QED BY <1>2, <1>3, <1>4, <1>5, RoomStays, Rest, PairStep DEF chat_history

\* The room is opened, or could not be.
LEMMA errorIInv == ASSUME IInv, NEW h \in Handlers, error(h) PROVE IInv'
<1> DEFINE i == pair[h].room
<1>1. pair[h].handler = "running"
    BY DEF error
<1>2. pair[h] \in Pair /\ i \in saved /\ room[i] \in Room
    BY <1>1, PairType
<1>3. PICK r \in Room : Enter(r) /\ room' = [room EXCEPT ![i] = r]
    <2>1. CASE room' = [room EXCEPT ![i].invited = FALSE, ![i].refused = FALSE, ![i].open = TRUE]
        <3> DEFINE r == [room[i] EXCEPT !.invited = FALSE, !.refused = FALSE, !.open = TRUE]
        <3>1. r \in Room /\ Enter(r)
            BY <1>2 DEF Room, Enter
        <3>2. room' = [room EXCEPT ![i] = r]
            BY <2>1
        <3> HIDE DEF r
        <3> QED BY <3>1, <3>2
    <2>2. CASE room' = [room EXCEPT ![i].invited = FALSE, ![i].refused = FALSE, ![i].shut = TRUE]
        <3> DEFINE r == [room[i] EXCEPT !.invited = FALSE, !.refused = FALSE, !.shut = TRUE]
        <3>1. r \in Room /\ Enter(r)
            BY <1>2 DEF Room, Enter
        <3>2. room' = [room EXCEPT ![i] = r]
            BY <2>2
        <3> HIDE DEF r
        <3> QED BY <3>1, <3>2
    <2> QED BY <2>1, <2>2 DEF error
<1>4. /\ room' \in [Infos -> Room]
      /\ \A j \in saved : Enter(room[j]) => Enter(room'[j])
    BY <1>2, <1>3, RoomStep
<1>5. troubles' \in 0..MaxTroubles
    BY TroubleType DEF error, Fails, IInv
<1>6. pair' = [pair EXCEPT ![h] = pair[h]]
    BY DEF error, IInv, TypeOK
<1>7. pair[h].controller = "announce" => Enter(room'[pair[h].room])
    BY <1>2, <1>4 DEF IInv, AnnounceInv
<1> QED BY <1>2, <1>4, <1>5, <1>6, <1>7, Rest, PairStep DEF error

LEMMA LeaveIInv ==
    ASSUME IInv, NEW h \in Handlers, StopHandler(h) \/ DropHandler(h) PROVE IInv'
<1>1. pair[h].handler \in {"running", "blocked"}
    BY DEF StopHandler, DropHandler
<1>2. pair[h] \in Pair /\ pair[h].room \in saved /\ room[pair[h].room] \in Room
    BY <1>1, PairType
<1>3. PICK x \in Pair : /\ pair' = [pair EXCEPT ![h] = x]
                        /\ x.room = pair[h].room /\ x.controller = pair[h].controller
    <2>1. CASE StopHandler(h)
        <3> DEFINE x == [pair[h] EXCEPT !.handler = "gone", !.asked = FALSE]
        <3>1. x \in Pair /\ x.room = pair[h].room /\ x.controller = pair[h].controller
            BY <1>2 DEF Pair
        <3>2. pair' = [pair EXCEPT ![h] = x]
            BY <2>1 DEF StopHandler
        <3> HIDE DEF x
        <3> QED BY <3>1, <3>2
    <2>2. CASE DropHandler(h)
        <3> DEFINE greeted == room[pair[h].room].greeted
                   x == [pair[h] EXCEPT !.handler = "gone", !.asked = FALSE, !.cut = greeted]
        <3>1. greeted \in BOOLEAN
            BY <1>2 DEF Room
        <3>2. pair' = [pair EXCEPT ![h] = x]
            BY <2>2 DEF DropHandler
        <3> HIDE DEF greeted
        <3>3. x \in Pair /\ x.room = pair[h].room /\ x.controller = pair[h].controller
            BY <1>2, <3>1 DEF Pair
        <3> HIDE DEF x
        <3> QED BY <3>2, <3>3
    <2> QED BY <2>1, <2>2
<1>4. x.controller = "announce" => Enter(room[x.room])
    BY <1>3 DEF IInv, AnnounceInv
<1>5. troubles' \in 0..MaxTroubles
    BY TroubleType DEF StopHandler, DropHandler, Fine, IInv
<1>6. learned' \subseteq learned /\ UNCHANGED <<bri, requests, creator, saved, room, posted, late, commands>>
    BY DEF StopHandler, DropHandler
<1> QED BY <1>2, <1>3, <1>4, <1>5, <1>6, RoomStays, Rest, PairStep

-----------------------------------------------------------------------------
\* The controller goes on to another step.
LEMMA GotoStep ==
    ASSUME IInv, NEW h \in Handlers,
           NEW pc \in {"wait", "welcome", "woke", "players", "invite", "open", "announce",
                       "fail", "loop", "gone"},
           Goto(h, pc), pair[h].controller # "none",
           room' \in [Infos -> Room],
           \A i \in saved : Enter(room[i]) => Enter(room'[i]),
           pc = "announce" => Enter(room'[pair[h].room]),
           posted' \in [Infos -> Nat],
           \A i \in Infos : posted'[i] > 0 => posted[i] > 0 \/ (i \in saved /\ Enter(room[i])),
           late' \in Nat, troubles' \in 0..MaxTroubles,
           UNCHANGED <<bri, requests, creator, saved, learned, commands>>
    PROVE  IInv'
<1> DEFINE x == [pair[h] EXCEPT !.controller = pc]
<1>1. pair[h] \in Pair /\ pair[h].room \in saved
    BY PairType
<1>2. x \in Pair /\ x.room = pair[h].room /\ x.controller = pc
    BY <1>1 DEF Pair
<1>3. pair' = [pair EXCEPT ![h] = x]
    BY DEF Goto
<1> HIDE DEF x
<1> QED BY <1>1, <1>2, <1>3, Rest, PairStep

LEMMA gethistoryIInv ==
    ASSUME IInv, NEW h \in Handlers, gethistory(h) \/ GotHistory(h) \/ get_players(h)
    PROVE  IInv'
<1>1. CASE Goto(h, "welcome") \/ Goto(h, "woke") \/ Goto(h, "invite") \/ Goto(h, "fail")
    <2>1. troubles' \in 0..MaxTroubles /\ late' \in Nat
        BY TroubleType, Rest DEF gethistory, GotHistory, get_players, Fine, Fails, IInv
    <2>2. /\ pair[h].controller # "none"
          /\ UNCHANGED <<bri, requests, creator, saved, learned, room, posted, commands>>
        BY DEF gethistory, GotHistory, get_players
    <2> QED BY <1>1, <2>1, <2>2, RoomStays, Rest, GotoStep
<1>2. CASE gethistory(h) /\ pair' = [pair EXCEPT ![h].controller = "wait",
                                                ![h].asked = (@ \/ pair[h].handler # "gone")]
    <2> DEFINE asked == pair[h].asked \/ pair[h].handler # "gone"
               x == [pair[h] EXCEPT !.controller = "wait", !.asked = asked]
    <2>1. pair[h] \in Pair /\ pair[h].room \in saved
        BY <1>2, PairType DEF gethistory
    <2>2. pair' = [pair EXCEPT ![h] = x]
        BY <1>2
    <2>3. asked \in BOOLEAN
        OBVIOUS
    <2> HIDE DEF asked
    <2>4. x \in Pair /\ x.room = pair[h].room /\ x.controller = "wait"
        BY <2>1, <2>3 DEF Pair
    <2>5. troubles' \in 0..MaxTroubles
        BY <1>2, TroubleType DEF gethistory, Fails, IInv
    <2> HIDE DEF x
    <2> QED BY <1>2, <2>1, <2>2, <2>4, <2>5, RoomStays, Rest, PairStep DEF gethistory
<1> QED BY <1>1, <1>2 DEF gethistory, GotHistory, get_players

LEMMA GreetIInv == ASSUME IInv, NEW h \in Handlers, Greet(h) PROVE IInv'
<1>1. /\ pair[h].controller # "none" /\ (Goto(h, "loop") \/ Goto(h, "players"))
      /\ Say(pair[h].room)
    BY DEF Greet
<1>2. pair[h].room \in saved
    BY <1>1, PairType
<1> QED BY <1>1, <1>2, SayStep, Rest, GotoStep DEF Greet

\* A room that is neither open nor invited to is opened first.
LEMMA InviteIInv == ASSUME IInv, NEW h \in Handlers, Invite(h) \/ SetOpen(h) PROVE IInv'
<1> DEFINE i == pair[h].room
<1>1. pair[h].controller # "none"
    BY DEF Invite, SetOpen
<1>2. i \in saved /\ room[i] \in Room
    BY <1>1, PairType
<1>3. CASE Invite(h)
    <2>1. PICK both \in BOOLEAN :
            \E refusal \in BOOLEAN :
                /\ room' = Invitations(i, both, refusal)
                /\ Goto(h, IF both THEN "announce" ELSE "open")
        BY <1>3 DEF Invite
    <2>2. PICK refusal \in BOOLEAN :
                /\ room' = Invitations(i, both, refusal)
                /\ Goto(h, IF both THEN "announce" ELSE "open")
        BY <2>1
    <2> DEFINE invited == room[i].invited \/ both
               refused == room[i].refused \/ refusal
               r == [room[i] EXCEPT !.invited = invited, !.refused = refused]
    <2>3. room' = [room EXCEPT ![i] = r]
        BY <2>2 DEF Invitations
    <2>4. invited \in BOOLEAN /\ refused \in BOOLEAN
        OBVIOUS
    <2>5. (both = TRUE => invited = TRUE) /\ (room[i].invited => invited = TRUE)
        OBVIOUS
    <2> HIDE DEF invited, refused
    <2>6. /\ r \in Room /\ r.invited = invited
          /\ r.open = room[i].open /\ r.shut = room[i].shut
        BY <1>2, <2>4 DEF Room
    <2> HIDE DEF r
    <2>7. (Enter(room[i]) => Enter(r)) /\ (both = TRUE => Enter(r))
        BY <2>5, <2>6 DEF Enter
    <2>8. /\ room' \in [Infos -> Room] /\ room'[i] = r
          /\ \A j \in saved : Enter(room[j]) => Enter(room'[j])
        BY <1>2, <2>3, <2>6, <2>7, RoomStep
    <2>9. UNCHANGED <<bri, requests, creator, saved, learned, posted, late, commands, troubles>>
        BY <1>3 DEF Invite
    <2>10. CASE both = TRUE
        <3>1. Goto(h, "announce")
            BY <2>2, <2>10
        <3> QED BY <1>1, <2>7, <2>8, <2>9, <2>10, <3>1, Rest, GotoStep
    <2>11. CASE both = FALSE
        <3>1. Goto(h, "open")
            BY <2>2, <2>11
        <3> QED BY <1>1, <2>8, <2>9, <3>1, Rest, GotoStep
    <2> QED BY <2>10, <2>11
<1>4. CASE SetOpen(h)
    <2>1. /\ troubles' \in 0..MaxTroubles
          /\ UNCHANGED <<bri, requests, creator, saved, learned, posted, late, commands>>
        BY <1>4, TroubleType DEF SetOpen, Fails, IInv
    <2>2. CASE room' = [room EXCEPT ![i].open = TRUE] /\ Goto(h, "announce")
        <3> DEFINE r == [room[i] EXCEPT !.open = TRUE]
        <3>1. r \in Room /\ Enter(r)
            BY <1>2 DEF Room, Enter
        <3>2. room' = [room EXCEPT ![i] = r]
            BY <2>2
        <3> HIDE DEF r
        <3>3. /\ room' \in [Infos -> Room] /\ room'[i] = r
              /\ \A j \in saved : Enter(room[j]) => Enter(room'[j])
            BY <1>2, <3>1, <3>2, RoomStep
        <3> QED BY <1>1, <2>1, <2>2, <3>1, <3>3, Rest, GotoStep
    <2>3. CASE UNCHANGED room /\ Goto(h, "fail")
        BY <1>1, <2>1, <2>3, RoomStays, Rest, GotoStep
    <2> QED BY <1>4, <2>2, <2>3 DEF SetOpen
<1> QED BY <1>3, <1>4

LEMMA AnnounceIInv == ASSUME IInv, NEW h \in Handlers, Announce(h) PROVE IInv'
<1> DEFINE i == pair[h].room
<1>1. pair[h].controller = "announce"
    BY DEF Announce
<1>2. i \in saved /\ i \in Infos /\ Enter(room[i])
    BY <1>1, PairType DEF IInv, AnnounceInv
<1>3. CASE posted' = [posted EXCEPT ![i] = @ + 1] /\ Goto(h, "loop") /\ Say(i)
    <2>1. posted \in [Infos -> Nat]
        BY Rest
    <2>2. posted' \in [Infos -> Nat] /\ \A j \in Infos \ {i} : posted'[j] = posted[j]
        BY <1>2, <1>3, <2>1
    <2>3. UNCHANGED <<bri, requests, creator, saved, learned, late, commands>>
        BY DEF Announce
    <2> QED BY <1>1, <1>2, <1>3, <2>2, <2>3, SayStep, Rest, GotoStep
<1>4. CASE UNCHANGED <<posted, room>> /\ Goto(h, "fail") /\ Fails
    <2>1. troubles' \in 0..MaxTroubles
        BY <1>4, TroubleType DEF Fails, IInv
    <2>2. UNCHANGED <<bri, requests, creator, saved, learned, late, commands>>
        BY DEF Announce
    <2> QED BY <1>1, <1>4, <2>1, <2>2, RoomStays, Rest, GotoStep
<1> QED BY <1>3, <1>4 DEF Announce

LEMMA LoopIInv ==
    ASSUME IInv, NEW h \in Handlers, SetupFails(h) \/ handle_event(h) \/ ControllerEnds(h)
    PROVE  IInv'
<1>1. pair[h].controller \in {"fail", "loop"}
    BY DEF SetupFails, handle_event, ControllerEnds
<1>2. /\ pair[h] \in Pair /\ pair[h].room \in saved /\ pair[h].commands \in 0..Capacity
    BY <1>1, PairType
<1>3. /\ room' \in [Infos -> Room] /\ troubles' \in 0..MaxTroubles
      /\ \A j \in saved : Enter(room[j]) => Enter(room'[j])
    <2>1. CASE Say(pair[h].room)
        BY <1>2, <2>1, SayStep
    <2>2. CASE UNCHANGED room /\ UNCHANGED troubles
        BY <2>2, RoomStays, Rest
    <2> QED BY <2>1, <2>2 DEF SetupFails, handle_event, ControllerEnds, Fine
<1>4. PICK x \in Pair : /\ pair' = [pair EXCEPT ![h] = x] /\ x.room = pair[h].room
                        /\ x.controller # "announce"
    <2>1. CASE SetupFails(h)
        <3> DEFINE x == [pair[h] EXCEPT !.controller = "loop", !.should_end = TRUE]
        <3>1. x \in Pair /\ x.room = pair[h].room /\ x.controller = "loop"
            BY <1>2 DEF Pair
        <3>2. pair' = [pair EXCEPT ![h] = x]
            BY <2>1 DEF SetupFails
        <3> HIDE DEF x
        <3> QED BY <3>1, <3>2
    <2>2. CASE handle_event(h) /\ pair[h].commands > 0
        <3> DEFINE x == [pair[h] EXCEPT !.commands = @ - 1]
        <3>1. pair[h].commands - 1 \in 0..Capacity
            BY <1>2, <2>2, BoundsAssumption DEF BoundsAssumption
        <3>2. x \in Pair /\ x.room = pair[h].room /\ x.controller = pair[h].controller
            BY <1>2, <3>1 DEF Pair
        <3>3. pair' = [pair EXCEPT ![h] = x]
            BY <1>2, <2>2 DEF handle_event
        <3> HIDE DEF x
        <3> QED BY <1>1, <3>2, <3>3
    <2>3. CASE handle_event(h) /\ pair[h].commands = 0
        <3> DEFINE x == [pair[h] EXCEPT !.controller = "gone", !.should_end = TRUE]
        <3>1. x \in Pair /\ x.room = pair[h].room /\ x.controller = "gone"
            BY <1>2 DEF Pair
        <3>a. ~(pair[h].commands > 0)
            BY <2>3
        <3>2. pair' = [pair EXCEPT ![h] = x]
            BY <2>3, <3>a DEF handle_event
        <3> HIDE DEF x
        <3> QED BY <3>1, <3>2
    <2>4. CASE ControllerEnds(h)
        <3> DEFINE x == [pair[h] EXCEPT !.controller = "gone"]
        <3>1. x \in Pair /\ x.room = pair[h].room /\ x.controller = "gone"
            BY <1>2 DEF Pair
        <3>2. pair' = [pair EXCEPT ![h] = x]
            BY <2>4 DEF ControllerEnds, Goto
        <3> HIDE DEF x
        <3> QED BY <3>1, <3>2
    <2> QED BY <2>1, <2>2, <2>3, <2>4 DEF handle_event
<1>5. UNCHANGED <<bri, requests, creator, saved, learned, posted, late, commands>>
    BY DEF SetupFails, handle_event, ControllerEnds
<1> QED BY <1>2, <1>3, <1>4, <1>5, Rest, PairStep

-----------------------------------------------------------------------------
(* The world, and the theorems.                                             *)

LEMMA RaceEndsIInv == ASSUME IInv, NEW i \in Infos, RaceEnds(i) PROVE IInv'
<1> DEFINE r == [room[i] EXCEPT !.status = "over"]
<1>1. room \in [Infos -> Room] /\ room[i] \in Room
    BY DEF IInv, TypeOK
<1>2. r \in Room /\ (Enter(room[i]) => Enter(r))
    BY <1>1 DEF Room, Enter
<1>3. room' = [room EXCEPT ![i] = r]
    BY DEF RaceEnds
<1> HIDE DEF r
<1>4. room' \in [Infos -> Room] /\ \A j \in Infos : Enter(room[j]) => Enter(room'[j])
    BY <1>1, <1>2, <1>3
<1>5. UNCHANGED <<bri, requests, creator, saved, learned, pair, posted, late, commands, troubles>>
    BY DEF RaceEnds
<1>6. TypeOK' /\ InfosInv' /\ SavedInv'
    BY <1>4, <1>5 DEF IInv, TypeOK, InfosInv, SavedInv
<1>7. AnnounceInv'
    <2> SUFFICES ASSUME NEW h \in Handlers, pair[h].controller = "announce"
                 PROVE  Enter(room'[pair[h].room])
        BY <1>5 DEF AnnounceInv
    <2> QED BY <1>4, PairType DEF IInv, AnnounceInv
<1>8. PlayersCanEnter'
    BY <1>4, <1>5 DEF IInv, PlayersCanEnter, Enter
<1> QED BY <1>6, <1>7, <1>8 DEF IInv

LEMMA run_botIInv == ASSUME IInv, run_bot PROVE IInv'
<1> DEFINE dead(h) == IF pair[h] = NoPair THEN NoPair
                      ELSE [NoPair EXCEPT !.room = pair[h].room, !.handler = "gone",
                                          !.controller = "gone"]
<1>1. pair' = [h \in Handlers |-> dead(h)]
    BY DEF run_bot
<1>2. ASSUME NEW h \in Handlers
      PROVE  /\ dead(h) \in Pair /\ dead(h).controller # "announce"
             /\ dead(h) = NoPair \/ dead(h).room \in saved
    <2>1. CASE pair[h] = NoPair
        BY <2>1, NoPairType
    <2>2. CASE pair[h] # NoPair
        <3>1. pair[h].room \in saved /\ pair[h].room \in Infos
            BY <2>2 DEF IInv, SavedInv, TypeOK
        <3>2. [NoPair EXCEPT !.room = pair[h].room, !.handler = "gone", !.controller = "gone"] \in Pair
            BY <3>1, NoPairType DEF Pair
        <3> QED BY <2>2, <3>1, <3>2, NoPairType DEF Pair
    <2> QED BY <2>1, <2>2
<1> HIDE DEF dead
<1>3. troubles' \in 0..MaxTroubles
    BY TroubleType DEF run_bot, IInv
<1>4. UNCHANGED <<bri, saved, room, posted, late, commands>> /\ requests' = {} /\ learned' \subseteq saved
    BY DEF run_bot
<1>5. creator' \in [pc : {"idle"}, i : Infos]
    BY DEF run_bot, IInv, TypeOK
<1>6. pair' \in [Handlers -> Pair]
    BY <1>1, <1>2
<1>7. TypeOK'
    BY <1>3, <1>4, <1>5, <1>6 DEF IInv, TypeOK
<1>8. SavedInv'
    BY <1>1, <1>2, <1>4, <1>5 DEF IInv, SavedInv
<1>9. AnnounceInv'
    BY <1>1, <1>2 DEF AnnounceInv
<1>10. InfosInv' /\ PlayersCanEnter'
    BY <1>4 DEF IInv, InfosInv, PlayersCanEnter
<1> QED BY <1>7, <1>8, <1>9, <1>10 DEF IInv

LEMMA NextIInv == ASSUME IInv, [Next]_vars PROVE IInv'
<1>1. CASE Scheduled \/ Request \/ create
    BY <1>1, ScheduledIInv, RequestIInv, CreateRoomIInv, LearnIInv DEF create
<1>2. ASSUME NEW h \in Handlers, StartHandler(h) \/ Command(h) \/ handler(h) \/ DropHandler(h)
      PROVE  IInv'
    BY <1>2, StartIInv, CommandIInv, UnblockIInv, chat_historyIInv, errorIInv, LeaveIInv DEF handler
<1>3. ASSUME NEW h \in Handlers, controller(h) PROVE IInv'
    BY <1>3, gethistoryIInv, GreetIInv, InviteIInv, AnnounceIInv, LoopIInv DEF controller
<1>4. ASSUME NEW i \in Infos, RaceEnds(i) PROVE IInv'
    BY <1>4, RaceEndsIInv
<1>5. CASE run_bot
    BY <1>5, run_botIInv
<1>6. CASE UNCHANGED vars
    BY <1>6 DEF vars, IInv, TypeOK, InfosInv, SavedInv, AnnounceInv, PlayersCanEnter
<1> QED BY <1>1, <1>2, <1>3, <1>4, <1>5, <1>6 DEF Next

\* Every variable has its type.
THEOREM TypeCorrect == Spec => []TypeOK
<1>1. Init => IInv
    BY InitIInv
<1>2. IInv /\ [Next]_vars => IInv'
    BY NextIInv
<1>3. IInv => TypeOK
    BY DEF IInv
<1> QED BY <1>1, <1>2, <1>3, PTL DEF Spec

\* Players who are told of their room can enter it: the controller only
\* announces a room that it could open or invite both to, and neither a refused
\* invitation nor a restart, nor a second controller of the room, takes that
\* back.
THEOREM PlayersEnter == Spec => []PlayersCanEnter
<1>1. Init => IInv
    BY InitIInv
<1>2. IInv /\ [Next]_vars => IInv'
    BY NextIInv
<1>3. IInv => PlayersCanEnter
    BY DEF IInv
<1> QED BY <1>1, <1>2, <1>3, PTL DEF Spec

-----------------------------------------------------------------------------
(* Players are told once.                                                   *)

\* A controller that will tell the players, if all goes well from here on: it
\* is past the history, or will find nobody greeted there.
Intends(p, greeted) ==
    \/ p.controller \in {"welcome", "players", "invite", "open", "announce"}
    \/ /\ p.controller \in {"ask", "wait"}
       /\ p.history = "fresh" \/ (p.history = "none" /\ ~greeted)

Telling(i) == {h \in Handlers : pair[h].room = i /\ Intends(pair[h], room[i].greeted)}

\* A Handler whose controller has not greeted yet.
Early(p) == p.handler \in {"running", "blocked"} /\ p.controller \in {"ask", "wait", "welcome"}

\* Nobody has greeted in the room, and nobody is there who will: the next
\* Handler may tell the players.
Unseen(i) ==
    /\ ~room[i].greeted
    /\ ~(i \in saved /\ room[i].status = "over")
    /\ \A h \in Handlers : pair[h].room = i => ~Early(pair[h])

\* The connections that broke after the greeting.
Harmless == {h \in Handlers : pair[h].cut}

\* What has been said, is about to be said and may yet be said is paid for.
Paid(i) ==
    posted[i] + Cardinality(Telling(i)) + (IF Unseen(i) THEN 1 ELSE 0) + Cardinality(Harmless)
        <= 1 + late + troubles

\* A controller that has not come to its commands has not given up, and the
\* history it was sent is still true.  Rooms unknown to the bot have no greeting.
AskInv ==
    /\ \A h \in Handlers :
        /\ pair[h].should_end => pair[h].controller \in {"loop", "gone"}
        /\ pair[h].history = "greeted" => room[pair[h].room].greeted
    /\ \A i \in Infos \ saved : ~room[i].greeted

ToldInv == AskInv /\ \A i \in Infos : Paid(i)

LEMMA HandlersAreFinite ==
    ASSUME NEW S \in SUBSET Handlers
    PROVE  IsFiniteSet(S) /\ Cardinality(S) \in Nat
<1>1. IsFiniteSet(Handlers)
    BY BoundsAssumption, FS_Interval DEF Handlers, BoundsAssumption
<1> QED BY <1>1, FS_Subset, FS_CardinalityType

LEMMA SetsOfHandlers ==
    ASSUME NEW i
    PROVE  /\ Telling(i) \in SUBSET Handlers /\ Telling(i)' \in SUBSET Handlers
           /\ Harmless \in SUBSET Handlers /\ Harmless' \in SUBSET Handlers
BY DEF Telling, Harmless

\* Sets of Handlers that lose and gain.
LEMMA SameOrFewer ==
    ASSUME NEW S \in SUBSET Handlers, NEW T \in SUBSET S
    PROVE  Cardinality(T) <= Cardinality(S)
BY HandlersAreFinite, FS_Subset

LEMMA OneMore ==
    ASSUME NEW S \in SUBSET Handlers, NEW h, NEW T \in SUBSET (S \cup {h})
    PROVE  Cardinality(T) <= Cardinality(S) + 1
<1>1. IsFiniteSet(S) /\ Cardinality(S) \in Nat
    BY HandlersAreFinite
<1>2. /\ IsFiniteSet(S \cup {h})
      /\ Cardinality(S \cup {h}) = IF h \in S THEN Cardinality(S) ELSE Cardinality(S) + 1
    BY <1>1, FS_AddElement
<1>3. IsFiniteSet(T) /\ Cardinality(T) <= Cardinality(S \cup {h})
    BY <1>2, FS_Subset
<1>4. Cardinality(T) \in Nat
    BY <1>3, FS_CardinalityType
<1> QED BY <1>1, <1>2, <1>3, <1>4

LEMMA OneFewer ==
    ASSUME NEW S \in SUBSET Handlers, NEW h \in S, NEW T \in SUBSET (S \ {h})
    PROVE  Cardinality(T) + 1 <= Cardinality(S)
<1>1. IsFiniteSet(S) /\ Cardinality(S) \in Nat
    BY HandlersAreFinite
<1>2. IsFiniteSet(S \ {h}) /\ Cardinality(S \ {h}) = Cardinality(S) - 1
    BY <1>1, FS_RemoveElement
<1>3. IsFiniteSet(T) /\ Cardinality(T) <= Cardinality(S \ {h})
    BY <1>2, FS_Subset
<1>4. Cardinality(T) \in Nat
    BY <1>3, FS_CardinalityType
<1> QED BY <1>1, <1>2, <1>3, <1>4

\* The ways in which a step leaves everything paid for: what one of the three
\* sums gains, another loses, or a failure or a late answer pays.
Later == late' + troubles' >= late + troubles + 1
NotEarlier == late' + troubles' >= late + troubles

LEMMA Sums ==
    \A p, q, t, t1, u, u1, c, c1, l, l1, f, f1 \in Nat :
        /\ p + t + u + c <= 1 + l + f
        /\ l1 + f1 >= l + f
        /\ \/ q = p /\ t1 <= t /\ u1 <= u /\ c1 <= c
           \/ q = p /\ t1 <= t /\ u1 <= u /\ c1 <= c + 1 /\ l1 + f1 >= l + f + 1
           \/ q = p /\ t1 <= t /\ u1 <= u + 1 /\ c1 <= c /\ l1 + f1 >= l + f + 1
           \/ q = p /\ t1 <= t + 1 /\ c1 <= c /\ u1 <= u /\ l1 + f1 >= l + f + 1
           \/ q = p /\ t1 <= t + 1 /\ c1 <= c /\ u1 + 1 <= u
           \/ q = p + 1 /\ t1 + 1 <= t /\ c1 <= c /\ u1 <= u
        => q + t1 + u1 + c1 <= 1 + l1 + f1
OBVIOUS

LEMMA Pays ==
    ASSUME IInv, IInv', NEW i \in Infos, Paid(i), NEW h, NotEarlier,
           \/ /\ posted'[i] = posted[i] /\ Telling(i)' \subseteq Telling(i)
              /\ Unseen(i)' => Unseen(i)
              /\ Harmless' \subseteq Harmless \/ (Harmless' \subseteq Harmless \cup {h} /\ Later)
           \/ /\ posted'[i] = posted[i] /\ Telling(i)' \subseteq Telling(i)
              /\ Harmless' \subseteq Harmless /\ Later
           \/ /\ posted'[i] = posted[i] /\ Telling(i)' \subseteq Telling(i) \cup {h}
              /\ Harmless' \subseteq Harmless
              /\ \/ Later /\ (Unseen(i)' => Unseen(i))
                 \/ Unseen(i) /\ ~Unseen(i)'
           \/ /\ posted'[i] = posted[i] + 1 /\ h \in Telling(i)
              /\ Telling(i)' \subseteq Telling(i) \ {h}
              /\ Harmless' \subseteq Harmless /\ (Unseen(i)' => Unseen(i))
    PROVE  Paid(i)'
<1> DEFINE t0 == Cardinality(Telling(i))
           t1 == Cardinality(Telling(i)')
           c0 == Cardinality(Harmless)
           c1 == Cardinality(Harmless')
           u0 == IF Unseen(i) THEN 1 ELSE 0
           u1 == IF Unseen(i)' THEN 1 ELSE 0
<1>1. t0 \in Nat /\ t1 \in Nat /\ c0 \in Nat /\ c1 \in Nat
    BY SetsOfHandlers, HandlersAreFinite
<1>2. u0 \in {0, 1} /\ u1 \in {0, 1}
    OBVIOUS
<1>3. Telling(i)' \subseteq Telling(i) => t1 <= t0
    BY SetsOfHandlers, SameOrFewer
<1>4. Telling(i)' \subseteq Telling(i) \cup {h} => t1 <= t0 + 1
    BY SetsOfHandlers, OneMore
<1>5. h \in Telling(i) /\ Telling(i)' \subseteq Telling(i) \ {h} => t1 + 1 <= t0
    BY SetsOfHandlers, OneFewer
<1>6. Harmless' \subseteq Harmless => c1 <= c0
    BY SetsOfHandlers, SameOrFewer
<1>7. Harmless' \subseteq Harmless \cup {h} => c1 <= c0 + 1
    BY SetsOfHandlers, OneMore
<1>8. (Unseen(i)' => Unseen(i)) => u1 <= u0
    OBVIOUS
<1>9. Unseen(i) /\ ~Unseen(i)' => u1 + 1 <= u0
    OBVIOUS
<1>10. /\ posted[i] \in Nat /\ posted'[i] \in Nat /\ late \in Nat /\ late' \in Nat
       /\ troubles \in Nat /\ troubles' \in Nat
    BY DEF IInv, TypeOK
<1>11. posted[i] + t0 + u0 + c0 <= 1 + late + troubles
    BY DEF Paid
<1>12. \/ posted'[i] = posted[i] /\ t1 <= t0 /\ u1 <= u0 /\ c1 <= c0
       \/ posted'[i] = posted[i] /\ t1 <= t0 /\ u1 <= u0 /\ c1 <= c0 + 1 /\ Later
       \/ posted'[i] = posted[i] /\ t1 <= t0 /\ u1 <= u0 + 1 /\ c1 <= c0 /\ Later
       \/ posted'[i] = posted[i] /\ t1 <= t0 + 1 /\ c1 <= c0 /\ u1 <= u0 /\ Later
       \/ posted'[i] = posted[i] /\ t1 <= t0 + 1 /\ c1 <= c0 /\ u1 + 1 <= u0
       \/ posted'[i] = posted[i] + 1 /\ t1 + 1 <= t0 /\ c1 <= c0 /\ u1 <= u0
    BY <1>2, <1>3, <1>4, <1>5, <1>6, <1>7, <1>8, <1>9
<1>13. Paid(i)' = (posted'[i] + t1 + u1 + c1 <= 1 + late' + troubles')
    BY DEF Paid
<1> HIDE DEF t0, t1, c0, c1, u0, u1
<1>14. posted'[i] + t1 + u1 + c1 <= 1 + late' + troubles'
    <2>1. u0 \in Nat /\ u1 \in Nat
        BY <1>2
    <2>2. PICK p \in Nat, q \in Nat : p = posted[i] /\ q = posted'[i]
        BY <1>10
    <2>3. PICK l \in Nat, l1 \in Nat, f \in Nat, f1 \in Nat :
            l = late /\ l1 = late' /\ f = troubles /\ f1 = troubles'
        BY <1>10
    <2>4. p + t0 + u0 + c0 <= 1 + l + f /\ l1 + f1 >= l + f
        BY <1>11, <2>2, <2>3 DEF NotEarlier
    <2>5. \/ q = p /\ t1 <= t0 /\ u1 <= u0 /\ c1 <= c0
          \/ q = p /\ t1 <= t0 /\ u1 <= u0 /\ c1 <= c0 + 1 /\ l1 + f1 >= l + f + 1
          \/ q = p /\ t1 <= t0 /\ u1 <= u0 + 1 /\ c1 <= c0 /\ l1 + f1 >= l + f + 1
          \/ q = p /\ t1 <= t0 + 1 /\ c1 <= c0 /\ u1 <= u0 /\ l1 + f1 >= l + f + 1
          \/ q = p /\ t1 <= t0 + 1 /\ c1 <= c0 /\ u1 + 1 <= u0
          \/ q = p + 1 /\ t1 + 1 <= t0 /\ c1 <= c0 /\ u1 <= u0
        BY <1>12, <2>2, <2>3 DEF Later
    <2>6. q + t1 + u1 + c1 <= 1 + l1 + f1
        BY <1>1, <2>1, <2>4, <2>5, Sums
    <2> QED BY <2>2, <2>3, <2>6
<1> QED BY <1>13, <1>14

LEMMA InitToldInv == Init => ToldInv
<1> SUFFICES ASSUME Init PROVE ToldInv
    OBVIOUS
<1>1. \A h \in Handlers : pair[h] = NoPair
    BY DEF Init
<1>2. ~NoPair.should_end /\ ~NoPair.cut /\ NoPair.history = "none" /\ NoPair.controller = "none"
    BY DEF NoPair
<1>3. \A i \in Infos : ~room[i].greeted
    BY DEF Init, NoRoom
<1>4. AskInv
    BY <1>1, <1>2, <1>3 DEF AskInv
<1>5. ASSUME NEW i \in Infos PROVE Paid(i)
    <2>1. Telling(i) = {} /\ Harmless = {}
        BY <1>1, <1>2 DEF Telling, Intends, Harmless
    <2>2. Cardinality({}) = 0
        BY FS_EmptySet
    <2>3. posted[i] = 0 /\ late = 0 /\ troubles = 0
        BY DEF Init
    <2> QED BY <2>1, <2>2, <2>3 DEF Paid
<1> QED BY <1>4, <1>5 DEF ToldInv

-----------------------------------------------------------------------------
(* The steps of a Handler and its controller.                               *)

\* Nothing is unsaid in a room, no race is resumed, and the bot says nothing
\* in rooms it does not know.
RoomsGoOn ==
    \A i \in Infos :
        /\ room[i].greeted => room'[i].greeted
        /\ room[i].status = "over" => room'[i].status = "over"
        /\ i \notin saved => room'[i] = room[i]

\* Only this Handler and its controller move, in their room.
OnlyPair(h) ==
    /\ \A g \in Handlers \ {h} : pair'[g] = pair[g]
    /\ pair[h].controller # "none" => pair'[h].room = pair[h].room

\* What may be told, and by whom, in rooms.
LEMMA PairTells ==
    ASSUME IInv, NEW h \in Handlers, OnlyPair(h), RoomsGoOn, saved' = saved, NEW i \in Infos
    PROVE  /\ Telling(i)' \subseteq Telling(i) \cup {h}
           /\ h \notin Telling(i)' => Telling(i)' \subseteq Telling(i) \ {h}
           /\ h \in Telling(i) => Telling(i)' \subseteq Telling(i)
           /\ (pair'[h].cut => pair[h].cut) => Harmless' \subseteq Harmless
           /\ Harmless' \subseteq Harmless \cup {h}
           /\ (pair[h].room = i /\ Early(pair[h]) => pair'[h].room = i /\ Early(pair'[h]))
                => (Unseen(i)' => Unseen(i))
<1>1. \A g \in Handlers \ {h} : g \in Telling(i)' => g \in Telling(i)
    BY DEF OnlyPair, RoomsGoOn, Telling, Intends
<1>2. Telling(i)' \subseteq Telling(i) \cup {h}
    BY <1>1 DEF Telling
<1>3. \A g \in Handlers \ {h} : g \in Harmless' => g \in Harmless
    BY DEF OnlyPair, Harmless
<1>4. Harmless' \subseteq Harmless \cup {h}
    BY <1>3 DEF Harmless
<1>5. (pair'[h].cut => pair[h].cut) => Harmless' \subseteq Harmless
    BY <1>4 DEF Harmless
<1>6. ASSUME pair[h].room = i /\ Early(pair[h]) => pair'[h].room = i /\ Early(pair'[h]), Unseen(i)'
      PROVE  Unseen(i)
    <2>1. ~room[i].greeted /\ ~(i \in saved /\ room[i].status = "over")
        BY <1>6 DEF Unseen, RoomsGoOn
    <2>2. ASSUME NEW g \in Handlers, pair[g].room = i PROVE ~Early(pair[g])
        <3>1. CASE g = h
            BY <1>6, <2>2, <3>1 DEF Unseen, Early
        <3>2. CASE g # h
            BY <1>6, <2>2, <3>2 DEF Unseen, OnlyPair, Early
        <3> QED BY <3>1, <3>2
    <2> QED BY <2>1, <2>2 DEF Unseen
<1> QED BY <1>2, <1>4, <1>5, <1>6

\* What a step of a pair must say of itself; the rest follows.
LEMMA PairToldInv ==
    ASSUME IInv, IInv', ToldInv, NEW h \in Handlers, OnlyPair(h), RoomsGoOn, saved' = saved,
           NotEarlier,
           pair'[h].should_end => pair'[h].controller \in {"loop", "gone"},
           pair'[h].history = "greeted" => room'[pair'[h].room].greeted,
           \A i \in Infos :
               \/ /\ posted'[i] = posted[i] /\ (h \in Telling(i)' => h \in Telling(i))
                  /\ Unseen(i)' => Unseen(i)
                  /\ (pair'[h].cut => pair[h].cut) \/ Later
               \/ /\ posted'[i] = posted[i] /\ (h \in Telling(i)' => h \in Telling(i))
                  /\ (pair'[h].cut => pair[h].cut) /\ Later
               \/ /\ posted'[i] = posted[i]
                  /\ pair'[h].cut => pair[h].cut
                  /\ \/ Later /\ (Unseen(i)' => Unseen(i))
                     \/ Unseen(i) /\ ~Unseen(i)'
               \/ /\ posted'[i] = posted[i] + 1 /\ h \in Telling(i) /\ h \notin Telling(i)'
                  /\ pair'[h].cut => pair[h].cut
                  /\ Unseen(i)' => Unseen(i)
    PROVE  ToldInv'
<1>1. AskInv'
    <2>1. \A g \in Handlers :
            /\ pair'[g].should_end => pair'[g].controller \in {"loop", "gone"}
            /\ pair'[g].history = "greeted" => room'[pair'[g].room].greeted
        <3> SUFFICES ASSUME NEW g \in Handlers, g # h
                     PROVE  /\ pair'[g].should_end => pair'[g].controller \in {"loop", "gone"}
                            /\ pair'[g].history = "greeted" => room'[pair'[g].room].greeted
            OBVIOUS
        <3>1. pair'[g] = pair[g]
            BY DEF OnlyPair
        <3>2. pair[g].room \in Infos \/ pair[g] = NoPair
            BY DEF IInv, SavedInv, TypeOK
        <3>3. NoPair.history = "none"
            BY DEF NoPair
        <3> QED BY <3>1, <3>2, <3>3 DEF ToldInv, AskInv, RoomsGoOn
    <2>2. \A i \in Infos \ saved : ~room'[i].greeted
        BY DEF ToldInv, AskInv, RoomsGoOn
    <2> QED BY <2>1, <2>2 DEF AskInv
<1>2. ASSUME NEW i \in Infos PROVE Paid(i)'
    <2>1. /\ Telling(i)' \subseteq Telling(i) \cup {h}
          /\ h \notin Telling(i)' => Telling(i)' \subseteq Telling(i) \ {h}
          /\ h \in Telling(i) => Telling(i)' \subseteq Telling(i)
          /\ (pair'[h].cut => pair[h].cut) => Harmless' \subseteq Harmless
          /\ Harmless' \subseteq Harmless \cup {h}
        BY PairTells
    <2>2. (h \in Telling(i)' => h \in Telling(i)) => Telling(i)' \subseteq Telling(i)
        BY <2>1
    <2>3. Paid(i)
        BY DEF ToldInv
    <2>4. \/ /\ posted'[i] = posted[i] /\ Telling(i)' \subseteq Telling(i)
             /\ Unseen(i)' => Unseen(i)
             /\ Harmless' \subseteq Harmless \/ (Harmless' \subseteq Harmless \cup {h} /\ Later)
          \/ /\ posted'[i] = posted[i] /\ Telling(i)' \subseteq Telling(i)
             /\ Harmless' \subseteq Harmless /\ Later
          \/ /\ posted'[i] = posted[i] /\ Telling(i)' \subseteq Telling(i) \cup {h}
             /\ Harmless' \subseteq Harmless
             /\ \/ Later /\ (Unseen(i)' => Unseen(i))
                \/ Unseen(i) /\ ~Unseen(i)'
          \/ /\ posted'[i] = posted[i] + 1 /\ h \in Telling(i)
             /\ Telling(i)' \subseteq Telling(i) \ {h}
             /\ Harmless' \subseteq Harmless /\ (Unseen(i)' => Unseen(i))
        BY <2>1, <2>2
    <2> QED BY <2>3, <2>4, Pays
<1> QED BY <1>1, <1>2 DEF ToldInv

LEMMA PairChanged ==
    ASSUME IInv, NEW h \in Handlers, NEW x, pair' = [pair EXCEPT ![h] = x],
           pair[h].controller # "none" => x.room = pair[h].room
    PROVE  pair'[h] = x /\ OnlyPair(h)
BY DEF IInv, TypeOK, OnlyPair

LEMMA RoomsStay ==
    ASSUME UNCHANGED room
    PROVE  RoomsGoOn
BY DEF RoomsGoOn

\* A room the bot knows whose status and greeting stay.
LEMMA RoomGoesOn ==
    ASSUME IInv, NEW i \in saved, NEW r, room' = [room EXCEPT ![i] = r],
           room[i].greeted => r.greeted, room[i].status = "over" => r.status = "over"
    PROVE  RoomsGoOn /\ room'[i] = r
BY DEF IInv, TypeOK, RoomsGoOn

LEMMA SayGoesOn ==
    ASSUME IInv, NEW i \in saved, Say(i), late' = late
    PROVE  RoomsGoOn /\ NotEarlier /\ (room'[i].greeted \/ Later)
<1>1. room[i] \in Room
    BY DEF IInv, TypeOK
<1>2. late \in Nat /\ troubles \in Nat
    BY DEF IInv, TypeOK
<1>3. CASE room' = [room EXCEPT ![i].greeted = TRUE] /\ Fine
    <2> DEFINE r == [room[i] EXCEPT !.greeted = TRUE]
    <2>1. r.greeted = TRUE /\ r.status = room[i].status
        BY <1>1 DEF Room
    <2>2. room' = [room EXCEPT ![i] = r]
        BY <1>3
    <2> HIDE DEF r
    <2>3. RoomsGoOn /\ room'[i].greeted
        BY <2>1, <2>2, RoomGoesOn
    <2> QED BY <1>2, <1>3, <2>3 DEF Fine, NotEarlier
<1>4. CASE UNCHANGED room /\ Fails
    BY <1>2, <1>4, RoomsStay DEF Fails, Trouble, NotEarlier, Later
<1> QED BY <1>3, <1>4 DEF Say

\* Time in failures and late answers.
LEMMA FineOrFails ==
    ASSUME IInv, late' = late
    PROVE  /\ Fine => NotEarlier
           /\ \A n \in Nat : Trouble(n) => NotEarlier
           /\ Trouble(1) => NotEarlier /\ Later
<1>1. late \in Nat /\ troubles \in Nat
    BY DEF IInv, TypeOK
<1> QED BY <1>1 DEF Fine, Trouble, NotEarlier, Later

\* A step after which the pair means to tell no more than before.
LEMMA CalmToldInv ==
    ASSUME IInv, IInv', ToldInv, NEW h \in Handlers, OnlyPair(h), RoomsGoOn, saved' = saved,
           NotEarlier, posted' = posted,
           pair'[h].room = pair[h].room, pair[h].room \in saved,
           Intends(pair'[h], room'[pair[h].room].greeted)
               => Intends(pair[h], room[pair[h].room].greeted),
           \/ Early(pair[h]) => Early(pair'[h])
           \/ room'[pair[h].room].greeted
           \/ room'[pair[h].room].status = "over"
           \/ Later,
           pair'[h].cut => pair[h].cut,
           pair'[h].should_end => pair'[h].controller \in {"loop", "gone"},
           pair'[h].history = "greeted" => room'[pair[h].room].greeted
    PROVE  ToldInv'
<1>1. ASSUME NEW i \in Infos PROVE h \in Telling(i)' => h \in Telling(i)
    BY DEF Telling
<1>2. ASSUME NEW i \in Infos PROVE (Unseen(i)' => Unseen(i)) \/ Later
    <2>1. CASE i # pair[h].room \/ (Early(pair[h]) => Early(pair'[h]))
        BY <2>1, PairTells
    <2>2. CASE i = pair[h].room /\ (room'[i].greeted \/ room'[i].status = "over")
        <3>1. ~Unseen(i)'
            BY <2>2 DEF Unseen
        <3> QED BY <3>1
    <2> QED BY <2>1, <2>2
<1>3. \A i \in Infos : posted'[i] = posted[i]
    OBVIOUS
<1> QED BY <1>1, <1>2, <1>3, PairToldInv

LEMMA StartToldInv ==
    ASSUME IInv, IInv', ToldInv, NEW h \in Handlers, StartHandler(h)
    PROVE  ToldInv'
<1>1. PICK j \in learned :
        /\ room[j].status = "live" /\ Running(j) = {}
        /\ pair' = [pair EXCEPT ![h].room = j, ![h].handler = "running", ![h].controller = "ask"]
    BY DEF StartHandler
<1>2. j \in Infos /\ pair[h] = NoPair /\ pair[h] \in Pair
    BY PairType DEF IInv, SavedInv, TypeOK, StartHandler
<1> DEFINE x == [pair[h] EXCEPT !.room = j, !.handler = "running", !.controller = "ask"]
<1>3. /\ x.room = j /\ x.handler = "running" /\ x.controller = "ask"
      /\ x.history = "none" /\ ~x.should_end /\ ~x.cut
    BY <1>2 DEF NoPair
<1>4. pair' = [pair EXCEPT ![h] = x]
    BY <1>1
<1> HIDE DEF x
<1>5. pair'[h] = x /\ OnlyPair(h)
    BY <1>2, <1>4, PairChanged, NoPairType
<1>6. /\ UNCHANGED <<saved, room, posted, late, troubles>> /\ RoomsGoOn
      /\ late \in Nat /\ troubles \in Nat
    BY RoomsStay DEF StartHandler, IInv, TypeOK
<1>7. NotEarlier
    BY <1>6 DEF NotEarlier
<1>8. ~Early(pair[h])
    BY <1>2, NoPairType DEF Early
<1>9. ASSUME NEW i \in Infos
      PROVE  \/ (h \in Telling(i)' => h \in Telling(i)) /\ (Unseen(i)' => Unseen(i))
             \/ Unseen(i) /\ ~Unseen(i)'
    <2>1. Unseen(i)' => Unseen(i)
        BY <1>5, <1>6, <1>8, PairTells
    <2>2. CASE i # j \/ room[j].greeted
        <3>1. h \notin Telling(i)'
            BY <1>3, <1>5, <1>6, <2>2 DEF Telling, Intends
        <3> QED BY <2>1, <3>1
    <2>3. CASE i = j /\ ~room[j].greeted
        <3>1. \A g \in Handlers : pair[g].room = j => ~Early(pair[g])
            BY <1>1 DEF Running, Early
        <3>2. Unseen(j)
            BY <1>1, <2>3, <3>1 DEF Unseen
        <3>3. Early(pair'[h])
            BY <1>3, <1>5 DEF Early
        <3>4. ~Unseen(j)'
            BY <1>3, <1>5, <3>3 DEF Unseen, Early
        <3> QED BY <2>3, <3>2, <3>4
    <2> QED BY <2>2, <2>3
<1> QED BY <1>3, <1>5, <1>6, <1>7, <1>9, PairToldInv

LEMMA CommandToldInv ==
    ASSUME IInv, IInv', ToldInv, NEW h \in Handlers, Command(h) \/ Unblock(h)
    PROVE  ToldInv'
<1>1. pair[h].handler \in {"running", "blocked"}
    BY DEF Command, Unblock
<1>2. pair[h] \in Pair /\ pair[h].room \in saved
    BY <1>1, PairType
<1>3. PICK x : /\ pair' = [pair EXCEPT ![h] = x] /\ x.room = pair[h].room
               /\ x.controller = pair[h].controller /\ x.history = pair[h].history
               /\ x.cut = pair[h].cut /\ x.handler \in {"running", "blocked"}
               /\ x.should_end => pair[h].should_end \/ pair[h].controller = "gone"
    <2>1. CASE Command(h)
        <3> DEFINE x == IF pair[h].controller = "gone" THEN [pair[h] EXCEPT !.should_end = TRUE]
                        ELSE IF pair[h].commands < Capacity
                             THEN [pair[h] EXCEPT !.commands = @ + 1]
                             ELSE [pair[h] EXCEPT !.handler = "blocked"]
        <3>1. /\ x.room = pair[h].room
              /\ x.controller = pair[h].controller /\ x.history = pair[h].history
              /\ x.cut = pair[h].cut /\ x.handler \in {"running", "blocked"}
              /\ x.should_end => pair[h].should_end \/ pair[h].controller = "gone"
            BY <1>1, <1>2 DEF Pair
        <3>2. pair' = [pair EXCEPT ![h] = x]
            BY <2>1 DEF Command
        <3> HIDE DEF x
        <3> QED BY <3>1, <3>2
    <2>2. CASE /\ Unblock(h) /\ pair[h].controller = "gone"
               /\ pair' = [pair EXCEPT ![h].handler = "running", ![h].should_end = TRUE]
        <3> DEFINE x == [pair[h] EXCEPT !.handler = "running", !.should_end = TRUE]
        <3>1. /\ x.room = pair[h].room
              /\ x.controller = pair[h].controller /\ x.history = pair[h].history
              /\ x.cut = pair[h].cut /\ x.handler = "running"
            BY <1>2 DEF Pair
        <3>2. pair' = [pair EXCEPT ![h] = x]
            BY <2>2
        <3> HIDE DEF x
        <3> QED BY <2>2, <3>1, <3>2
    <2>3. CASE /\ Unblock(h)
               /\ pair' = [pair EXCEPT ![h].handler = "running", ![h].commands = @ + 1]
        <3> DEFINE x == [pair[h] EXCEPT !.handler = "running", !.commands = @ + 1]
        <3>1. /\ x.room = pair[h].room
              /\ x.controller = pair[h].controller /\ x.history = pair[h].history
              /\ x.cut = pair[h].cut /\ x.handler = "running"
              /\ x.should_end = pair[h].should_end
            BY <1>2 DEF Pair
        <3>2. pair' = [pair EXCEPT ![h] = x]
            BY <2>3
        <3> HIDE DEF x
        <3> QED BY <3>1, <3>2
    <2> QED BY <2>1, <2>2, <2>3 DEF Unblock
<1>4. pair'[h] = x /\ OnlyPair(h)
    BY <1>3, PairChanged
<1>5. UNCHANGED <<saved, room, posted, late, troubles>>
    BY DEF Command, Unblock
<1>6. NotEarlier /\ RoomsGoOn
    BY <1>5, FineOrFails, RoomsStay DEF Fine
<1>7. Intends(x, room[pair[h].room].greeted) => Intends(pair[h], room[pair[h].room].greeted)
    BY <1>3 DEF Intends
<1>8. Early(pair[h]) => Early(x)
    BY <1>3 DEF Early
<1>9. x.should_end => x.controller \in {"loop", "gone"}
    BY <1>3 DEF ToldInv, AskInv
<1>10. x.history = "greeted" => room[pair[h].room].greeted
    BY <1>3 DEF ToldInv, AskInv
<1> QED BY <1>2, <1>3, <1>4, <1>5, <1>6, <1>7, <1>8, <1>9, <1>10, CalmToldInv

\* The history says what is in the room.
LEMMA chat_historyToldInv ==
    ASSUME IInv, IInv', ToldInv, NEW h \in Handlers, chat_history(h)
    PROVE  ToldInv'
<1> DEFINE x == IF pair[h].controller = "gone"
                THEN [pair[h] EXCEPT !.handler = "gone", !.asked = FALSE]
                ELSE [pair[h] EXCEPT !.asked = FALSE,
                                     !.history = IF room[pair[h].room].greeted
                                                 THEN "greeted" ELSE "fresh"]
<1>1. pair[h].handler = "running"
    BY DEF chat_history
<1>2. pair[h] \in Pair /\ pair[h].room \in saved
    BY <1>1, PairType
<1>3. /\ x.room = pair[h].room /\ x.controller = pair[h].controller
      /\ x.cut = pair[h].cut /\ x.should_end = pair[h].should_end
      /\ pair[h].controller # "gone" => x.handler = "running"
      /\ \/ x.controller = "gone" /\ x.history = pair[h].history
         \/ room[pair[h].room].greeted /\ x.history = "greeted"
         \/ ~room[pair[h].room].greeted /\ x.history = "fresh"
    BY <1>1, <1>2 DEF Pair
<1>4. pair' = [pair EXCEPT ![h] = x]
    BY DEF chat_history
<1> HIDE DEF x
<1>5. pair'[h] = x /\ OnlyPair(h)
    BY <1>3, <1>4, PairChanged
<1>6. UNCHANGED <<saved, room, posted, late, troubles>>
    BY DEF chat_history
<1>7. NotEarlier /\ RoomsGoOn
    BY <1>6, FineOrFails, RoomsStay DEF Fine
<1>8. pair[h].history \in {"none", "fresh", "greeted"}
    BY <1>2 DEF Pair
<1>9. Intends(x, room[pair[h].room].greeted) => Intends(pair[h], room[pair[h].room].greeted)
    BY <1>3, <1>8 DEF Intends, ToldInv, AskInv
<1>10. Early(pair[h]) => Early(x)
    BY <1>3 DEF Early
<1>11. x.should_end => x.controller \in {"loop", "gone"}
    BY <1>3 DEF ToldInv, AskInv
<1>12. x.history = "greeted" => room[pair[h].room].greeted
    BY <1>3 DEF ToldInv, AskInv
<1> QED BY <1>2, <1>3, <1>5, <1>6, <1>7, <1>9, <1>10, <1>11, <1>12, CalmToldInv

LEMMA errorToldInv ==
    ASSUME IInv, IInv', ToldInv, NEW h \in Handlers, error(h)
    PROVE  ToldInv'
<1> DEFINE i == pair[h].room
<1>1. pair[h].handler = "running"
    BY DEF error
<1>2. pair[h] \in Pair /\ i \in saved /\ room[i] \in Room
    BY <1>1, PairType
<1>3. RoomsGoOn /\ room'[i].greeted = room[i].greeted
    <2>1. CASE room' = [room EXCEPT ![i].invited = FALSE, ![i].refused = FALSE, ![i].open = TRUE]
        <3> DEFINE r == [room[i] EXCEPT !.invited = FALSE, !.refused = FALSE, !.open = TRUE]
        <3>1. r.greeted = room[i].greeted /\ r.status = room[i].status
            BY <1>2 DEF Room
        <3>2. room' = [room EXCEPT ![i] = r]
            BY <2>1
        <3> HIDE DEF r
        <3> QED BY <1>2, <3>1, <3>2, RoomGoesOn
    <2>2. CASE room' = [room EXCEPT ![i].invited = FALSE, ![i].refused = FALSE, ![i].shut = TRUE]
        <3> DEFINE r == [room[i] EXCEPT !.invited = FALSE, !.refused = FALSE, !.shut = TRUE]
        <3>1. r.greeted = room[i].greeted /\ r.status = room[i].status
            BY <1>2 DEF Room
        <3>2. room' = [room EXCEPT ![i] = r]
            BY <2>2
        <3> HIDE DEF r
        <3> QED BY <1>2, <3>1, <3>2, RoomGoesOn
    <2> QED BY <2>1, <2>2 DEF error
<1>4. UNCHANGED <<pair, saved, posted, late>>
    BY DEF error
<1>5. NotEarlier /\ OnlyPair(h)
    BY <1>4, FineOrFails DEF error, Fails, OnlyPair
<1>6. pair'[h] = pair[h]
    BY <1>4
<1>7. Intends(pair'[h], room'[i].greeted) => Intends(pair[h], room[i].greeted)
    BY <1>3, <1>6
<1>8. Early(pair[h]) => Early(pair'[h])
    BY <1>6
<1>9. /\ pair'[h].should_end => pair'[h].controller \in {"loop", "gone"}
      /\ pair'[h].history = "greeted" => room'[i].greeted
    BY <1>3, <1>6 DEF ToldInv, AskInv
<1> QED BY <1>2, <1>3, <1>4, <1>5, <1>6, <1>7, <1>8, <1>9, CalmToldInv

\* A Handler stops when its race is over or its controller has given up.
LEMMA StopToldInv ==
    ASSUME IInv, IInv', ToldInv, NEW h \in Handlers, StopHandler(h)
    PROVE  ToldInv'
<1> DEFINE x == [pair[h] EXCEPT !.handler = "gone", !.asked = FALSE]
<1>1. pair[h].handler = "running"
    BY DEF StopHandler
<1>2. pair[h] \in Pair /\ pair[h].room \in saved
    BY <1>1, PairType
<1>3. /\ x.room = pair[h].room /\ x.controller = pair[h].controller
      /\ x.history = pair[h].history
      /\ x.cut = pair[h].cut /\ x.should_end = pair[h].should_end
    BY <1>2 DEF Pair
<1>4. pair' = [pair EXCEPT ![h] = x]
    BY DEF StopHandler
<1> HIDE DEF x
<1>5. pair'[h] = x /\ OnlyPair(h)
    BY <1>3, <1>4, PairChanged
<1>6. UNCHANGED <<saved, room, posted, late, troubles>>
    BY DEF StopHandler
<1>7. NotEarlier /\ RoomsGoOn
    BY <1>6, FineOrFails, RoomsStay DEF Fine
<1>8. Intends(x, room[pair[h].room].greeted) => Intends(pair[h], room[pair[h].room].greeted)
    BY <1>3 DEF Intends
<1>9. ~Early(pair[h]) \/ room[pair[h].room].status = "over"
    BY DEF StopHandler, Early, ToldInv, AskInv
<1>10. x.should_end => x.controller \in {"loop", "gone"}
    BY <1>3 DEF ToldInv, AskInv
<1>11. x.history = "greeted" => room[pair[h].room].greeted
    BY <1>3 DEF ToldInv, AskInv
<1> QED BY <1>2, <1>3, <1>5, <1>6, <1>7, <1>8, <1>9, <1>10, <1>11, CalmToldInv

\* A connection that breaks is a failure: it pays for itself if there was a
\* greeting, and otherwise for the next Handler.
LEMMA DropToldInv ==
    ASSUME IInv, IInv', ToldInv, NEW h \in Handlers, DropHandler(h)
    PROVE  ToldInv'
<1> DEFINE greeted == room[pair[h].room].greeted
           x == [pair[h] EXCEPT !.handler = "gone", !.asked = FALSE, !.cut = greeted]
<1>1. pair[h].handler \in {"running", "blocked"}
    BY DEF DropHandler
<1>2. pair[h] \in Pair /\ pair[h].room \in saved
    BY <1>1, PairType
<1>3. pair' = [pair EXCEPT ![h] = x]
    BY DEF DropHandler
<1>g. PICK b : b = greeted
    OBVIOUS
<1>4. /\ x.room = pair[h].room /\ x.controller = pair[h].controller
      /\ x.history = pair[h].history
      /\ x.cut = greeted /\ x.should_end = pair[h].should_end
    <2>1. x = [pair[h] EXCEPT !.handler = "gone", !.asked = FALSE, !.cut = b]
        BY <1>g
    <2> HIDE DEF x, greeted
    <2> QED BY <1>2, <1>g, <2>1 DEF Pair
<1> HIDE DEF x
<1>5. pair'[h] = x /\ OnlyPair(h)
    BY <1>3, <1>4, PairChanged
<1>6. UNCHANGED <<saved, room, posted, late>>
    BY DEF DropHandler
<1>7. NotEarlier /\ Later /\ RoomsGoOn
    BY <1>6, FineOrFails, RoomsStay DEF DropHandler
<1>8. x.should_end => x.controller \in {"loop", "gone"}
    BY <1>4 DEF ToldInv, AskInv
<1>9. x.history = "greeted" => room[pair[h].room].greeted
    BY <1>4 DEF ToldInv, AskInv
<1>10. ASSUME NEW i \in Infos
       PROVE  /\ h \in Telling(i)' => h \in Telling(i)
              /\ (Unseen(i)' => Unseen(i)) \/ ~x.cut
    <2>1. h \in Telling(i)' => h \in Telling(i)
        BY <1>4, <1>5, <1>6 DEF Telling, Intends
    <2>2. CASE i # pair[h].room
        BY <1>5, <1>6, <1>7, <2>1, <2>2, PairTells
    <2>3. CASE i = pair[h].room
        BY <1>4, <1>6, <2>1, <2>3 DEF Unseen
    <2> QED BY <2>2, <2>3
<1> QED BY <1>4, <1>5, <1>6, <1>7, <1>8, <1>9, <1>10, PairToldInv

-----------------------------------------------------------------------------
(* The steps of the controller.                                             *)

\* The controller goes on to another step.
LEMMA Goes ==
    ASSUME IInv, NEW h \in Handlers, NEW pc, Goto(h, pc), pair[h].controller # "none"
    PROVE  /\ OnlyPair(h) /\ pair[h].room \in saved /\ pair[h].room \in Infos
           /\ pair'[h].controller = pc
           /\ pair'[h].room = pair[h].room /\ pair'[h].handler = pair[h].handler
           /\ pair'[h].history = pair[h].history /\ pair'[h].cut = pair[h].cut
           /\ pair'[h].should_end = pair[h].should_end
<1> DEFINE x == [pair[h] EXCEPT !.controller = pc]
<1>1. pair[h] \in Pair /\ pair[h].room \in saved /\ pair[h].room \in Infos
    BY PairType
<1>2. /\ x.controller = pc /\ x.room = pair[h].room /\ x.handler = pair[h].handler
      /\ x.history = pair[h].history /\ x.cut = pair[h].cut /\ x.should_end = pair[h].should_end
    BY <1>1 DEF Pair
<1>3. pair' = [pair EXCEPT ![h] = x]
    BY DEF Goto
<1> HIDE DEF x
<1>4. pair'[h] = x /\ OnlyPair(h)
    BY <1>2, <1>3, PairChanged
<1> QED BY <1>1, <1>2, <1>4

\* A step of the controller that does not end the set-up well.
LEMMA GoToldInv ==
    ASSUME IInv, IInv', ToldInv, NEW h \in Handlers, NEW pc, Goto(h, pc),
           pair[h].controller # "none", RoomsGoOn, saved' = saved, NotEarlier,
           posted' = posted,
           ~pair[h].should_end \/ pc \in {"loop", "gone"},
           pc \in {"welcome", "players", "invite", "open", "announce"}
               => \/ Intends(pair[h], room[pair[h].room].greeted)
                  \/ Later /\ pair[h].controller \in {"ask", "wait"} /\ pc = "welcome",
           pc \notin {"ask", "wait"},
           \/ pair[h].controller \notin {"ask", "wait", "welcome"}
           \/ pc = "welcome"
           \/ room'[pair[h].room].greeted
           \/ Later
    PROVE  ToldInv'
<1>1. /\ OnlyPair(h) /\ pair[h].room \in saved /\ pair[h].room \in Infos
      /\ pair'[h].controller = pc
      /\ pair'[h].room = pair[h].room /\ pair'[h].handler = pair[h].handler
      /\ pair'[h].history = pair[h].history /\ pair'[h].cut = pair[h].cut
      /\ pair'[h].should_end = pair[h].should_end
    BY Goes
<1>2. /\ pair'[h].should_end => pair'[h].controller \in {"loop", "gone"}
      /\ pair'[h].history = "greeted" => room'[pair[h].room].greeted
    BY <1>1 DEF ToldInv, AskInv, RoomsGoOn
<1>3. CASE /\ Later /\ pair[h].controller \in {"ask", "wait"} /\ pc = "welcome"
    <2>1. Early(pair[h]) => Early(pair'[h])
        BY <1>1, <1>3 DEF Early
    <2>2. \A i \in Infos : Unseen(i)' => Unseen(i)
        BY <1>1, <2>1, PairTells
    <2>3. \A i \in Infos : posted'[i] = posted[i]
        OBVIOUS
    <2> QED BY <1>1, <1>2, <1>3, <2>2, <2>3, PairToldInv
<1>4. CASE pc \in {"welcome", "players", "invite", "open", "announce"}
              => Intends(pair[h], room[pair[h].room].greeted)
    <2>1. Intends(pair'[h], room'[pair[h].room].greeted)
            => Intends(pair[h], room[pair[h].room].greeted)
        BY <1>1, <1>4 DEF Intends
    <2>2. \/ Early(pair[h]) => Early(pair'[h])
          \/ room'[pair[h].room].greeted
          \/ Later
        BY <1>1 DEF Early
    <2> QED BY <1>1, <1>2, <2>1, <2>2, CalmToldInv
<1> QED BY <1>3, <1>4

LEMMA gethistoryToldInv ==
    ASSUME IInv, IInv', ToldInv, NEW h \in Handlers, gethistory(h)
    PROVE  ToldInv'
<1>1. pair[h].controller = "ask" /\ UNCHANGED <<saved, room, posted, late>> /\ RoomsGoOn
    BY RoomsStay DEF gethistory
<1>2. pair[h] \in Pair /\ pair[h].room \in saved /\ ~pair[h].should_end
    BY <1>1, PairType DEF ToldInv, AskInv
<1>3. CASE Goto(h, "welcome") /\ Fails
    BY <1>1, <1>2, <1>3, FineOrFails, GoToldInv DEF Fails
<1>4. CASE pair' = [pair EXCEPT ![h].controller = "wait",
                                ![h].asked = (@ \/ pair[h].handler # "gone")] /\ Fine
    <2> DEFINE asked == pair[h].asked \/ pair[h].handler # "gone"
               x == [pair[h] EXCEPT !.controller = "wait", !.asked = asked]
    <2>1. pair' = [pair EXCEPT ![h] = x]
        BY <1>4
    <2> HIDE DEF asked
    <2>2. /\ x.controller = "wait" /\ x.room = pair[h].room /\ x.handler = pair[h].handler
          /\ x.history = pair[h].history /\ x.cut = pair[h].cut
          /\ x.should_end = pair[h].should_end
        BY <1>2 DEF Pair
    <2> HIDE DEF x
    <2>3. pair'[h] = x /\ OnlyPair(h)
        BY <2>1, <2>2, PairChanged
    <2>4. NotEarlier
        BY <1>1, <1>4, FineOrFails
    <2>5. Intends(x, room[pair[h].room].greeted) => Intends(pair[h], room[pair[h].room].greeted)
        BY <1>1, <2>2 DEF Intends
    <2>6. Early(pair[h]) => Early(x)
        BY <2>2 DEF Early
    <2>7. x.history = "greeted" => room[pair[h].room].greeted
        BY <2>2 DEF ToldInv, AskInv
    <2> QED BY <1>1, <1>2, <2>2, <2>3, <2>4, <2>5, <2>6, <2>7, CalmToldInv
<1> QED BY <1>3, <1>4 DEF gethistory

\* Without an answer the controller greets and invites all the same, and the
\* answer that was late pays for it.
LEMMA GotHistoryToldInv ==
    ASSUME IInv, IInv', ToldInv, NEW h \in Handlers, GotHistory(h)
    PROVE  ToldInv'
<1>1. /\ pair[h].controller = "wait" /\ UNCHANGED <<saved, room, posted, troubles>>
      /\ RoomsGoOn
    BY RoomsStay DEF GotHistory
<1>2. pair[h].room \in saved /\ ~pair[h].should_end
    BY <1>1, PairType DEF ToldInv, AskInv
<1>3. late \in Nat /\ troubles \in Nat
    BY DEF IInv, TypeOK
<1>4. CASE pair[h].history = "greeted" /\ Goto(h, "woke") /\ UNCHANGED late
    <2>1. room'[pair[h].room].greeted
        BY <1>1, <1>4 DEF ToldInv, AskInv
    <2>2. NotEarlier
        BY <1>1, <1>3, <1>4 DEF NotEarlier
    <2> QED BY <1>1, <1>2, <1>4, <2>1, <2>2, GoToldInv
<1>5. CASE pair[h].history = "fresh" /\ Goto(h, "welcome") /\ UNCHANGED late
    <2>1. Intends(pair[h], room[pair[h].room].greeted)
        BY <1>1, <1>5 DEF Intends
    <2>2. NotEarlier
        BY <1>1, <1>3, <1>5 DEF NotEarlier
    <2> QED BY <1>1, <1>2, <1>5, <2>1, <2>2, GoToldInv
<1>6. CASE pair[h].history = "none" /\ Goto(h, "welcome") /\ late' = late + 1
    <2>1. NotEarlier /\ Later
        BY <1>1, <1>3, <1>6 DEF NotEarlier, Later
    <2> QED BY <1>1, <1>2, <1>6, <2>1, GoToldInv
<1> QED BY <1>4, <1>5, <1>6 DEF GotHistory

LEMMA GreetToldInv ==
    ASSUME IInv, IInv', ToldInv, NEW h \in Handlers, Greet(h)
    PROVE  ToldInv'
<1>1. pair[h].controller \in {"woke", "welcome"} /\ UNCHANGED <<saved, posted, late>>
    BY DEF Greet
<1>2. pair[h].room \in saved /\ ~pair[h].should_end
    BY <1>1, PairType DEF ToldInv, AskInv
<1>3. RoomsGoOn /\ NotEarlier /\ (room'[pair[h].room].greeted \/ Later)
    BY <1>1, <1>2, SayGoesOn DEF Greet
<1>4. CASE pair[h].controller = "woke" /\ Goto(h, "loop")
    BY <1>1, <1>2, <1>3, <1>4, GoToldInv
<1>5. CASE pair[h].controller = "welcome" /\ Goto(h, "players")
    <2>1. Intends(pair[h], room[pair[h].room].greeted)
        BY <1>5 DEF Intends
    <2> QED BY <1>1, <1>2, <1>3, <1>5, <2>1, GoToldInv
<1> QED BY <1>4, <1>5 DEF Greet

LEMMA SetupToldInv ==
    ASSUME IInv, IInv', ToldInv, NEW h \in Handlers,
           get_players(h) \/ Invite(h) \/ SetOpen(h)
    PROVE  ToldInv'
<1> DEFINE i == pair[h].room
<1>1. pair[h].controller \in {"players", "invite", "open"} /\ UNCHANGED <<saved, posted, late>>
    BY DEF get_players, Invite, SetOpen
<1>2. i \in saved /\ ~pair[h].should_end /\ room[i] \in Room
    BY <1>1, PairType DEF ToldInv, AskInv
<1>3. Intends(pair[h], room[i].greeted)
    BY <1>1 DEF Intends
<1>4. NotEarlier
    BY <1>1, FineOrFails DEF get_players, Invite, SetOpen, Fails, Fine
<1>5. RoomsGoOn
    <2>1. CASE UNCHANGED room
        BY <2>1, RoomsStay
    <2>2. CASE \E both, refusal \in BOOLEAN : room' = Invitations(i, both, refusal)
        <3>1. PICK both \in BOOLEAN, refusal \in BOOLEAN : room' = Invitations(i, both, refusal)
            BY <2>2
        <3> DEFINE invited == room[i].invited \/ both
                   refused == room[i].refused \/ refusal
                   r == [room[i] EXCEPT !.invited = invited, !.refused = refused]
        <3>2. room' = [room EXCEPT ![i] = r]
            BY <3>1 DEF Invitations
        <3> HIDE DEF invited, refused
        <3>3. r.greeted = room[i].greeted /\ r.status = room[i].status
            BY <1>2 DEF Room
        <3> HIDE DEF r
        <3> QED BY <1>2, <3>2, <3>3, RoomGoesOn
    <2>3. CASE room' = [room EXCEPT ![i].open = TRUE]
        <3> DEFINE r == [room[i] EXCEPT !.open = TRUE]
        <3>1. r.greeted = room[i].greeted /\ r.status = room[i].status
            BY <1>2 DEF Room
        <3>2. room' = [room EXCEPT ![i] = r]
            BY <2>3
        <3> HIDE DEF r
        <3> QED BY <1>2, <3>1, <3>2, RoomGoesOn
    <2> QED BY <2>1, <2>2, <2>3 DEF get_players, Invite, SetOpen
<1>6. PICK pc \in {"invite", "open", "announce", "fail"} : Goto(h, pc)
    BY DEF get_players, Invite, SetOpen
<1> QED BY <1>1, <1>2, <1>3, <1>4, <1>5, <1>6, GoToldInv

\* The players are told by a controller that meant to.
LEMMA AnnounceToldInv ==
    ASSUME IInv, IInv', ToldInv, NEW h \in Handlers, Announce(h)
    PROVE  ToldInv'
<1> DEFINE j == pair[h].room
<1>1. pair[h].controller = "announce" /\ UNCHANGED <<saved, late>>
    BY DEF Announce
<1>2. j \in saved /\ j \in Infos /\ ~pair[h].should_end
    BY <1>1, PairType DEF ToldInv, AskInv
<1>3. Intends(pair[h], room[j].greeted)
    BY <1>1 DEF Intends
<1>4. CASE UNCHANGED <<posted, room>> /\ Goto(h, "fail") /\ Fails
    BY <1>1, <1>2, <1>4, FineOrFails, RoomsStay, GoToldInv DEF Fails
<1>5. CASE posted' = [posted EXCEPT ![j] = @ + 1] /\ Goto(h, "loop") /\ Say(j)
    <2>1. RoomsGoOn /\ NotEarlier
        BY <1>1, <1>2, <1>5, SayGoesOn
    <2>2. /\ OnlyPair(h) /\ pair'[h].controller = "loop" /\ pair'[h].room = j
          /\ pair'[h].cut = pair[h].cut /\ pair'[h].history = pair[h].history
        BY <1>1, <1>5, Goes
    <2>3. ~Early(pair[h])
        BY <1>1 DEF Early
    <2>4. \A i \in Infos : Unseen(i)' => Unseen(i)
        BY <1>1, <2>1, <2>2, <2>3, PairTells
    <2>5. \A i \in Infos : posted'[i] = IF i = j THEN posted[i] + 1 ELSE posted[i]
        BY <1>5 DEF IInv, TypeOK
    <2>6. h \in Telling(j) /\ \A i \in Infos : h \notin Telling(i)'
        BY <1>3, <2>2 DEF Telling, Intends
    <2>7. pair'[h].history = "greeted" => room'[pair'[h].room].greeted
        BY <1>2, <2>1, <2>2 DEF ToldInv, AskInv, RoomsGoOn
    <2> QED BY <1>1, <2>1, <2>2, <2>4, <2>5, <2>6, <2>7, PairToldInv
<1> QED BY <1>4, <1>5 DEF Announce

\* Set-up is over.
LEMMA LoopToldInv ==
    ASSUME IInv, IInv', ToldInv, NEW h \in Handlers,
           SetupFails(h) \/ handle_event(h) \/ ControllerEnds(h)
    PROVE  ToldInv'
<1>1. pair[h].controller \in {"fail", "loop"} /\ UNCHANGED <<saved, posted, late>>
    BY DEF SetupFails, handle_event, ControllerEnds
<1>2. pair[h] \in Pair /\ pair[h].room \in saved
    BY <1>1, PairType
<1>3. RoomsGoOn /\ NotEarlier
    <2>1. CASE Say(pair[h].room)
        BY <1>1, <1>2, <2>1, SayGoesOn
    <2>2. CASE UNCHANGED <<room, troubles>>
        BY <1>1, <2>2, RoomsStay, FineOrFails DEF Fine
    <2> QED BY <2>1, <2>2 DEF SetupFails, handle_event, ControllerEnds, Fine
<1>4. PICK x : /\ pair' = [pair EXCEPT ![h] = x] /\ x.room = pair[h].room
               /\ x.controller \in {"loop", "gone"}
               /\ x.history = pair[h].history /\ x.cut = pair[h].cut
    <2>1. CASE SetupFails(h)
        <3> DEFINE x == [pair[h] EXCEPT !.controller = "loop", !.should_end = TRUE]
        <3>1. /\ x.room = pair[h].room /\ x.controller = "loop"
              /\ x.history = pair[h].history /\ x.cut = pair[h].cut
            BY <1>2 DEF Pair
        <3>2. pair' = [pair EXCEPT ![h] = x]
            BY <2>1 DEF SetupFails
        <3> HIDE DEF x
        <3> QED BY <3>1, <3>2
    <2>2. CASE handle_event(h) /\ pair' = [pair EXCEPT ![h].commands = @ - 1]
        <3> DEFINE x == [pair[h] EXCEPT !.commands = @ - 1]
        <3>1. /\ x.room = pair[h].room /\ x.controller = pair[h].controller
              /\ x.history = pair[h].history /\ x.cut = pair[h].cut
            BY <1>2 DEF Pair
        <3>2. pair' = [pair EXCEPT ![h] = x]
            BY <2>2
        <3>3. pair[h].controller = "loop"
            BY <2>2 DEF handle_event
        <3> HIDE DEF x
        <3> QED BY <3>1, <3>2, <3>3
    <2>3. CASE pair' = [pair EXCEPT ![h].controller = "gone", ![h].should_end = TRUE]
        <3> DEFINE x == [pair[h] EXCEPT !.controller = "gone", !.should_end = TRUE]
        <3>1. /\ x.room = pair[h].room /\ x.controller = "gone"
              /\ x.history = pair[h].history /\ x.cut = pair[h].cut
            BY <1>2 DEF Pair
        <3>2. pair' = [pair EXCEPT ![h] = x]
            BY <2>3
        <3> HIDE DEF x
        <3> QED BY <3>1, <3>2
    <2>4. CASE ControllerEnds(h)
        <3> DEFINE x == [pair[h] EXCEPT !.controller = "gone"]
        <3>1. /\ x.room = pair[h].room /\ x.controller = "gone"
              /\ x.history = pair[h].history /\ x.cut = pair[h].cut
            BY <1>2 DEF Pair
        <3>2. pair' = [pair EXCEPT ![h] = x]
            BY <2>4 DEF ControllerEnds, Goto
        <3> HIDE DEF x
        <3> QED BY <3>1, <3>2
    <2> QED BY <2>1, <2>2, <2>3, <2>4 DEF handle_event
<1>5. pair'[h] = x /\ OnlyPair(h)
    BY <1>4, PairChanged
<1>6. ~Intends(x, room'[pair[h].room].greeted)
    BY <1>4 DEF Intends
<1>7. ~Early(pair[h])
    BY <1>1 DEF Early
<1>8. x.history = "greeted" => room'[pair[h].room].greeted
    <2>1. pair[h].room \in Infos
        BY <1>2 DEF IInv, TypeOK
    <2> QED BY <1>3, <1>4, <2>1 DEF ToldInv, AskInv, RoomsGoOn
<1> QED BY <1>1, <1>2, <1>3, <1>4, <1>5, <1>6, <1>7, <1>8, CalmToldInv

-----------------------------------------------------------------------------
(* The rest of the system.                                                  *)

\* Steps that leave the pairs and what was posted alone.
LEMMA WorldToldInv ==
    ASSUME IInv, IInv', ToldInv, pair' = pair, posted' = posted, late' = late,
           Fine \/ Fails,
           \A i \in Infos : room'[i].greeted = room[i].greeted,
           saved \subseteq saved',
           \A i \in Infos : i \in saved /\ room[i].status = "over" => room'[i].status = "over"
    PROVE  ToldInv'
<1>1. NotEarlier
    BY FineOrFails DEF Fails
<1>2. AskInv'
    <2>1. ASSUME NEW h \in Handlers, pair[h].history = "greeted"
          PROVE  room'[pair[h].room].greeted
        <3>1. NoPair.history = "none"
            BY DEF NoPair
        <3>2. pair[h].room \in Infos
            BY <2>1, <3>1 DEF IInv, SavedInv, TypeOK
        <3> QED BY <2>1, <3>2 DEF ToldInv, AskInv
    <2> QED BY <2>1 DEF ToldInv, AskInv
<1>3. ASSUME NEW i \in Infos PROVE Paid(i)'
    <2>1. Telling(i)' = Telling(i) /\ Harmless' = Harmless
        BY DEF Telling, Harmless
    <2>2. Unseen(i)' => Unseen(i)
        BY DEF Unseen
    <2>3. Paid(i) /\ posted'[i] = posted[i]
        BY DEF ToldInv
    <2> QED BY <1>1, <2>1, <2>2, <2>3, Pays
<1> QED BY <1>2, <1>3 DEF ToldInv

LEMMA CreateToldInv ==
    ASSUME IInv, IInv', ToldInv, Scheduled \/ Request \/ create
    PROVE  ToldInv'
<1>1. pair' = pair /\ posted' = posted /\ late' = late /\ (Fine \/ Fails)
    BY DEF Scheduled, Request, create, create_rooms, create_room_for_race, handle_one_bri,
           learn_about_bri, Fine
<1>2. saved \subseteq saved'
    BY DEF Scheduled, Request, create, create_rooms, create_room_for_race, handle_one_bri,
           learn_about_bri
<1>3. CASE room' = room
    BY <1>1, <1>2, <1>3, WorldToldInv
<1>4. CASE create_room_for_race /\ room' # room
    <2> DEFINE i == creator.i
    <2>1. i \in Infos \ saved /\ ~room[i].greeted /\ room \in [Infos -> Room]
        BY <1>4 DEF create_room_for_race, IInv, TypeOK, SavedInv, ToldInv, AskInv
    <2>2. PICK s : room' = [room EXCEPT ![i] = [NoRoom EXCEPT !.status = "live", !.season = s]]
        BY <1>4 DEF create_room_for_race
    <2> DEFINE new == [NoRoom EXCEPT !.status = "live", !.season = s]
    <2>3. new.greeted = FALSE
        BY DEF NoRoom
    <2> HIDE DEF new
    <2>4. /\ ~room'[i].greeted
          /\ \A k \in Infos \ {i} : room'[k] = room[k]
        BY <2>1, <2>2, <2>3 DEF new
    <2>5. room'[i] \in Room /\ room[i] \in Room
        BY <2>1 DEF IInv, TypeOK
    <2>6. room'[i].greeted = room[i].greeted
        <3>1. room'[i].greeted \in BOOLEAN /\ room[i].greeted \in BOOLEAN
            BY <2>5 DEF Room
        <3> QED BY <2>1, <2>4, <3>1
    <2>7. \A k \in Infos : room'[k].greeted = room[k].greeted
        BY <2>4, <2>6
    <2> QED BY <1>1, <1>2, <2>1, <2>4, <2>7, WorldToldInv
<1> QED BY <1>3, <1>4
        DEF Scheduled, Request, create, create_rooms, handle_one_bri, learn_about_bri

LEMMA RaceEndsToldInv ==
    ASSUME IInv, IInv', ToldInv, NEW i \in Infos, RaceEnds(i)
    PROVE  ToldInv'
<1> DEFINE r == [room[i] EXCEPT !.status = "over"]
<1>1. room \in [Infos -> Room] /\ room[i] \in Room
    BY DEF IInv, TypeOK
<1>2. r.greeted = room[i].greeted /\ r.status = "over"
    BY <1>1 DEF Room
<1>3. room' = [room EXCEPT ![i] = r]
    BY DEF RaceEnds
<1> HIDE DEF r
<1>4. /\ \A k \in Infos : room'[k].greeted = room[k].greeted
      /\ \A k \in Infos : room[k].status = "over" => room'[k].status = "over"
    BY <1>1, <1>2, <1>3
<1>5. UNCHANGED <<saved, pair, posted, late, troubles>>
    BY DEF RaceEnds
<1> QED BY <1>4, <1>5, WorldToldInv DEF Fine

\* A restart pays for the next Handler of each room, and takes all others away.
LEMMA run_botToldInv ==
    ASSUME IInv, IInv', ToldInv, run_bot
    PROVE  ToldInv'
<1> DEFINE dead(h) == IF pair[h] = NoPair THEN NoPair
                      ELSE [NoPair EXCEPT !.room = pair[h].room, !.handler = "gone",
                                          !.controller = "gone"]
<1>1. pair' = [h \in Handlers |-> dead(h)]
    BY DEF run_bot
<1>2. \A h \in Handlers : /\ dead(h).controller \in {"none", "gone"} /\ ~dead(h).cut
                          /\ dead(h).history = "none" /\ ~dead(h).should_end
    BY DEF NoPair
<1> HIDE DEF dead
<1>3. UNCHANGED <<saved, room, posted, late>> /\ Trouble(1)
    BY DEF run_bot
<1>4. AskInv'
    BY <1>1, <1>2, <1>3 DEF ToldInv, AskInv
<1>5. ASSUME NEW i \in Infos PROVE Paid(i)'
    <2>1. Telling(i)' = {} /\ Harmless' = {}
        BY <1>1, <1>2 DEF Telling, Intends, Harmless
    <2>2. Telling(i)' \subseteq Telling(i) /\ Harmless' \subseteq Harmless
        BY <2>1
    <2>3. NotEarlier /\ Later
        BY <1>3, FineOrFails
    <2>4. posted'[i] = posted[i] /\ Paid(i)
        BY <1>3 DEF ToldInv
    <2> QED BY <2>2, <2>3, <2>4, Pays
<1> QED BY <1>4, <1>5 DEF ToldInv

LEMMA NextToldInv == ASSUME IInv, IInv', ToldInv, [Next]_vars PROVE ToldInv'
<1>1. CASE Scheduled \/ Request \/ create
    BY <1>1, CreateToldInv
<1>2. ASSUME NEW h \in Handlers, StartHandler(h) \/ Command(h) \/ handler(h) \/ DropHandler(h)
      PROVE  ToldInv'
    BY <1>2, StartToldInv, CommandToldInv, chat_historyToldInv, errorToldInv, StopToldInv,
       DropToldInv DEF handler
<1>3. ASSUME NEW h \in Handlers, controller(h) PROVE ToldInv'
    BY <1>3, gethistoryToldInv, GotHistoryToldInv, GreetToldInv, SetupToldInv, AnnounceToldInv,
       LoopToldInv DEF controller
<1>4. ASSUME NEW i \in Infos, RaceEnds(i) PROVE ToldInv'
    BY <1>4, RaceEndsToldInv
<1>5. CASE run_bot
    BY <1>5, run_botToldInv
<1>6. CASE UNCHANGED vars
    BY <1>6, WorldToldInv DEF vars, Fine
<1> QED BY <1>1, <1>2, <1>3, <1>4, <1>5, <1>6 DEF Next

\* Players are told of their room once, and again only after a failed call, a
\* restart or a late answer: a Handler that the library drops and starts again
\* finds the greeting of the first in the history, however commands,
\* Handlers and controllers overlap.
THEOREM PlayersAreToldOnce == Spec => []ToldOnce
<1>1. Init => IInv /\ ToldInv
    BY InitIInv, InitToldInv
<1>2. IInv /\ ToldInv /\ [Next]_vars => (IInv /\ ToldInv)'
    BY NextIInv, NextToldInv
<1>3. IInv /\ ToldInv => ToldOnce
    <2> SUFFICES ASSUME IInv, ToldInv, NEW i \in Infos
                 PROVE  posted[i] <= 1 + late + (troubles - Cardinality(Harmless))
        BY DEF ToldOnce, Harmless
    <2>1. Cardinality(Telling(i)) \in Nat /\ Cardinality(Harmless) \in Nat
        BY SetsOfHandlers, HandlersAreFinite
    <2>2. posted[i] \in Nat /\ late \in Nat /\ troubles \in Nat
        BY DEF IInv, TypeOK
    <2>3. posted[i] + Cardinality(Telling(i)) + (IF Unseen(i) THEN 1 ELSE 0)
            + Cardinality(Harmless) <= 1 + late + troubles
        BY DEF ToldInv, Paid
    <2> QED BY <2>1, <2>2, <2>3
<1> QED BY <1>1, <1>2, <1>3, PTL DEF Spec

-----------------------------------------------------------------------------
(* The season of a room.                                                    *)

\* A room is opened for the season of the race whose id is the id of the info.
NamesakeSeason ==
    \A i \in Infos : room[i].status # "none" => i \in Races /\ room[i].season = SeasonOf[i]

\* No room is opened, and none changes its season.
SeasonsStay ==
    \A j \in Infos :
        room'[j].status # "none" => room[j].status # "none" /\ room'[j].season = room[j].season

LEMMA SeasonStays ==
    ASSUME IInv, NEW i, NEW r, room' = [room EXCEPT ![i] = r],
           r.status # "none" => room[i].status # "none" /\ r.season = room[i].season
    PROVE  SeasonsStay
BY DEF IInv, TypeOK, SeasonsStay

LEMMA SaySeason == ASSUME IInv, NEW i \in Infos, Say(i) PROVE SeasonsStay
<1>1. CASE UNCHANGED room
    BY <1>1 DEF SeasonsStay
<1>2. CASE room' = [room EXCEPT ![i].greeted = TRUE]
    <2> DEFINE r == [room[i] EXCEPT !.greeted = TRUE]
    <2>1. r.status = room[i].status /\ r.season = room[i].season
        BY DEF IInv, TypeOK, Room
    <2>2. room' = [room EXCEPT ![i] = r]
        BY <1>2
    <2> HIDE DEF r
    <2> QED BY <2>1, <2>2, SeasonStays
<1> QED BY <1>1, <1>2 DEF Say

LEMMA errorSeason == ASSUME IInv, NEW h \in Handlers, error(h) PROVE SeasonsStay
<1> DEFINE i == pair[h].room
           calm == [room[i] EXCEPT !.invited = FALSE, !.refused = FALSE]
<1>1. pair[h].handler = "running"
    BY DEF error
<1>2. i \in Infos /\ room[i] \in Room
    BY <1>1, PairType
<1>3. \/ room' = [room EXCEPT ![i] = [calm EXCEPT !.open = TRUE]]
      \/ room' = [room EXCEPT ![i] = [calm EXCEPT !.shut = TRUE]]
    BY <1>2 DEF error, IInv, TypeOK
<1>4. \A r \in {[calm EXCEPT !.open = TRUE], [calm EXCEPT !.shut = TRUE]} :
            r.status = room[i].status /\ r.season = room[i].season
    BY <1>2 DEF Room
<1> HIDE DEF i, calm
<1> QED BY <1>3, <1>4, SeasonStays

LEMMA ControllerSeason == ASSUME IInv, NEW h \in Handlers, controller(h) PROVE SeasonsStay
<1> DEFINE i == pair[h].room
<1>1. i \in Infos /\ room[i] \in Room
    <2>1. pair[h].controller # "none"
        BY DEF controller, gethistory, GotHistory, Greet, get_players, Invite, SetOpen, Announce,
               SetupFails, handle_event, ControllerEnds
    <2> QED BY <2>1, PairType
<1>2. CASE Invite(h)
    <2>1. PICK both \in BOOLEAN, refusal \in BOOLEAN : room' = Invitations(i, both, refusal)
        BY <1>2 DEF Invite
    <2> DEFINE r == [room[i] EXCEPT !.invited = @ \/ both, !.refused = @ \/ refusal]
    <2>2. r.status = room[i].status /\ r.season = room[i].season
        BY <1>1 DEF Room
    <2>3. room' = [room EXCEPT ![i] = r]
        BY <1>1, <2>1 DEF Invitations, IInv, TypeOK
    <2> HIDE DEF r, i
    <2> QED BY <2>2, <2>3, SeasonStays
<1>3. CASE SetOpen(h)
    <2>1. CASE UNCHANGED room
        BY <2>1 DEF SeasonsStay
    <2>2. CASE room' = [room EXCEPT ![i].open = TRUE]
        <3> DEFINE r == [room[i] EXCEPT !.open = TRUE]
        <3>1. r.status = room[i].status /\ r.season = room[i].season
            BY <1>1 DEF Room
        <3>2. room' = [room EXCEPT ![i] = r]
            BY <2>2
        <3> HIDE DEF r, i
        <3> QED BY <3>1, <3>2, SeasonStays
    <2> QED BY <1>3, <2>1, <2>2 DEF SetOpen
<1>4. CASE Greet(h) \/ Announce(h) \/ SetupFails(h) \/ handle_event(h)
    <2>1. UNCHANGED room \/ Say(i)
        BY <1>4 DEF Greet, Announce, SetupFails, handle_event
    <2>2. CASE UNCHANGED room
        BY <2>2 DEF SeasonsStay
    <2> HIDE DEF i
    <2> QED BY <1>1, <2>1, <2>2, SaySeason
<1>5. CASE gethistory(h) \/ GotHistory(h) \/ get_players(h) \/ ControllerEnds(h)
    BY <1>5 DEF gethistory, GotHistory, get_players, ControllerEnds, SeasonsStay
<1> QED BY <1>2, <1>3, <1>4, <1>5 DEF controller

LEMMA NextSeason == ASSUME IInv, NamesakeSeason, [Next]_vars PROVE NamesakeSeason'
<1>1. CASE create_room_for_race
    <2>1. CASE UNCHANGED room
        BY <2>1 DEF NamesakeSeason
    <2>2. CASE ~UNCHANGED room
        <3> DEFINE i == creator.i
        <3>1. PICK j \in InfosFound(i) :
                room' = [room EXCEPT ![i] = [NoRoom EXCEPT !.status = "live",
                                                           !.season = SeasonOf[bri[j]]]]
            BY <1>1, <2>2 DEF create_room_for_race
        <3> DEFINE r == [NoRoom EXCEPT !.status = "live", !.season = SeasonOf[bri[j]]]
        <3>2. bri[j] = i /\ i \in Races
            BY DEF InfosFound, IInv, TypeOK
        <3>3. r.season = SeasonOf[i]
            BY <3>2 DEF NoRoom
        <3>4. room' = [room EXCEPT ![i] = r]
            BY <3>1
        <3> HIDE DEF r, i
        <3> QED BY <3>2, <3>3, <3>4 DEF NamesakeSeason, IInv, TypeOK
    <2> QED BY <2>1, <2>2
<1>2. ASSUME SeasonsStay PROVE NamesakeSeason'
    BY <1>2 DEF NamesakeSeason, SeasonsStay
<1>3. CASE Scheduled \/ Request \/ create_rooms \/ handle_one_bri \/ learn_about_bri
    BY <1>2, <1>3 DEF Scheduled, Request, create_rooms, handle_one_bri, learn_about_bri, SeasonsStay
<1>4. ASSUME NEW h \in Handlers, StartHandler(h) \/ Command(h) \/ handler(h) \/ DropHandler(h)
      PROVE  SeasonsStay
    <2>1. CASE error(h)
        BY <2>1, errorSeason
    <2>2. CASE ~error(h)
        BY <1>4, <2>2 DEF StartHandler, Command, handler, Unblock, chat_history, StopHandler,
           DropHandler, SeasonsStay
    <2> QED BY <2>1, <2>2
<1>5. ASSUME NEW h \in Handlers, controller(h) PROVE SeasonsStay
    BY <1>5, ControllerSeason
<1>6. ASSUME NEW i \in Infos, RaceEnds(i) PROVE SeasonsStay
    <2> DEFINE r == [room[i] EXCEPT !.status = "over"]
    <2>1. room[i] \in Room /\ room[i].status = "live"
        BY <1>6 DEF IInv, TypeOK, RaceEnds
    <2>2. r.season = room[i].season
        BY <2>1 DEF Room
    <2>3. room' = [room EXCEPT ![i] = r]
        BY <1>6 DEF RaceEnds
    <2> HIDE DEF r
    <2> QED BY <2>1, <2>2, <2>3, SeasonStays
<1>7. CASE run_bot \/ UNCHANGED vars
    BY <1>2, <1>7 DEF run_bot, vars, SeasonsStay
<1> QED BY <1>1, <1>2, <1>3, <1>4, <1>5, <1>6, <1>7 DEF Next, create

\* create_room_for_race opens the room of an info with the category and the goal
\* of the season of the race that has the info's id: whatever happens, a room
\* has that season and no other.
THEOREM RoomIsOfNamesake == Spec => []NamesakeSeason
<1>1. Init => IInv /\ NamesakeSeason
    BY InitIInv DEF Init, NamesakeSeason, NoRoom
<1>2. IInv /\ NamesakeSeason /\ [Next]_vars => (IInv /\ NamesakeSeason)'
    BY NextIInv, NextSeason
<1> QED BY <1>1, <1>2, PTL DEF Spec

\* The race with the id of the info is in the season of the race the info is of.
AlikeNamesakes ==
    \A i \in 1..Len(bri) : room[i].status # "none" => SeasonOf[i] = SeasonOf[bri[i]]

\* A room is of its race's season when, and only when, the race that happens to
\* have the info's id is of that season too.
THEOREM SeasonByChance == Spec => [](RoomIsOfItsSeason <=> AlikeNamesakes)
<1>1. TypeOK /\ NamesakeSeason => (RoomIsOfItsSeason <=> AlikeNamesakes)
    <2> SUFFICES ASSUME TypeOK, NamesakeSeason PROVE RoomIsOfItsSeason <=> AlikeNamesakes
        OBVIOUS
    <2>1. 1..Len(bri) \subseteq Infos
        BY InfosType DEF TypeOK, Infos
    <2> QED BY <2>1 DEF NamesakeSeason, RoomIsOfItsSeason, AlikeNamesakes
<1> QED BY <1>1, RoomIsOfNamesake, TypeCorrect, PTL

\* With one season only a room always is of its race's season, so that nobody
\* notices before the second begins.
THEOREM OneSeasonIsFine ==
    ASSUME \A r, q \in Races : SeasonOf[r] = SeasonOf[q]
    PROVE  Spec => []RoomIsOfItsSeason
<1>1. TypeOK /\ NamesakeSeason => AlikeNamesakes
    <2> SUFFICES ASSUME TypeOK, NamesakeSeason, NEW i \in 1..Len(bri), room[i].status # "none"
                 PROVE  SeasonOf[i] = SeasonOf[bri[i]]
        BY DEF AlikeNamesakes
    <2>1. i \in Infos /\ bri[i] \in Races
        BY InfosType DEF TypeOK, Infos
    <2> QED BY <2>1 DEF NamesakeSeason
<1> QED BY <1>1, RoomIsOfNamesake, SeasonByChance, TypeCorrect, PTL

=============================================================================
