--------------------------- MODULE ScannerProofs ---------------------------
(***************************************************************************)
(* Proofs about Scanner, for any races, any rooms and whoever is in them,  *)
(* and any bounds.                                                         *)
(***************************************************************************)
EXTENDS Scanner, TLAPS

-----------------------------------------------------------------------------
(* Types.                                                                  *)

LEMMA IdleType == IdleScan \in Scan /\ IdleScan.pc = "idle"
BY RacesAssumption, BoundsAssumption DEF IdleScan, Scan, None, Times

LEMMA ResultType ==
    ASSUME NEW m \in Rooms, NEW p \in Players
    PROVE  result(m, p) \in PlayerResult
BY DEF result, PlayerResult

LEMMA ResultRoom ==
    ASSUME NEW m \in Rooms, NEW p \in Players
    PROVE  result(m, p).room = m
BY DEF result, Finish, Forfeit

LEMMA NamesOfRaces ==
    ASSUME NEW r \in Races
    PROVE  P1[r] \in Players /\ P2[r] \in Players /\ r # None
BY RacesAssumption DEF None

LEMMA RaceScheduled ==
    ASSUME race \in [Races -> Race], NEW r \in Races, NEW t \in Times, NEW u \in {None}
    PROVE  [race EXCEPT ![r].state = "Scheduled", ![r].at = t, ![r].url = u] \in [Races -> Race]
<1>1. [race[r] EXCEPT !.state = "Scheduled", !.at = t, !.url = u] \in Race
  BY DEF Race
<1>2. QED
  BY <1>1

LEMMA InfoSaved ==
    ASSUME race \in [Races -> Race], NEW r \in Races,
           NEW t \in Times \cup {None}, NEW u \in Rooms
    PROVE  [race EXCEPT ![r].url = u, ![r].at = t] \in [Races -> Race]
<1>1. [race[r] EXCEPT !.url = u, !.at = t] \in Race
  BY DEF Race
<1>2. QED
  BY <1>1

LEMMA RaceFinished ==
    ASSUME race \in [Races -> Race], NEW r \in Races,
           NEW x \in PlayerResult, NEW y \in PlayerResult
    PROVE  [race EXCEPT ![r].state = "Finished", ![r].result1 = x, ![r].result2 = y]
             \in [Races -> Race]
<1>1. [race[r] EXCEPT !.state = "Finished", !.result1 = x, !.result2 = y] \in Race
  BY DEF Race
<1>2. QED
  BY <1>1

LEMMA NextRoomType ==
    ASSUME scan \in Scan
    PROVE  /\ NextRoom \in Scan /\ NextRoom.pc = "next"
BY DEF NextRoom, Scan

\* A room has its entrants and its start from the moment it starts.
LEMMA RoomTypes ==
    ASSUME TypeOK, NEW m \in Rooms, NEW E \in SUBSET Players, NEW D \in SUBSET Players,
           NEW goal \in BOOLEAN, StartRoom(m, E, goal) \/ EndRoom(m, D, E) \/ OffThePage(m)
    PROVE  room' \in [Rooms -> Room]
<1>1. room[m] \in Room /\ room \in [Rooms -> Room] /\ now \in Times \cup {None}
  BY DEF TypeOK
<1>2. CASE StartRoom(m, E, goal)
  <2> DEFINE rec == [status |-> "in_progress", start |-> now, goal |-> goal, paged |-> FALSE,
                     entrant |-> [p \in Players |-> IF p \in E THEN "listed" ELSE "absent"]]
  <2>1. rec \in Room
    BY <1>1 DEF Room
  <2>2. room' = [room EXCEPT ![m] = rec]
    BY <1>2 DEF StartRoom
  <2>3. QED
    BY <1>1, <2>1, <2>2
<1>3. CASE EndRoom(m, D, E)
  <2> DEFINE ent == [p \in Players |-> CASE p \in D -> "done"
                                         [] p \in E -> "dnf"
                                         [] OTHER   -> room[m].entrant[p]]
             rec == [room[m] EXCEPT !.status = IF D = {} THEN "cancelled" ELSE "finished",
                                    !.paged = TRUE, !.entrant = ent]
  <2>1. ent \in [Players -> {"absent", "listed", "done", "dnf"}]
    BY <1>1 DEF Room
  <2>2. rec \in Room
    BY <1>1, <2>1 DEF Room
  <2>3. room' = [room EXCEPT ![m] = rec]
    BY <1>3, <1>1 DEF EndRoom, Room
  <2>4. QED
    BY <1>1, <2>2, <2>3
<1>4. CASE OffThePage(m)
  BY <1>1, <1>4 DEF OffThePage, Room
<1>5. QED
  BY <1>2, <1>3, <1>4

LEMMA InitType == Init => TypeOK
BY RacesAssumption, BoundsAssumption, IdleType
   DEF Init, TypeOK, None, Race, Room, PlayerResult, NoResult

LEMMA WorldType ==
    ASSUME TypeOK, World
    PROVE  TypeOK'
<1> USE DEF TypeOK
<1>0. NoResult \in PlayerResult /\ Told \in PlayerResult /\ None \in Times \cup {None}
  BY DEF PlayerResult
<1>1. Command => commands' \in 0..MaxCommands
  BY BoundsAssumption DEF Command
<1>2. CASE Tick
  <2>1. now' \in Times \cup {None}
    BY <1>2, BoundsAssumption DEF Tick, Times, None
  <2>2. QED
    BY <1>2, <2>1 DEF Tick
<1>3. ASSUME NEW p \in Players, NameIsKnown(p) PROVE TypeOK'
  BY <1>3, <1>1 DEF NameIsKnown
<1>4. ASSUME NEW r \in Races, NEW when \in Times, schedule(r, when) PROVE TypeOK'
  <2>1. race' \in [Races -> Race]
    BY <1>4, RaceScheduled DEF schedule
  <2>2. QED
    BY <1>4, <2>1, <1>1 DEF schedule
<1>5. ASSUME NEW r \in Races, report(r) PROVE TypeOK'
  <2>1. race' \in [Races -> Race]
    BY <1>5, <1>0, RaceFinished DEF report
  <2>2. QED
    BY <1>5, <2>1, <1>1 DEF report
<1>6. ASSUME NEW m \in Rooms, NEW E \in Groups, NEW goal \in BOOLEAN, StartRoom(m, E, goal)
      PROVE  TypeOK'
  <2>1. E \in SUBSET Players
    BY RacesAssumption
  <2>2. room' \in [Rooms -> Room]
    BY <1>6, <2>1, RoomTypes
  <2>3. QED
    BY <1>6, <2>2 DEF StartRoom
<1>7. ASSUME NEW m \in Rooms, NEW D \in SUBSET Players, NEW F \in SUBSET Players, EndRoom(m, D, F)
      PROVE  TypeOK'
  <2>1. room' \in [Rooms -> Room]
    BY <1>7, RoomTypes
  <2>2. QED
    BY <1>7, <2>1 DEF EndRoom
<1>8. ASSUME NEW m \in Rooms, OffThePage(m)
      PROVE  TypeOK'
  <2>1. room' \in [Rooms -> Room]
    BY <1>8, RoomTypes
  <2>2. QED
    BY <1>8, <2>1 DEF OffThePage
<1>9. QED
  BY <1>2, <1>3, <1>4, <1>5, <1>6, <1>7, <1>8 DEF World

\* While the scanner looks at a room, the room is over; what it has found was
\* played there.
ScanInv ==
    /\ scan.pc \in {"look", "match", "url", "finish"} =>
         scan.room \in Rooms /\ CanBeInteresting(scan.room)
    /\ scan.pc = "look" => scan.left \subseteq Entrants(scan.room)
    /\ scan.pc \in {"match", "url", "finish"} =>
         /\ scan.found \in Races
         /\ scan.at[scan.found] <= room[scan.room].start + Early
    /\ scan.pc \in {"url", "finish"} =>
         HasResult(scan.room, P1[scan.found]) /\ HasResult(scan.room, P2[scan.found])

LEMMA TroubleType == troubles \in 0..MaxTroubles /\ (Trouble \/ Fine) => troubles' \in 0..MaxTroubles
BY BoundsAssumption DEF Trouble, Fine

LEMMA ScanType ==
    ASSUME TypeOK, ScanInv, Scanning \/ Crash
    PROVE  TypeOK'
<1> USE DEF TypeOK
<1>0. /\ scan \in Scan /\ NextRoom \in Scan
  BY NextRoomType
<1>1. CASE load
  <2>1. PICK due \in races_by_player_rtgg :
           scan' = [scan EXCEPT !.pc = "query", !.due = due, !.at = [r \in Races |-> race[r].at]]
    BY <1>1 DEF load
  <2>2. due \in [Players -> Races \cup {None}]
    BY DEF races_by_player_rtgg, Keyed, DueRaces
  <2>3. [r \in Races |-> race[r].at] \in [Races -> Times \cup {None}]
    BY DEF Race
  <2>4. scan' \in Scan
    BY <1>0, <2>1, <2>2, <2>3 DEF Scan
  <2>5. QED
    BY <1>1, <2>4 DEF load
<1>2. CASE query
  <2>1. {m \in Rooms : room[m].paged} \in SUBSET Rooms
    OBVIOUS
  <2>2. scan' \in Scan
    BY <1>0, <1>2, <2>1, IdleType DEF query, Scan
  <2>3. QED
    BY <1>2, <2>2, TroubleType DEF query
<1>3. ASSUME NEW m \in Rooms, next(m) PROVE TypeOK'
  <2>1. Entrants(m) \in SUBSET Players /\ scan.todo \ {m} \in SUBSET Rooms
    BY <1>0 DEF Entrants, Scan
  <2>2. scan' \in Scan
    <3>1. CASE CanBeInteresting(m)
      <4>1. scan' = [scan EXCEPT !.pc = "look", !.todo = scan.todo \ {m}, !.room = m,
                                 !.ids = Entrants(m), !.left = Entrants(m)]
        BY <1>0, <1>3, <3>1 DEF next, Scan
      <4>2. m \in Rooms \cup {None} /\ "look" \in {"idle", "query", "next", "look", "match", "url", "finish"}
        OBVIOUS
      <4>3. QED
        BY <1>0, <2>1, <4>1, <4>2 DEF Scan
    <3>2. CASE ~CanBeInteresting(m)
      BY <1>0, <1>3, <3>2 DEF next, Scan
    <3>3. QED
      BY <3>1, <3>2
  <2>3. QED
    BY <1>3, <2>2 DEF next
<1>4. ASSUME NEW p \in Players, interesting_race(p) PROVE TypeOK'
  <2>1. scan.due[p] \in Races \cup {None}
    BY <1>0 DEF Scan
  <2>2. scan' \in Scan
    BY <1>0, <1>4, <2>1 DEF interesting_race, Scan
  <2>3. QED
    BY <1>4, <2>2 DEF interesting_race
<1>5. CASE uninteresting
  BY <1>5, <1>0 DEF uninteresting
<1>6. CASE results
  <2>1. scan' \in Scan
    BY <1>0, <1>6 DEF results, Scan
  <2>2. Trouble \/ Fine
    BY <1>6 DEF results
  <2>3. QED
    BY <1>6, <2>1, <2>2, TroubleType DEF results
<1>7. CASE SaveInfo
  <2>1. scan.found \in Races /\ scan.room \in Rooms /\ scan.at[scan.found] \in Times \cup {None}
    BY <1>7, <1>0 DEF SaveInfo, ScanInv, Scan
  <2>2. scan' \in Scan
    BY <1>0, <1>7 DEF SaveInfo, Scan
  <2>3. race' \in [Races -> Race]
    <3>1. [race EXCEPT ![scan.found].url = scan.room, ![scan.found].at = scan.at[scan.found]]
            \in [Races -> Race]
      BY <2>1, InfoSaved
    <3>2. QED
      BY <1>7, <3>1 DEF SaveInfo
  <2>4. QED
    BY <1>7, <2>2, <2>3, TroubleType DEF SaveInfo
<1>8. CASE trigger_race_finish
  <2>1. scan.found \in Races /\ scan.room \in Rooms
    BY <1>8 DEF trigger_race_finish, ScanInv
  <2>2. /\ result(scan.room, P1[scan.found]) \in PlayerResult
        /\ result(scan.room, P2[scan.found]) \in PlayerResult
    BY <2>1, ResultType, NamesOfRaces
  <2>3. race' \in [Races -> Race]
    <3>1. [race EXCEPT ![scan.found].state = "Finished",
                       ![scan.found].result1 = result(scan.room, P1[scan.found]),
                       ![scan.found].result2 = result(scan.room, P2[scan.found])]
            \in [Races -> Race]
      BY <2>1, <2>2, RaceFinished
    <3>2. QED
      BY <1>8, <3>1 DEF trigger_race_finish
  <2>4. QED
    BY <1>8, <1>0, <2>3, TroubleType DEF trigger_race_finish
<1>9. CASE EndScan
  BY <1>9, IdleType DEF EndScan
<1>10. CASE Crash
  BY <1>10, IdleType, TroubleType DEF Crash
<1>11. QED
  BY <1>1, <1>2, <1>3, <1>4, <1>5, <1>6, <1>7, <1>8, <1>9, <1>10 DEF Scanning

-----------------------------------------------------------------------------
(* The invariant.                                                          *)

\* Nothing changes in a room that is over but whether it is on the first page.
Stays(m) == /\ room'[m].status = room[m].status /\ room'[m].start = room[m].start
            /\ room'[m].goal = room[m].goal     /\ room'[m].entrant = room[m].entrant

LEMMA RoomsStay ==
    ASSUME TypeOK, Next
    PROVE  \A m \in Rooms : room[m].status = "finished" => Stays(m)
<1> USE DEF Stays
<1>1. room \in [Rooms -> Room]
  BY DEF TypeOK
<1>2. CASE World
  <2>1. ASSUME NEW m \in Rooms, NEW E, NEW goal, StartRoom(m, E, goal)
        PROVE  \A n \in Rooms : room[n].status = "finished" => Stays(n)
    BY <1>1, <2>1 DEF StartRoom
  <2>2. ASSUME NEW m \in Rooms, NEW D, NEW F, EndRoom(m, D, F)
        PROVE  \A n \in Rooms : room[n].status = "finished" => Stays(n)
    BY <1>1, <2>2 DEF EndRoom
  <2>3. ASSUME NEW m \in Rooms, OffThePage(m)
        PROVE  \A n \in Rooms : room[n].status = "finished" => Stays(n)
    BY <1>1, <2>3 DEF OffThePage, Room
  <2>4. QED
    BY <1>2, <2>1, <2>2, <2>3 DEF World, Tick, NameIsKnown, schedule, report
<1>3. CASE Scanning \/ Crash
  BY <1>3 DEF Scanning, Crash, load, query, next, uninteresting, interesting_race, results,
              SaveInfo, trigger_race_finish, EndScan
<1>4. QED
  BY <1>2, <1>3 DEF Next

LEMMA ScanInvWorld ==
    ASSUME TypeOK, ScanInv, World
    PROVE  ScanInv'
<1>1. scan' = scan
  BY DEF World, Tick, NameIsKnown, schedule, report, StartRoom, EndRoom, OffThePage
<1>2. \A m \in Rooms : room[m].status = "finished" => Stays(m)
  BY RoomsStay DEF Next
<1>3. QED
  BY <1>1, <1>2 DEF ScanInv, CanBeInteresting, Entrants, HasResult, Stays

LEMMA ScanInvScanner ==
    ASSUME TypeOK, ScanInv, Scanning \/ Crash
    PROVE  ScanInv'
<1>1. room' = room /\ scan \in Scan
  BY DEF Scanning, Crash, load, query, next, uninteresting, interesting_race, results,
         SaveInfo, trigger_race_finish, EndScan, TypeOK
<1>2. ASSUME scan'.pc \in {"idle", "query", "next"}
      PROVE  ScanInv'
  BY <1>2 DEF ScanInv
<1>3. CASE load
  BY <1>1, <1>2, <1>3 DEF load, Scan
<1>4. CASE query
  BY <1>1, <1>2, <1>4, IdleType DEF query, Scan
<1>5. ASSUME NEW m \in Rooms, next(m) PROVE ScanInv'
  <2>1. CASE CanBeInteresting(m)
    <3>1. scan'.pc = "look" /\ scan'.room = m /\ scan'.left = Entrants(m)
      BY <1>1, <1>5, <2>1 DEF next, Scan
    <3>2. QED
      BY <1>1, <2>1, <3>1 DEF ScanInv, CanBeInteresting, Entrants
  <2>2. CASE ~CanBeInteresting(m)
    BY <1>1, <1>2, <1>5, <2>2 DEF next, Scan
  <2>3. QED
    BY <2>1, <2>2
<1>6. ASSUME NEW p \in Players, interesting_race(p) PROVE ScanInv'
  <2> DEFINE r == scan.due[p]
  <2>0. scan.pc = "look" /\ scan.left \subseteq Entrants(scan.room)
    BY <1>6 DEF interesting_race, ScanInv
  <2>1. CASE Worth(r) /\ Matches(r)
    <3>1. r \in Races
      BY <1>1, <2>1 DEF Worth, Scan
    <3>2. scan' = [scan EXCEPT !.ids = {}, !.left = {}, !.pc = "match", !.found = r]
      BY <1>6, <2>1 DEF interesting_race
    <3>3. /\ scan'.pc = "match" /\ scan'.room = scan.room /\ scan'.found = r
          /\ scan'.at = scan.at
      BY <1>1, <3>2 DEF Scan
    <3>4. scan.at[r] <= room[scan.room].start + Early
      BY <2>1 DEF Worth
    <3>5. scan.room \in Rooms /\ CanBeInteresting(scan.room)
      BY <2>0 DEF ScanInv
    <3>6. QED
      BY <1>1, <3>1, <3>3, <3>4, <3>5 DEF ScanInv, CanBeInteresting
  <2>2. CASE ~(Worth(r) /\ Matches(r))
    <3>1. /\ scan'.pc = "look" /\ scan'.room = scan.room /\ scan'.left \subseteq scan.left
      BY <1>1, <1>6, <2>0, <2>2 DEF interesting_race, Scan
    <3>2. QED
      BY <1>1, <2>0, <3>1 DEF ScanInv, CanBeInteresting, Entrants
  <2>3. QED
    BY <2>1, <2>2
<1>7. CASE uninteresting
  BY <1>1, <1>2, <1>7, NextRoomType DEF uninteresting
<1>8. CASE results
  <2>1. CASE scan' = NextRoom
    BY <1>1, <1>2, <2>1, NextRoomType
  <2>2. CASE scan' # NextRoom
    <3>1. /\ scan' = [scan EXCEPT !.pc = "url"]
          /\ HasResult(scan.room, P1[scan.found]) /\ HasResult(scan.room, P2[scan.found])
      BY <1>8, <2>2 DEF results
    <3>2. /\ scan'.pc = "url" /\ scan'.room = scan.room /\ scan'.found = scan.found
          /\ scan'.at = scan.at
      BY <1>1, <3>1 DEF Scan
    <3>3. QED
      BY <1>1, <1>8, <3>1, <3>2 DEF ScanInv, results, CanBeInteresting, HasResult
  <2>3. QED
    BY <2>1, <2>2
<1>9. CASE SaveInfo
  <2>1. /\ scan'.pc = "finish" /\ scan'.room = scan.room /\ scan'.found = scan.found
        /\ scan'.at = scan.at
    BY <1>1, <1>9 DEF SaveInfo, Scan
  <2>2. QED
    BY <1>1, <1>9, <2>1 DEF ScanInv, SaveInfo, CanBeInteresting, HasResult
<1>10. CASE trigger_race_finish
  BY <1>1, <1>2, <1>10, NextRoomType DEF trigger_race_finish
<1>11. CASE EndScan \/ Crash
  BY <1>1, <1>2, <1>11, IdleType DEF EndScan, Crash
<1>12. QED
  BY <1>3, <1>4, <1>5, <1>6, <1>7, <1>8, <1>9, <1>10, <1>11 DEF Scanning

-----------------------------------------------------------------------------
(* What is recorded of a race.                                             *)

\* The two properties, of one race.
UrlOf(r) == \A m \in Rooms : race[r].url = m =>
                PlayedIn(r, m) /\ race[r].at <= room[m].start + Early

ResultsOf(r) == /\ race[r].result1.room = race[r].result2.room
                /\ \A m \in Rooms : race[r].result1.room = m =>
                     /\ PlayedIn(r, m)
                     /\ race[r].result1 = result(m, P1[r])
                     /\ race[r].result2 = result(m, P2[r])

LEMMA PerRace == /\ UrlIsOfItsRace <=> \A r \in Races : UrlOf(r)
                 /\ ResultsAreOfOneRoom <=> \A r \in Races : ResultsOf(r)
BY DEF UrlIsOfItsRace, UrlOf, ResultsAreOfOneRoom, ResultsOf

\* What was played in a room stays played there.
LEMMA PlayedStays ==
    ASSUME TypeOK, Next, NEW r \in Races, NEW m \in Rooms, PlayedIn(r, m)
    PROVE  /\ PlayedIn(r, m)' /\ room'[m].start = room[m].start
           /\ result(m, P1[r])' = result(m, P1[r]) /\ result(m, P2[r])' = result(m, P2[r])
<1>1. Stays(m)
  BY RoomsStay DEF PlayedIn
<1>2. QED
  BY <1>1 DEF PlayedIn, HasResult, result, Stays

\* The row of a race that a step leaves alone stays right.
LEMMA UntouchedUrl ==
    ASSUME TypeOK, Next, NEW r \in Races, UrlOf(r),
           race'[r].url = race[r].url /\ race'[r].at = race[r].at
    PROVE  UrlOf(r)'
<1>1. ASSUME NEW m \in Rooms, race'[r].url = m
      PROVE  PlayedIn(r, m)' /\ race'[r].at <= room'[m].start + Early
  BY <1>1, PlayedStays DEF UrlOf
<1>2. QED
  BY <1>1 DEF UrlOf

LEMMA UntouchedResults ==
    ASSUME TypeOK, Next, NEW r \in Races, ResultsOf(r),
           race'[r].result1 = race[r].result1 /\ race'[r].result2 = race[r].result2
    PROVE  ResultsOf(r)'
<1>1. ASSUME NEW m \in Rooms, race'[r].result1.room = m
      PROVE  /\ PlayedIn(r, m)' /\ race'[r].result1 = result(m, P1[r])'
             /\ race'[r].result2 = result(m, P2[r])'
  BY <1>1, PlayedStays DEF ResultsOf
<1>2. QED
  BY <1>1 DEF ResultsOf

LEMMA RecordStep ==
    ASSUME TypeOK, ScanInv, Next, NEW r \in Races, UrlOf(r), ResultsOf(r)
    PROVE  UrlOf(r)' /\ ResultsOf(r)'
<1>1. race \in [Races -> Race] /\ scan \in Scan
  BY DEF TypeOK
<1>2. CASE race' = race
  BY <1>2, UntouchedUrl, UntouchedResults
<1>3. ASSUME NEW q \in Races, NEW when \in Times, schedule(q, when)
      PROVE  UrlOf(r)' /\ ResultsOf(r)'
  <2>1. /\ race'[r].result1 = race[r].result1 /\ race'[r].result2 = race[r].result2
        /\ q # r => race'[r] = race[r]
        /\ q = r => race'[r].url = None
    BY <1>1, <1>3 DEF schedule, Race
  <2>2. q = r => UrlOf(r)'
    BY <2>1, RacesAssumption DEF UrlOf, None
  <2>3. QED
    BY <2>1, <2>2, UntouchedUrl, UntouchedResults
<1>4. ASSUME NEW q \in Races, report(q)
      PROVE  UrlOf(r)' /\ ResultsOf(r)'
  <2>1. /\ race'[r].url = race[r].url /\ race'[r].at = race[r].at
        /\ q # r => race'[r] = race[r]
        /\ q = r => race'[r].result1 = Told /\ race'[r].result2 = Told
    BY <1>1, <1>4 DEF report, Race
  <2>2. q = r => ResultsOf(r)'
    BY <2>1, RacesAssumption DEF ResultsOf, Told, None
  <2>3. QED
    BY <2>1, <2>2, UntouchedUrl, UntouchedResults
<1>5. CASE SaveInfo /\ race' # race
  <2>1. /\ scan.found \in Races /\ scan.room \in Rooms
        /\ PlayedIn(scan.found, scan.room)
        /\ scan.at[scan.found] <= room[scan.room].start + Early
    BY <1>5 DEF SaveInfo, ScanInv, PlayedIn, CanBeInteresting
  <2>2. race' = [race EXCEPT ![scan.found].url = scan.room,
                             ![scan.found].at = scan.at[scan.found]]
    BY <1>5 DEF SaveInfo
  <2>3. /\ race'[r].result1 = race[r].result1 /\ race'[r].result2 = race[r].result2
        /\ scan.found # r => race'[r] = race[r]
        /\ scan.found = r => race'[r].url = scan.room /\ race'[r].at = scan.at[r]
    BY <1>1, <2>1, <2>2 DEF Race
  <2>4. ASSUME scan.found = r PROVE UrlOf(r)'
    <3>1. PlayedIn(r, scan.room)
      BY <2>1, <2>4
    <3>2. PICK m \in Rooms : m = scan.room
      BY <2>1
    <3>3. PlayedIn(r, m)' /\ room'[m].start = room[m].start
      BY <3>1, <3>2, PlayedStays
    <3>4. race'[r].url = m /\ race'[r].at <= room'[m].start + Early
      BY <2>1, <2>3, <2>4, <3>2, <3>3
    <3>5. QED
      BY <3>3, <3>4 DEF UrlOf
  <2>5. QED
    BY <2>3, <2>4, UntouchedUrl, UntouchedResults
<1>6. CASE trigger_race_finish /\ race' # race
  <2>1. /\ scan.found \in Races /\ scan.room \in Rooms
        /\ PlayedIn(scan.found, scan.room)
    BY <1>6 DEF trigger_race_finish, ScanInv, PlayedIn, CanBeInteresting
  <2>2. race' = [race EXCEPT ![scan.found].state = "Finished",
                             ![scan.found].result1 = result(scan.room, P1[scan.found]),
                             ![scan.found].result2 = result(scan.room, P2[scan.found])]
    BY <1>6 DEF trigger_race_finish
  <2>3. /\ race'[r].url = race[r].url /\ race'[r].at = race[r].at
        /\ scan.found # r => race'[r] = race[r]
        /\ scan.found = r => /\ race'[r].result1 = result(scan.room, P1[r])
                             /\ race'[r].result2 = result(scan.room, P2[r])
    BY <1>1, <2>1, <2>2 DEF Race
  <2>4. ASSUME scan.found = r PROVE ResultsOf(r)'
    <3>1. PICK m \in Rooms : m = scan.room
      BY <2>1
    <3>2. /\ PlayedIn(r, m)'
          /\ result(m, P1[r])' = result(m, P1[r]) /\ result(m, P2[r])' = result(m, P2[r])
      BY <2>1, <2>4, <3>1, PlayedStays
    <3>3. race'[r].result1 = result(m, P1[r]) /\ race'[r].result2 = result(m, P2[r])
      BY <2>3, <2>4, <3>1
    <3>4. result(m, P1[r]).room = m /\ result(m, P2[r]).room = m
      BY ResultRoom, NamesOfRaces
    <3>5. QED
      BY <3>2, <3>3, <3>4 DEF ResultsOf
  <2>5. QED
    BY <2>3, <2>4, UntouchedUrl, UntouchedResults
<1>7. QED
  BY <1>2, <1>3, <1>4, <1>5, <1>6
     DEF Next, World, Scanning, Crash, Tick, NameIsKnown, StartRoom, EndRoom, OffThePage, load, query, next,
         uninteresting, interesting_race, results, EndScan

-----------------------------------------------------------------------------
(* The theorems.                                                           *)

IInv == TypeOK /\ ScanInv /\ UrlIsOfItsRace /\ ResultsAreOfOneRoom

LEMMA Invariance == Spec => []IInv
<1>1. Init => IInv
  <2>1. Init => ScanInv
    BY IdleType DEF Init, ScanInv
  <2>2. Init => UrlIsOfItsRace /\ ResultsAreOfOneRoom
    BY RacesAssumption DEF Init, UrlIsOfItsRace, ResultsAreOfOneRoom, NoResult, None
  <2>3. QED
    BY <2>1, <2>2, InitType DEF IInv
<1>2. IInv /\ Next => IInv'
  <2>1. IInv /\ Next => TypeOK' /\ ScanInv'
    BY WorldType, ScanType, ScanInvWorld, ScanInvScanner DEF IInv, Next
  <2>2. IInv /\ Next => \A r \in Races : UrlOf(r)' /\ ResultsOf(r)'
    BY RecordStep, PerRace DEF IInv
  <2>3. (\A r \in Races : UrlOf(r)' /\ ResultsOf(r)') => UrlIsOfItsRace' /\ ResultsAreOfOneRoom'
    BY DEF UrlIsOfItsRace, UrlOf, ResultsAreOfOneRoom, ResultsOf
  <2>4. QED
    BY <2>1, <2>2, <2>3 DEF IInv
<1>3. IInv /\ UNCHANGED vars => IInv'
  BY DEF IInv, vars, TypeOK, ScanInv, CanBeInteresting, Entrants, HasResult, UrlIsOfItsRace,
         ResultsAreOfOneRoom, PlayedIn, result
<1>4. QED
  BY <1>1, <1>2, <1>3, PTL DEF Spec

\* Rows, rooms and the scanner's copies are always of their types.
THEOREM Typing == Spec => []TypeOK
BY Invariance, PTL DEF IInv

\* The room a race links to is one in which its players raced, at its time.
THEOREM UrlRight == Spec => []UrlIsOfItsRace
BY Invariance, PTL DEF IInv

\* The results the scanner records are those of the two players in one room.
THEOREM ResultsRight == Spec => []ResultsAreOfOneRoom
BY Invariance, PTL DEF IInv

=============================================================================
