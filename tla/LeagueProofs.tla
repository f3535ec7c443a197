---------------------------- MODULE LeagueProofs ----------------------------
(***************************************************************************)
(* Proofs about League, for any players, brackets and overlapping          *)
(* commands: its rows have their types, the first round of a Swiss bracket *)
(* serves everybody once, a round robin is complete and not repeated; and, *)
(* when the closing commands run alone, the league is what LeagueContract  *)
(* says.  Last, which overlap alone can leave open races in a finished     *)
(* bracket.                                                                *)
(***************************************************************************)
EXTENDS League, FiniteSetTheorems, SequenceTheorems, WellFoundedInduction, TLAPS

-----------------------------------------------------------------------------
(* The inductive invariant.                                                *)

\* The rows a command refers to.
CommandOk(c) ==
    /\ c.kind \in {"create_season", "create_bracket", "submit_qualifier"} => c.s # 0
    /\ c.kind = "set_season_state" => c.s \in 1..Len(season) /\ c.state \in SeasonState
    /\ c.kind \in {"add_player", "generate_pairings", "finish_bracket"} => c.b \in 1..Len(bracket)

\* Rounds are of brackets that exist, and their races are between entries
\* made before them.
RacesInv(b) ==
    /\ Len(entry[b]) <= MaxEntries
    /\ b > Len(bracket) => round[b] = <<>>
    /\ \A n \in 1..Len(round[b]) : \A r \in DOMAIN round[b][n] : r \subseteq Entries(b)

\* What NobodyIsLeftOut and EverybodyMeetsOnce say of bracket b, with the
\* entries there are: those made later do not disturb it.
FirstRoundInv(b) ==
    round[b] # <<>> =>
        LET rs == DOMAIN round[b][1] IN
        /\ bracket[b].type = "Swiss" =>
            /\ \A r1, r2 \in rs : r1 = r2 \/ r1 \cap r2 = {}
            /\ \E k \in 0..Len(entry[b]) : UNION rs = 1..k
        /\ bracket[b].type = "RoundRobin" =>
            /\ Len(round[b]) = 1
            /\ \E k \in 0..Len(entry[b]) : rs = kSubset(2, 1..k)
            /\ \A r1, r2 \in rs : Between(b, r1) = Between(b, r2) => r1 = r2
            /\ \A r \in rs : Cardinality(Between(b, r)) = 2

RowsInv ==
    /\ TypeOK
    /\ \A t \in Tasks : CommandOk(task[t])
    /\ \A b \in 1..MaxBrackets : RacesInv(b)

IInv == RowsInv /\ \A b \in 1..MaxBrackets : FirstRoundInv(b)

-----------------------------------------------------------------------------
(* What holds, besides, when the closing commands run alone.               *)

Closing == {"set_season_state", "finish_bracket", "delete_qualifier"}

Working(t) == task[t].pc # "idle"

\* What a command read still holds when it writes: for the commands that
\* others may overlap ...
OpenReads(c) ==
    /\ c.kind = "create_bracket" =>
        /\ c.s <= Len(season) /\ season[c.s].state # "Finished"
        /\ \A s \in 1..(c.s - 1) : season[s].state = "Finished"
    /\ c.kind = "submit_qualifier" => c.s <= Len(season) /\ season[c.s].state = "QualifiersOpen"
    /\ c.kind = "generate_pairings" =>
        /\ c.state # "Finished" => bracket[c.b].state # "Finished"
        /\ c.state = "Started" => bracket[c.b].state = "Started"

\* ... and for those that close something, or delete.
ClosingReads(c) ==
    /\ c.kind = "set_season_state" =>
        /\ MayBecome(season[c.s].state, c.state)
        /\ c.pc = "check" => c.state = "Finished"
        /\ c.pc = "save" =>
            /\ (season[c.s].finished \/ c.finished) <=> c.state = "Finished"
            /\ c.state = "Finished" =>
                \/ season[c.s].state = "Finished"
                \/ \A b \in 1..Len(bracket) :
                       bracket[b].season = c.s => bracket[b].state = "Finished"
    /\ c.kind = "delete_qualifier" =>
        \E s \in 1..Len(season) : c.q \in qualifiers[s] /\ safe_to_delete(s)
    /\ c.kind = "finish_bracket" /\ c.pc = "save" => AllRacesFinished(c.b)

\* A closing command has the league to itself; a season has a finished time
\* exactly when it is finished; and no qualifier is of two seasons.
AloneInv ==
    /\ \A t, u \in Tasks : Working(t) /\ Working(u) /\ t # u => task[t].kind \notin Alone
    /\ \A t \in Tasks : ~Working(t) => task[t] = Idle

ReadsInv == \A t \in Tasks : OpenReads(task[t]) /\ ClosingReads(task[t])

RowsAgree ==
    /\ \A s \in 1..Len(season) : season[s].finished <=> season[s].state = "Finished"
    /\ \A s1, s2 \in 1..MaxSeasons : s1 = s2 \/ qualifiers[s1] \cap qualifiers[s2] = {}

OrderInv == AloneInv /\ ReadsInv /\ RowsAgree

-----------------------------------------------------------------------------
(* The helpers the rows are picked and numbered with.                      *)

\* A set of natural numbers that is not empty has a least element.
LEMMA MinOfSet ==
    ASSUME NEW S \in SUBSET Nat, S # {}
    PROVE  Min(S) \in S /\ \A y \in S : Min(S) <= y
<1> DEFINE R == OpToRel(<, Nat)
<1>1. \E x \in S : \A y \in S : ~ (<<y, x>> \in R)
  <2>1. IsWellFoundedOn(R, Nat)
    BY NatLessThanWellFounded
  <2> HIDE DEF R
  <2>2. QED
    BY <2>1, WFMin
<1>2. \E x \in S : \A y \in S : x <= y
  <2>1. PICK x \in S : \A y \in S : ~ (<<y, x>> \in R)
    BY <1>1
  <2>2. \A y \in S : ~ (y < x)
    BY <2>1 DEF OpToRel
  <2>3. QED
    BY <2>2
<1>3. QED
  BY <1>2 DEF Min

\* A set of natural numbers that is bounded and not empty has a greatest one.
LEMMA MaxOfSet ==
    ASSUME NEW n \in Nat, NEW S \in SUBSET (0..n), S # {}
    PROVE  Max(S) \in S /\ \A y \in S : Max(S) >= y
<1> DEFINE D == {n - x : x \in S}
<1>1. D \in SUBSET Nat /\ D # {}
  <2>1. \A x \in S : n - x \in Nat
    OBVIOUS
  <2>2. QED
    BY <2>1
<1>2. Min(D) \in D /\ \A y \in D : Min(D) <= y
  BY <1>1, MinOfSet
<1>3. PICK x \in S : Min(D) = n - x
  BY <1>2
<1>4. \A y \in S : x >= y
  BY <1>2, <1>3
<1>5. QED
  BY <1>4 DEF Max

\* A player's first entry is one of theirs, and the same for all of them.
LEMMA FirstEntry ==
    ASSUME NEW b, Len(entry[b]) \in Nat, NEW i \in Entries(b)
    PROVE  /\ First(b, i) \in Entries(b) /\ entry[b][First(b, i)] = entry[b][i]
           /\ \A j \in Entries(b) : entry[b][j] = entry[b][i] => First(b, j) = First(b, i)
<1> DEFINE S(k) == {j \in Entries(b) : entry[b][j] = entry[b][k]}
<1>1. S(i) \in SUBSET Nat /\ i \in S(i)
  BY DEF Entries
<1>2. Min(S(i)) \in S(i)
  BY <1>1, MinOfSet
<1>3. \A j \in Entries(b) : entry[b][j] = entry[b][i] => S(j) = S(i)
  OBVIOUS
<1>4. QED
  BY <1>2, <1>3 DEF First

\* Races between entries of the bracket are races.
LEMMA RacesAmong ==
    ASSUME NEW n \in Nat, n <= MaxEntries, NEW is \in SUBSET (1..n), NEW r \in kSubset(2, is)
    PROVE  r \in Races /\ r \subseteq 1..n
BY BoundsAssumption DEF kSubset, Races, BoundsAssumption

\* What a transaction adds are races between entries there are.
LEMMA PairingsAreRaces ==
    ASSUME NEW b, RacesInv(b), entry[b] \in Seq(Players), NEW state, NEW rs \in Pairings(b, state)
    PROVE  rs \in SUBSET Races /\ \A r \in rs : r \subseteq Entries(b)
<1>0. Len(entry[b]) \in Nat /\ Len(entry[b]) <= MaxEntries
  BY DEF RacesInv
<1>1. SUFFICES \E is \in SUBSET Entries(b) : rs \subseteq kSubset(2, is)
  BY <1>0, RacesAmong DEF Entries
<1>2. CASE rs \in generate_initial_pairings_swiss(b)
  BY <1>2 DEF generate_initial_pairings_swiss, Matchings
<1>3. CASE rs \in generate_pairings_round_robin(b)
  BY <1>3 DEF generate_pairings_round_robin
<1>4. CASE rs \in swiss_pairings(b)
  <2> DEFINE raced == UNION {DOMAIN round[b][n] : n \in 1..Len(round[b])}
             is    == {First(b, i) : i \in UNION raced}
  <2>1. rs \in Matchings(is)
    BY <1>4 DEF swiss_pairings
  <2>2. \A i \in UNION raced : i \in Entries(b)
    BY DEF RacesInv
  <2>3. is \in SUBSET Entries(b)
    BY <1>0, <2>2, FirstEntry
  <2> HIDE DEF is
  <2>4. QED
    BY <2>1, <2>3 DEF Matchings
<1>5. QED
  BY <1>2, <1>3, <1>4 DEF Pairings

-----------------------------------------------------------------------------
(* The rows keep their types.                                              *)

LEMMA IdleIsCommand == Idle \in TaskRecord /\ CommandOk(Idle)
BY BoundsAssumption DEF Idle, TaskRecord, CommandOk, BoundsAssumption

\* A command begins, goes on or is done, while rows are at most added.
LEMMA Commands ==
    ASSUME RowsInv, NEW t \in Tasks, NEW c \in TaskRecord, task' = [task EXCEPT ![t] = c],
           Len(season') \in Nat, Len(bracket') \in Nat,
           Len(season) <= Len(season'), Len(bracket) <= Len(bracket'), CommandOk(c)
    PROVE  task' \in [Tasks -> TaskRecord] /\ (\A u \in Tasks : CommandOk(task[u]))'
<1>1. task \in [Tasks -> TaskRecord] /\ Len(season) \in Nat /\ Len(bracket) \in Nat
  BY DEF RowsInv, TypeOK
<1>2. task' \in [Tasks -> TaskRecord]
  BY <1>1
<1>3. ASSUME NEW u \in Tasks PROVE CommandOk(task[u])'
  <2>1. CASE u = t
    BY <1>1, <2>1 DEF CommandOk
  <2>2. CASE u # t
    <3>1. task'[u] = task[u] /\ CommandOk(task[u])
      BY <1>1, <2>2 DEF RowsInv
    <3>2. QED
      BY <1>1, <3>1 DEF CommandOk
  <2>3. QED
    BY <2>1, <2>2
<1>4. QED
  BY <1>2, <1>3

\* A command begins; nothing is written yet.
BeginStep(t) ==
    \/ CreateSeason(t) \/ SetSeasonState(t) \/ CreateBracket(t) \/ AddPlayer(t)
    \/ GeneratePairings(t) \/ FinishBracket(t) \/ SubmitQualifier(t) \/ DeleteQualifier(t)

\* The active season is one that is not finished, the first of them.
LEMMA Active ==
    ASSUME RowsInv
    PROVE  /\ ActiveSeason \in 0..Len(season)
           /\ ActiveSeason # 0 => /\ ~season[ActiveSeason].finished
                                 /\ \A s \in 1..(ActiveSeason - 1) : season[s].finished
<1> DEFINE unfinished == {s \in 1..Len(season) : ~season[s].finished}
<1>0. Len(season) \in Nat
  BY DEF RowsInv, TypeOK
<1>1. CASE unfinished = {}
  BY <1>0, <1>1 DEF ActiveSeason
<1>2. CASE unfinished # {}
  <2>1. unfinished \in SUBSET Nat
    BY <1>0
  <2>2. ActiveSeason = Min(unfinished)
    BY <1>2 DEF ActiveSeason
  <2>3. ActiveSeason \in unfinished /\ \A y \in unfinished : ActiveSeason <= y
    BY <1>2, <2>1, <2>2, MinOfSet
  <2>4. QED
    BY <1>0, <2>3
<1>3. QED
  BY <1>1, <1>2

\* Command c is begun, and what it read holds.
BeginsWith(t, c) ==
    /\ Begin(t, c) /\ c.pc # "idle" /\ CommandOk(c)
    /\ RowsAgree => OpenReads(c) /\ ClosingReads(c)

\* The command a handler begins with is one, refers to rows there are, and what
\* it read of them holds.
LEMMA BeginsRight ==
    ASSUME RowsInv, NEW t \in Tasks, BeginStep(t)
    PROVE  /\ UNCHANGED <<season, bracket, entry, round, qualifiers>>
           /\ \E c \in TaskRecord : BeginsWith(t, c)
<1>0. /\ Len(season) \in Nat /\ Len(season) <= MaxSeasons
      /\ Len(bracket) \in Nat /\ Len(bracket) <= MaxBrackets
      /\ \A s \in 1..Len(season) : season[s] \in SeasonRow
      /\ \A b \in 1..Len(bracket) : bracket[b] \in BracketRow
      /\ qualifiers \in [1..MaxSeasons -> SUBSET (1..MaxQualifiers)]
  BY ElementOfSeq DEF RowsInv, TypeOK
<1>c. Idle \in TaskRecord
  BY IdleIsCommand
<1>k. Kinds = {"create_season", "set_season_state", "create_bracket", "add_player",
              "generate_pairings", "finish_bracket", "submit_qualifier", "delete_qualifier"}
  BY DEF Kinds
<1> USE BoundsAssumption DEF BoundsAssumption
<1>1. CASE CreateSeason(t)
  <2> DEFINE s == Len(season) + 1
             c == [Idle EXCEPT !.kind = "create_season", !.pc = "save", !.s = s]
  <2>1. c \in TaskRecord /\ c.kind = "create_season" /\ c.pc = "save" /\ c.s = s
    <3>1. s \in 0..MaxSeasons
      BY <1>0, <1>1 DEF CreateSeason
    <3> HIDE DEF s
    <3>2. QED
      BY <1>c, <1>k, <3>1 DEF TaskRecord
  <2>2. Begin(t, c)
    BY <1>1 DEF CreateSeason
  <2> HIDE DEF c
  <2>3. CommandOk(c)
    BY <1>0, <2>1 DEF CommandOk
  <2>4. RowsAgree => OpenReads(c) /\ ClosingReads(c)
    BY <2>1 DEF OpenReads, ClosingReads
  <2>5. QED
    BY <1>1, <2>1, <2>2, <2>3, <2>4 DEF CreateSeason, BeginsWith
<1>2. CASE SetSeasonState(t)
  <2>1. PICK s \in 1..Len(season), new \in SeasonState :
            /\ MayBecome(season[s].state, new)
            /\ Begin(t, [Idle EXCEPT !.kind = "set_season_state", !.s = s, !.state = new,
                                    !.pc = IF new = "Finished" /\ season[s].state # new
                                           THEN "check" ELSE "save",
                                    !.finished = season[s].finished])
    BY <1>2 DEF SetSeasonState
  <2> DEFINE pc == IF new = "Finished" /\ season[s].state # new THEN "check" ELSE "save"
             finished == season[s].finished
             c == [Idle EXCEPT !.kind = "set_season_state", !.s = s, !.state = new, !.pc = pc,
                               !.finished = finished]
  <2>2. Begin(t, c)
    BY <2>1
  <2>3. pc \in {"check", "save"} /\ finished \in BOOLEAN /\ s \in 0..MaxSeasons
    BY <1>0 DEF SeasonRow
  <2> HIDE DEF pc, finished
  <2>4. /\ c \in TaskRecord /\ c.kind = "set_season_state" /\ c.s = s /\ c.state = new
        /\ c.pc = pc /\ c.finished = finished
    BY <1>c, <1>k, <2>3 DEF TaskRecord
  <2> HIDE DEF c
  <2>5. CommandOk(c)
    BY <1>0, <2>4 DEF CommandOk
  <2>6. RowsAgree => OpenReads(c) /\ ClosingReads(c)
    <3>1. MayBecome(season[s].state, new) /\ (pc = "check" => new = "Finished")
      BY <2>1 DEF pc
    <3>2. pc = "save" /\ new = "Finished" => season[s].state = "Finished"
      BY DEF pc
    <3>3. ASSUME RowsAgree PROVE finished <=> season[s].state = "Finished"
      BY <3>3 DEF RowsAgree, finished
    <3>4. season[s].state = "Finished" => new = "Finished"
      BY <3>1 DEF MayBecome, SeasonStates
    <3>5. OpenReads(c)
      BY <2>4 DEF OpenReads
    <3>6. ASSUME RowsAgree PROVE ClosingReads(c)
      <4>1. season[s].finished = finished
        BY DEF finished
      <4>2. pc = "save" => (finished <=> new = "Finished")
        BY <3>2, <3>3, <3>4, <3>6
      <4>3. QED
        BY <2>4, <3>1, <3>2, <4>1, <4>2 DEF ClosingReads
    <3>7. QED
      BY <3>5, <3>6
  <2>7. QED
    BY <1>2, <2>2, <2>3, <2>4, <2>5, <2>6 DEF SetSeasonState, BeginsWith
<1>3. CASE CreateBracket(t)
  <2> DEFINE c == [Idle EXCEPT !.kind = "create_bracket", !.pc = "save", !.s = ActiveSeason]
  <2>1. c \in TaskRecord /\ c.kind = "create_bracket" /\ c.pc = "save" /\ c.s = ActiveSeason /\ c.s # 0
    <3>1. ActiveSeason \in 0..MaxSeasons /\ ActiveSeason # 0
      BY <1>0, <1>3, Active DEF CreateBracket
    <3>2. QED
      BY <1>c, <1>k, <3>1 DEF TaskRecord
  <2>2. Begin(t, c)
    BY <1>3 DEF CreateBracket
  <2> HIDE DEF c
  <2>3. CommandOk(c)
    BY <2>1 DEF CommandOk
  <2>4. RowsAgree => OpenReads(c) /\ ClosingReads(c)
    <3>1. /\ c.s \in 1..Len(season) /\ ~season[c.s].finished
          /\ \A s \in 1..(c.s - 1) : season[s].finished /\ s \in 1..Len(season)
      BY <1>0, <2>1, Active
    <3>2. ASSUME RowsAgree PROVE OpenReads(c)
      BY <1>0, <2>1, <3>1, <3>2 DEF OpenReads, RowsAgree
    <3>3. ClosingReads(c)
      BY <2>1 DEF ClosingReads
    <3>4. QED
      BY <3>2, <3>3
  <2>5. QED
    BY <1>3, <2>1, <2>2, <2>3, <2>4 DEF CreateBracket, BeginsWith
<1>4. CASE AddPlayer(t)
  <2>1. PICK b \in 1..Len(bracket) : Begin(t, [Idle EXCEPT !.kind = "add_player", !.pc = "save", !.b = b])
    BY <1>4 DEF AddPlayer
  <2> DEFINE c == [Idle EXCEPT !.kind = "add_player", !.pc = "save", !.b = b]
  <2>2. c \in TaskRecord /\ c.kind = "add_player" /\ c.pc = "save" /\ c.b = b
    <3>1. b \in 0..MaxBrackets
      BY <1>0
    <3>2. QED
      BY <1>c, <1>k, <3>1 DEF TaskRecord
  <2>3. Begin(t, c)
    BY <2>1
  <2> HIDE DEF c
  <2>4. CommandOk(c)
    BY <1>0, <2>2 DEF CommandOk
  <2>5. RowsAgree => OpenReads(c) /\ ClosingReads(c)
    BY <2>2 DEF OpenReads, ClosingReads
  <2>6. QED
    BY <1>4, <2>2, <2>3, <2>4, <2>5 DEF AddPlayer, BeginsWith
<1>5. CASE GeneratePairings(t)
  <2>1. PICK b \in 1..Len(bracket) :
            Begin(t, [Idle EXCEPT !.kind = "generate_pairings", !.pc = "save", !.b = b,
                                  !.state = bracket[b].state])
    BY <1>5 DEF GeneratePairings
  <2> DEFINE state == bracket[b].state
             c == [Idle EXCEPT !.kind = "generate_pairings", !.pc = "save", !.b = b,
                               !.state = state]
  <2>2. c \in TaskRecord /\ c.kind = "generate_pairings" /\ c.pc = "save" /\ c.b = b /\ c.state = state
    <3>1. b \in 0..MaxBrackets /\ state \in BracketState
      BY <1>0 DEF BracketRow
    <3> HIDE DEF state
    <3>2. QED
      BY <1>c, <1>k, <3>1 DEF TaskRecord
  <2>3. Begin(t, c)
    BY <2>1
  <2> HIDE DEF c
  <2>4. CommandOk(c)
    BY <1>0, <2>2 DEF CommandOk
  <2>5. RowsAgree => OpenReads(c) /\ ClosingReads(c)
    BY <2>2 DEF OpenReads, ClosingReads, state
  <2>6. QED
    BY <1>5, <2>2, <2>3, <2>4, <2>5 DEF GeneratePairings, BeginsWith
<1>6. CASE FinishBracket(t)
  <2>1. PICK b \in 1..Len(bracket) : Begin(t, [Idle EXCEPT !.kind = "finish_bracket", !.pc = "check", !.b = b])
    BY <1>6 DEF FinishBracket
  <2> DEFINE c == [Idle EXCEPT !.kind = "finish_bracket", !.pc = "check", !.b = b]
  <2>2. c \in TaskRecord /\ c.kind = "finish_bracket" /\ c.pc = "check" /\ c.b = b
    <3>1. b \in 0..MaxBrackets
      BY <1>0
    <3>2. QED
      BY <1>c, <1>k, <3>1 DEF TaskRecord
  <2>3. Begin(t, c)
    BY <2>1
  <2> HIDE DEF c
  <2>4. CommandOk(c)
    BY <1>0, <2>2 DEF CommandOk
  <2>5. RowsAgree => OpenReads(c) /\ ClosingReads(c)
    BY <2>2 DEF OpenReads, ClosingReads
  <2>6. QED
    BY <1>6, <2>2, <2>3, <2>4, <2>5 DEF FinishBracket, BeginsWith
<1>7. CASE SubmitQualifier(t)
  <2> DEFINE c == [Idle EXCEPT !.kind = "submit_qualifier", !.pc = "save", !.s = ActiveSeason]
  <2>1. c \in TaskRecord /\ c.kind = "submit_qualifier" /\ c.pc = "save" /\ c.s = ActiveSeason /\ c.s # 0
    <3>1. ActiveSeason \in 0..MaxSeasons /\ ActiveSeason # 0
      BY <1>0, <1>7, Active DEF SubmitQualifier
    <3>2. QED
      BY <1>c, <1>k, <3>1 DEF TaskRecord
  <2>2. Begin(t, c)
    BY <1>7 DEF SubmitQualifier
  <2> HIDE DEF c
  <2>3. CommandOk(c)
    BY <2>1 DEF CommandOk
  <2>4. RowsAgree => OpenReads(c) /\ ClosingReads(c)
    <3>1. c.s \in 1..Len(season) /\ season[c.s].state = "QualifiersOpen"
      BY <1>0, <1>7, <2>1, Active DEF SubmitQualifier
    <3>2. QED
      BY <1>0, <2>1, <3>1 DEF OpenReads, ClosingReads
  <2>5. QED
    BY <1>7, <2>1, <2>2, <2>3, <2>4 DEF SubmitQualifier, BeginsWith
<1>8. CASE DeleteQualifier(t)
  <2>1. PICK s \in 1..Len(season) : safe_to_delete(s) /\ \E id \in qualifiers[s] :
            Begin(t, [Idle EXCEPT !.kind = "delete_qualifier", !.pc = "save", !.q = id])
    BY <1>8 DEF DeleteQualifier
  <2>2. PICK id \in qualifiers[s] :
            Begin(t, [Idle EXCEPT !.kind = "delete_qualifier", !.pc = "save", !.q = id])
    BY <2>1
  <2> DEFINE c == [Idle EXCEPT !.kind = "delete_qualifier", !.pc = "save", !.q = id]
  <2>3. c \in TaskRecord /\ c.kind = "delete_qualifier" /\ c.pc = "save" /\ c.q = id
    <3>1. id \in 0..MaxQualifiers
      BY <1>0
    <3>2. QED
      BY <1>c, <1>k, <3>1 DEF TaskRecord
  <2>4. Begin(t, c)
    BY <2>2
  <2> HIDE DEF c
  <2>5. CommandOk(c)
    BY <2>3 DEF CommandOk
  <2>6. RowsAgree => OpenReads(c) /\ ClosingReads(c)
    BY <2>1, <2>3 DEF OpenReads, ClosingReads
  <2>7. QED
    BY <1>8, <2>3, <2>4, <2>5, <2>6 DEF DeleteQualifier, BeginsWith
<1>9. QED
  BY <1>1, <1>2, <1>3, <1>4, <1>5, <1>6, <1>7, <1>8 DEF BeginStep

\* No row is written.
LEMMA OnlyTasks ==
    ASSUME RowsInv, UNCHANGED <<season, bracket, entry, round, qualifiers>>,
           NEW t \in Tasks, NEW c \in TaskRecord, CommandOk(c), task' = [task EXCEPT ![t] = c]
    PROVE  RowsInv'
<1>0. /\ Len(season') \in Nat /\ Len(bracket') \in Nat
      /\ Len(season) <= Len(season') /\ Len(bracket) <= Len(bracket')
  BY LenProperties DEF RowsInv, TypeOK
<1>1. task' \in [Tasks -> TaskRecord] /\ (\A u \in Tasks : CommandOk(task[u]))'
  BY <1>0, Commands
<1>2. TypeOK'
  BY <1>1 DEF RowsInv, TypeOK
<1>3. \A b \in 1..MaxBrackets : RacesInv(b)'
  BY DEF RowsInv, RacesInv, Entries
<1>4. QED
  BY <1>1, <1>2, <1>3 DEF RowsInv

\* Seasons are written, and at most one is added.
LEMMA OnlySeasons ==
    ASSUME RowsInv, NEW t \in Tasks, Done(t), UNCHANGED <<bracket, entry, round>>,
           season' \in Seq(SeasonRow), Len(season') <= MaxSeasons, Len(season) <= Len(season'),
           qualifiers' \in [1..MaxSeasons -> SUBSET (1..MaxQualifiers)]
    PROVE  RowsInv'
<1>1. /\ Len(season') \in Nat /\ Len(bracket') \in Nat
      /\ Len(season) <= Len(season') /\ Len(bracket) <= Len(bracket')
  BY LenProperties DEF RowsInv, TypeOK
<1>2. task' \in [Tasks -> TaskRecord] /\ (\A u \in Tasks : CommandOk(task[u]))'
  <2>1. task' = [task EXCEPT ![t] = Idle]
    BY DEF Done
  <2>2. QED
    BY <1>1, <2>1, Commands, IdleIsCommand
<1>3. TypeOK'
  BY <1>2 DEF RowsInv, TypeOK
<1>4. \A b \in 1..MaxBrackets : RacesInv(b)'
  BY DEF RowsInv, RacesInv, Entries
<1>5. QED
  BY <1>2, <1>3, <1>4 DEF RowsInv

LEMMA SeasonRows ==
    ASSUME RowsInv, NEW t \in Tasks, InsertSeason(t) \/ SeasonFinish(t) \/ SeasonUpdate(t)
    PROVE  RowsInv'
<1>0. /\ season \in Seq(SeasonRow) /\ Len(season) \in Nat /\ Len(bracket) \in Nat
      /\ Len(season) <= MaxSeasons /\ task[t] \in TaskRecord /\ CommandOk(task[t])
      /\ task \in [Tasks -> TaskRecord]
      /\ qualifiers \in [1..MaxSeasons -> SUBSET (1..MaxQualifiers)]
  BY LenProperties DEF RowsInv, TypeOK
<1>s. SeasonState = {"Created", "QualifiersOpen", "QualifiersClosed", "Started", "Finished"}
  BY DEF SeasonState, SeasonStates
<1>1. CASE InsertSeason(t)
  <2>1. CASE task[t].s = Len(season) + 1
    <3> DEFINE row == [state |-> "Created", finished |-> FALSE]
    <3>1. row \in SeasonRow
      BY <1>s DEF SeasonRow
    <3>2. season' = Append(season, row)
      BY <1>1, <2>1 DEF InsertSeason
    <3>3. season' \in Seq(SeasonRow) /\ Len(season') = Len(season) + 1
      BY <1>0, <3>1, <3>2, AppendProperties
    <3>4. task[t].s <= MaxSeasons
      BY <1>0, BoundsAssumption DEF TaskRecord, BoundsAssumption
    <3>5. QED
      BY <1>0, <1>1, <2>1, <3>3, <3>4, OnlySeasons DEF InsertSeason
  <2>2. CASE task[t].s # Len(season) + 1
    BY <1>0, <1>1, <2>2, OnlySeasons DEF InsertSeason
  <2>3. QED
    BY <2>1, <2>2
<1>2. CASE SeasonFinish(t)
  <2>1. \E c \in {Idle, [task[t] EXCEPT !.pc = "save", !.finished = TRUE]} :
            task' = [task EXCEPT ![t] = c]
    <3>1. CASE task' = [task EXCEPT ![t].pc = "save", ![t].finished = TRUE]
      BY <1>0, <3>1
    <3>2. CASE Done(t)
      BY <3>2 DEF Done
    <3>3. QED
      BY <1>2, <3>1, <3>2 DEF SeasonFinish
  <2> DEFINE c == [task[t] EXCEPT !.pc = "save", !.finished = TRUE]
  <2>2. c \in TaskRecord /\ CommandOk(c)
    BY <1>0 DEF TaskRecord, CommandOk
  <2> HIDE DEF c
  <2>3. PICK x \in TaskRecord : CommandOk(x) /\ task' = [task EXCEPT ![t] = x]
    BY <2>1, <2>2, IdleIsCommand DEF c
  <2>4. UNCHANGED <<season, bracket, entry, round, qualifiers>>
    BY <1>2 DEF SeasonFinish
  <2>5. QED
    BY <2>3, <2>4, OnlyTasks
<1>3. CASE SeasonUpdate(t)
  <2> DEFINE s == task[t].s
             row == [state |-> task[t].state, finished |-> season[s].finished \/ task[t].finished]
  <2>1. s \in 1..Len(season) /\ task[t].state \in SeasonState
    BY <1>0, <1>3 DEF SeasonUpdate, At, CommandOk
  <2>2. row \in SeasonRow
    BY <2>1 DEF SeasonRow
  <2>3. season' = [season EXCEPT ![s] = row]
    BY <1>3 DEF SeasonUpdate
  <2> HIDE DEF s, row
  <2>4. season' \in Seq(SeasonRow) /\ Len(season') = Len(season)
    BY <1>0, <2>1, <2>2, <2>3, ExceptSeq
  <2>5. QED
    BY <1>0, <1>3, <2>4, OnlySeasons DEF SeasonUpdate
<1>4. QED
  BY <1>1, <1>2, <1>3

\* Brackets, entries and rounds are written.
LEMMA OnlyBrackets ==
    ASSUME RowsInv, NEW t \in Tasks, Done(t), UNCHANGED <<season, qualifiers>>,
           bracket' \in Seq(BracketRow), Len(bracket') <= MaxBrackets,
           Len(bracket) <= Len(bracket'),
           entry' \in [1..MaxBrackets -> Seq(Players)],
           round' \in [1..MaxBrackets -> Seq(Round)],
           \A b \in 1..MaxBrackets : RacesInv(b)'
    PROVE  RowsInv'
<1>1. /\ Len(season') \in Nat /\ Len(bracket') \in Nat
      /\ Len(season) <= Len(season') /\ Len(bracket) <= Len(bracket')
  BY LenProperties DEF RowsInv, TypeOK
<1>2. task' \in [Tasks -> TaskRecord] /\ (\A u \in Tasks : CommandOk(task[u]))'
  <2>1. task' = [task EXCEPT ![t] = Idle]
    BY DEF Done
  <2>2. QED
    BY <1>1, <2>1, Commands, IdleIsCommand
<1>3. TypeOK'
  BY <1>2 DEF RowsInv, TypeOK
<1>4. QED
  BY <1>2, <1>3 DEF RowsInv

\* What a bracket's command works with.
LEMMA BracketCommandTypes ==
    ASSUME RowsInv, NEW t \in Tasks
    PROVE  /\ bracket \in Seq(BracketRow) /\ Len(bracket) \in Nat /\ Len(bracket) <= MaxBrackets
           /\ entry \in [1..MaxBrackets -> Seq(Players)]
           /\ round \in [1..MaxBrackets -> Seq(Round)]
           /\ task \in [Tasks -> TaskRecord] /\ task[t] \in TaskRecord
           /\ task[t].kind \in {"add_player", "generate_pairings", "finish_bracket"} =>
                  task[t].b \in 1..Len(bracket) /\ task[t].b \in 1..MaxBrackets
<1>1. /\ bracket \in Seq(BracketRow) /\ Len(bracket) \in Nat /\ Len(bracket) <= MaxBrackets
      /\ entry \in [1..MaxBrackets -> Seq(Players)] /\ round \in [1..MaxBrackets -> Seq(Round)]
      /\ task \in [Tasks -> TaskRecord] /\ CommandOk(task[t])
  BY LenProperties DEF RowsInv, TypeOK
<1>2. task[t].kind \in {"add_player", "generate_pairings", "finish_bracket"} =>
          task[t].b \in 1..Len(bracket)
  BY <1>1 DEF CommandOk
<1>3. \A i \in 1..Len(bracket) : i \in 1..MaxBrackets
  BY <1>1, BoundsAssumption DEF BoundsAssumption
<1>4. QED
  BY <1>1, <1>2, <1>3

LEMMA InsertBracketRows ==
    ASSUME RowsInv, NEW t \in Tasks, InsertBracket(t)
    PROVE  RowsInv'
<1>1. PICK type \in BracketType :
          bracket' = Append(bracket, [state |-> "Unstarted", type |-> type, season |-> task[t].s])
  BY DEF InsertBracket
<1> DEFINE row == [state |-> "Unstarted", type |-> type, season |-> task[t].s]
<1>2. task[t].s \in 1..MaxSeasons
  <2>1. task[t] \in TaskRecord /\ task[t].s # 0
    BY DEF RowsInv, TypeOK, CommandOk, InsertBracket, At
  <2>2. QED
    BY <2>1, BoundsAssumption DEF TaskRecord, BoundsAssumption
<1>3. row \in BracketRow
  BY <1>2 DEF BracketRow, BracketState
<1> HIDE DEF row
<1>4. bracket' \in Seq(BracketRow) /\ Len(bracket') = Len(bracket) + 1
  BY <1>1, <1>3, BracketCommandTypes, AppendProperties DEF row
<1>5. Len(bracket') <= MaxBrackets /\ Len(bracket) <= Len(bracket')
  BY <1>4, BracketCommandTypes, BoundsAssumption DEF InsertBracket, BoundsAssumption
<1>6. ASSUME NEW b \in 1..MaxBrackets PROVE RacesInv(b)'
  <2>1. RacesInv(b) /\ UNCHANGED <<entry, round>>
    BY DEF RowsInv, InsertBracket
  <2>2. b > Len(bracket') => b > Len(bracket)
    BY <1>4, BracketCommandTypes
  <2>3. QED
    BY <2>1, <2>2 DEF RacesInv, Entries
<1>7. QED
  BY <1>4, <1>5, <1>6, OnlyBrackets, BracketCommandTypes DEF InsertBracket

LEMMA InsertEntryRows ==
    ASSUME RowsInv, NEW t \in Tasks, InsertEntry(t)
    PROVE  /\ RowsInv'
           /\ \A b \in 1..MaxBrackets :
                  /\ Len(entry'[b]) \in Nat /\ Len(entry[b]) \in Nat
                  /\ Len(entry[b]) <= Len(entry'[b])
                  /\ \A i \in 1..Len(entry[b]) : entry'[b][i] = entry[b][i]
<1> DEFINE k == task[t].b
<1>1. PICK p \in Players : entry' = [entry EXCEPT ![k] = Append(@, p)]
  BY DEF InsertEntry
<1>2. k \in 1..MaxBrackets /\ entry \in [1..MaxBrackets -> Seq(Players)] /\ Len(entry[k]) < MaxEntries
  BY BracketCommandTypes DEF InsertEntry, At
<1>3. entry'[k] = Append(entry[k], p) /\ \A b \in 1..MaxBrackets : b # k => entry'[b] = entry[b]
  BY <1>1, <1>2
<1> HIDE DEF k
<1>4. ASSUME NEW b \in 1..MaxBrackets
      PROVE  /\ entry'[b] \in Seq(Players) /\ Len(entry'[b]) \in Nat /\ Len(entry[b]) \in Nat
             /\ Len(entry[b]) <= Len(entry'[b]) /\ Len(entry'[b]) <= MaxEntries
             /\ \A i \in 1..Len(entry[b]) : entry'[b][i] = entry[b][i]
  <2>1. entry[b] \in Seq(Players) /\ Len(entry[b]) \in Nat /\ Len(entry[b]) <= MaxEntries
    BY <1>2, LenProperties DEF RowsInv, RacesInv
  <2>2. CASE b = k
    <3>1. /\ Append(entry[k], p) \in Seq(Players)
          /\ Len(Append(entry[k], p)) = Len(entry[k]) + 1
          /\ \A i \in 1..Len(entry[k]) : Append(entry[k], p)[i] = entry[k][i]
      BY <1>2, <2>1, <2>2, AppendProperties
    <3>2. /\ entry'[b] \in Seq(Players) /\ Len(entry'[b]) = Len(entry[b]) + 1
          /\ \A i \in 1..Len(entry[b]) : entry'[b][i] = entry[b][i]
      BY <1>3, <2>2, <3>1
    <3>3. Len(entry[b]) < MaxEntries
      BY <1>2, <2>2
    <3>4. QED
      BY <2>1, <3>2, <3>3, BoundsAssumption DEF BoundsAssumption
  <2>3. CASE b # k
    BY <1>3, <2>1, <2>3
  <2>4. QED
    BY <2>2, <2>3
<1>5. entry' \in [1..MaxBrackets -> Seq(Players)]
  BY <1>1, <1>2, <1>4
<1>6. ASSUME NEW b \in 1..MaxBrackets PROVE RacesInv(b)'
  <2>1. RacesInv(b) /\ UNCHANGED <<bracket, round>>
    BY DEF RowsInv, InsertEntry
  <2>2. \A n \in 1..Len(round[b]) : \A r \in DOMAIN round[b][n] : r \subseteq 1..Len(entry'[b])
    BY <1>4, <2>1 DEF RacesInv, Entries
  <2>3. QED
    BY <1>4, <2>1, <2>2 DEF RacesInv, Entries
<1>7. RowsInv'
  BY <1>5, <1>6, OnlyBrackets, BracketCommandTypes DEF InsertEntry
<1>8. QED
  BY <1>4, <1>7

\* A bracket that changes its state keeps its kind and its season.
LEMMA BracketChanges ==
    ASSUME RowsInv, NEW k \in 1..Len(bracket), NEW state \in BracketState,
           bracket' = [bracket EXCEPT ![k].state = state]
    PROVE  /\ bracket' \in Seq(BracketRow) /\ Len(bracket') = Len(bracket)
           /\ bracket'[k].state = state
           /\ \A b \in 1..Len(bracket) : /\ bracket'[b].type = bracket[b].type
                                         /\ bracket'[b].season = bracket[b].season
                                         /\ b # k => bracket'[b] = bracket[b]
<1> DEFINE row == [bracket[k] EXCEPT !.state = state]
<1>1. bracket \in Seq(BracketRow)
  BY DEF RowsInv, TypeOK
<1>2. bracket' = [bracket EXCEPT ![k] = row]
  BY <1>1
<1>3. bracket[k] \in BracketRow
  BY <1>1, ElementOfSeq
<1>4. /\ row \in BracketRow /\ row.type = bracket[k].type /\ row.season = bracket[k].season
      /\ row.state = state
  BY <1>3 DEF BracketRow
<1> HIDE DEF row
<1>5. /\ bracket' \in Seq(BracketRow) /\ Len(bracket') = Len(bracket)
      /\ \A b \in 1..Len(bracket) : bracket'[b] = IF b = k THEN row ELSE bracket[b]
  BY <1>1, <1>2, <1>4, ExceptSeq
<1>6. QED
  BY <1>4, <1>5

LEMMA FinishBracketRows ==
    ASSUME RowsInv, NEW t \in Tasks, BracketFinish(t) \/ BracketUpdate(t)
    PROVE  /\ RowsInv' /\ UNCHANGED <<entry, round>>
           /\ \A b \in 1..Len(bracket) : bracket'[b].type = bracket[b].type
<1>1. CASE BracketFinish(t)
  <2> DEFINE c == [task[t] EXCEPT !.pc = "save"]
  <2>1. c \in TaskRecord /\ CommandOk(c)
    <3>1. task[t] \in TaskRecord /\ CommandOk(task[t])
      BY DEF RowsInv, TypeOK
    <3>2. QED
      BY <3>1 DEF TaskRecord, CommandOk
  <2>2. task' = [task EXCEPT ![t] = c] \/ task' = [task EXCEPT ![t] = Idle]
    BY <1>1, BracketCommandTypes DEF BracketFinish, Done
  <2> HIDE DEF c
  <2>3. PICK x \in TaskRecord : CommandOk(x) /\ task' = [task EXCEPT ![t] = x]
    BY <2>1, <2>2, IdleIsCommand
  <2>4. UNCHANGED <<season, bracket, entry, round, qualifiers>>
    BY <1>1 DEF BracketFinish
  <2>5. QED
    BY <2>3, <2>4, OnlyTasks
<1>2. CASE BracketUpdate(t)
  <2> DEFINE k == task[t].b
  <2>1. k \in 1..Len(bracket) /\ bracket' = [bracket EXCEPT ![k].state = "Finished"]
    BY <1>2, BracketCommandTypes DEF BracketUpdate, At
  <2> HIDE DEF k
  <2>2. /\ bracket' \in Seq(BracketRow) /\ Len(bracket') = Len(bracket)
        /\ \A b \in 1..Len(bracket) : bracket'[b].type = bracket[b].type
    BY <2>1, BracketChanges DEF BracketState
  <2>3. ASSUME NEW b \in 1..MaxBrackets PROVE RacesInv(b)'
    BY <1>2, <2>2 DEF RowsInv, RacesInv, Entries, BracketUpdate
  <2>4. /\ Len(bracket') <= MaxBrackets /\ Len(bracket) <= Len(bracket')
        /\ UNCHANGED <<season, entry, round, qualifiers>> /\ Done(t)
    BY <1>2, <2>2, BracketCommandTypes DEF BracketUpdate
  <2>5. RowsInv'
    BY <2>2, <2>3, <2>4, OnlyBrackets, BracketCommandTypes
  <2>6. QED
    BY <2>2, <2>4, <2>5
<1>3. QED
  BY <1>1, <1>2

\* A round is added to a bracket.
LEMMA RoundIsAdded ==
    ASSUME RowsInv, NEW k \in 1..Len(bracket), NEW state, NEW rs \in Pairings(k, state),
           round' = [round EXCEPT ![k] = Append(@, [r \in rs |-> TRUE])],
           Len(bracket') = Len(bracket), UNCHANGED entry
    PROVE  /\ round' \in [1..MaxBrackets -> Seq(Round)]
           /\ Len(round'[k]) = Len(round[k]) + 1
           /\ round'[k][Len(round[k]) + 1] = [r \in rs |-> TRUE]
           /\ \A n \in 1..Len(round[k]) : round'[k][n] = round[k][n]
           /\ \A b \in 1..MaxBrackets : b # k => round'[b] = round[b]
           /\ \A b \in 1..MaxBrackets : RacesInv(b)'
<1> DEFINE new == [r \in rs |-> TRUE]
<1>0. /\ round \in [1..MaxBrackets -> Seq(Round)] /\ entry \in [1..MaxBrackets -> Seq(Players)]
      /\ k \in 1..MaxBrackets /\ Len(bracket) \in Nat /\ \A b \in 1..MaxBrackets : RacesInv(b)
  BY BoundsAssumption DEF RowsInv, TypeOK, BoundsAssumption
<1>1. rs \in SUBSET Races /\ \A r \in rs : r \subseteq Entries(k)
  BY <1>0, PairingsAreRaces
<1>2. new \in Round /\ DOMAIN new = rs
  BY <1>1 DEF Round
<1>3. round'[k] = Append(round[k], new) /\ \A b \in 1..MaxBrackets : b # k => round'[b] = round[b]
  BY <1>0
<1>4. round[k] \in Seq(Round) /\ Len(round[k]) \in Nat
  BY <1>0, LenProperties
<1>5. /\ Append(round[k], new) \in Seq(Round)
      /\ Len(Append(round[k], new)) = Len(round[k]) + 1
      /\ Append(round[k], new)[Len(round[k]) + 1] = new
      /\ \A n \in 1..Len(round[k]) : Append(round[k], new)[n] = round[k][n]
  <2> HIDE DEF new
  <2>1. QED
    BY <1>2, <1>4, AppendProperties
<1>6. round' \in [1..MaxBrackets -> Seq(Round)]
  <2> HIDE DEF new
  <2>1. round' = [round EXCEPT ![k] = Append(round[k], new)]
    BY <1>0 DEF new
  <2>2. QED
    BY <1>0, <1>5, <2>1
<1>7. ASSUME NEW b \in 1..MaxBrackets PROVE RacesInv(b)'
  <2>1. CASE b = k
    <3>1. RacesInv(k) /\ ~(k > Len(bracket)) /\ entry' = entry /\ Len(bracket') = Len(bracket)
      BY <1>0
    <3>2. ASSUME NEW n \in 1..Len(round'[k]), NEW r \in DOMAIN round'[k][n]
          PROVE  r \subseteq Entries(k)
      <4>1. CASE n = Len(round[k]) + 1
        BY <1>1, <1>2, <1>3, <1>5, <4>1
      <4>2. CASE n # Len(round[k]) + 1
        <5>1. n \in 1..Len(round[k])
          BY <1>3, <1>4, <1>5, <4>2
        <5>2. round'[k][n] = round[k][n]
          BY <1>3, <1>5, <5>1
        <5>3. QED
          BY <3>1, <5>1, <5>2 DEF RacesInv
      <4>3. QED
        BY <4>1, <4>2
    <3>3. QED
      BY <2>1, <3>1, <3>2 DEF RacesInv, Entries
  <2>2. CASE b # k
    BY <1>0, <1>3, <2>2 DEF RacesInv, Entries
  <2>3. QED
    BY <2>1, <2>2
<1>8. QED
  BY <1>3, <1>5, <1>6, <1>7

\* The transaction adds a round to its bracket and nothing to any other, or
\* changes nothing at all.
LEMMA PairingsStep ==
    ASSUME RowsInv, NEW t \in Tasks, generate_pairings(t)
    PROVE  LET k == task[t].b IN
           /\ k \in 1..Len(bracket) /\ UNCHANGED entry
           /\ bracket' \in Seq(BracketRow) /\ Len(bracket') = Len(bracket)
           /\ \A b \in 1..Len(bracket) : bracket'[b].type = bracket[b].type
           /\ \/ UNCHANGED <<round, bracket>>
              \/ \E rs \in Pairings(k, task[t].state) :
                     round' = [round EXCEPT ![k] = Append(@, [r \in rs |-> TRUE])]
<1> DEFINE k == task[t].b
<1>1. k \in 1..Len(bracket)
  BY BracketCommandTypes DEF generate_pairings, At
<1>2. UNCHANGED entry
  BY DEF generate_pairings
<1>3. \/ UNCHANGED <<round, bracket>>
      \/ \E rs \in Pairings(k, task[t].state) :
             round' = [round EXCEPT ![k] = Append(@, [r \in rs |-> TRUE])]
  BY DEF generate_pairings
<1>4. bracket' = bracket \/ bracket' = [bracket EXCEPT ![k].state = "Started"]
  BY DEF generate_pairings
<1> HIDE DEF k
<1>5. /\ bracket' \in Seq(BracketRow) /\ Len(bracket') = Len(bracket)
      /\ \A b \in 1..Len(bracket) : bracket'[b].type = bracket[b].type
  <2>1. CASE bracket' = bracket
    BY <2>1, BracketCommandTypes
  <2>2. CASE bracket' = [bracket EXCEPT ![k].state = "Started"]
    BY <1>1, <2>2, BracketChanges DEF BracketState
  <2>3. QED
    BY <1>4, <2>1, <2>2
<1>6. QED
  BY <1>1, <1>2, <1>3, <1>5 DEF k

LEMMA PairingsRows ==
    ASSUME RowsInv, NEW t \in Tasks, generate_pairings(t)
    PROVE  RowsInv'
<1> DEFINE k == task[t].b
<1>0. k \in 1..Len(bracket) /\ bracket' \in Seq(BracketRow) /\ Len(bracket') = Len(bracket)
  BY PairingsStep
<1>1. /\ k \in 1..Len(bracket) /\ UNCHANGED <<entry, season, qualifiers>> /\ Done(t)
      /\ bracket' \in Seq(BracketRow) /\ Len(bracket') = Len(bracket)
      /\ Len(bracket') <= MaxBrackets /\ Len(bracket) <= Len(bracket')
  <2>1. UNCHANGED <<entry, season, qualifiers>> /\ Done(t)
    BY DEF generate_pairings
  <2>2. QED
    BY <1>0, <2>1, BracketCommandTypes
<1>2. CASE UNCHANGED <<round, bracket>>
  <2>1. \A b \in 1..MaxBrackets : RacesInv(b)'
    BY <1>1, <1>2 DEF RowsInv, RacesInv, Entries
  <2>2. QED
    BY <1>1, <1>2, <2>1, OnlyBrackets, BracketCommandTypes
<1>3. ASSUME NEW rs \in Pairings(k, task[t].state),
             round' = [round EXCEPT ![k] = Append(@, [r \in rs |-> TRUE])]
      PROVE  RowsInv'
  <2> HIDE DEF k
  <2>1. round' \in [1..MaxBrackets -> Seq(Round)] /\ \A b \in 1..MaxBrackets : RacesInv(b)'
    BY <1>1, <1>3, RoundIsAdded
  <2>2. QED
    BY <1>1, <2>1, OnlyBrackets, BracketCommandTypes
<1>4. QED
  BY <1>2, <1>3, PairingsStep

\* A race that is finished stays in its round.
LEMMA RaceFinishedRows ==
    ASSUME RowsInv, RaceIsFinished
    PROVE  /\ RowsInv' /\ UNCHANGED <<bracket, entry>>
           /\ \A b \in 1..MaxBrackets :
                  /\ Len(round'[b]) = Len(round[b])
                  /\ \A n \in 1..Len(round[b]) : DOMAIN round'[b][n] = DOMAIN round[b][n]
<1>1. PICK k \in 1..Len(bracket) : \E x \in Open(k) :
          round' = [round EXCEPT ![k][x[1]][x[2]] = FALSE]
  BY DEF RaceIsFinished
<1>2. PICK x \in Open(k) : round' = [round EXCEPT ![k][x[1]][x[2]] = FALSE]
  BY <1>1
<1> DEFINE i == x[1]
           r == x[2]
           new == [round[k][i] EXCEPT ![r] = FALSE]
           rounds == [round[k] EXCEPT ![i] = new]
<1>3. i \in 1..Len(round[k]) /\ r \in DOMAIN round[k][i]
  BY DEF Open
<1>4. k \in 1..MaxBrackets /\ round \in [1..MaxBrackets -> Seq(Round)] /\ round[k] \in Seq(Round)
  BY BoundsAssumption DEF RowsInv, TypeOK, BoundsAssumption
<1>5. round' = [round EXCEPT ![k] = rounds]
  BY <1>2, <1>3, <1>4
<1>6. new \in Round /\ DOMAIN new = DOMAIN round[k][i]
  <2>1. round[k][i] \in Round
    BY <1>3, <1>4, ElementOfSeq
  <2>2. PICK rs \in SUBSET Races : round[k][i] \in [rs -> BOOLEAN]
    BY <2>1 DEF Round
  <2>3. new \in [rs -> BOOLEAN]
    BY <2>2
  <2>4. QED
    BY <2>2, <2>3 DEF Round
<1> HIDE DEF new
<1>7. /\ rounds \in Seq(Round) /\ Len(rounds) = Len(round[k])
      /\ \A n \in 1..Len(round[k]) : rounds[n] = IF n = i THEN new ELSE round[k][n]
  BY <1>3, <1>4, <1>6, ExceptSeq
<1> HIDE DEF rounds, i
<1>8. round' \in [1..MaxBrackets -> Seq(Round)]
  BY <1>4, <1>5, <1>7
<1>9. \A b \in 1..MaxBrackets :
          /\ Len(round'[b]) = Len(round[b])
          /\ \A n \in 1..Len(round[b]) : DOMAIN round'[b][n] = DOMAIN round[b][n]
  BY <1>4, <1>5, <1>6, <1>7
<1>10. UNCHANGED <<season, bracket, entry, qualifiers, task>>
  BY DEF RaceIsFinished
<1>11. TypeOK'
  BY <1>8, <1>10 DEF RowsInv, TypeOK
<1>12. ASSUME NEW b \in 1..MaxBrackets PROVE RacesInv(b)'
  <2>1. RacesInv(b)
    BY DEF RowsInv
  <2>2. round[b] = <<>> => round'[b] = <<>>
    <3>1. round[b] \in Seq(Round) /\ round'[b] \in Seq(Round)
      BY <1>4, <1>8
    <3>2. QED
      BY <1>9, <3>1, EmptySeq
  <2>3. QED
    BY <1>9, <1>10, <2>1, <2>2 DEF RacesInv, Entries
<1>13. (\A u \in Tasks : CommandOk(task[u]))'
  BY <1>10 DEF RowsInv, CommandOk
<1>14. QED
  BY <1>9, <1>10, <1>11, <1>12, <1>13 DEF RowsInv

LEMMA QualifierRows ==
    ASSUME RowsInv, NEW t \in Tasks, InsertQualifier(t) \/ QualifierDelete(t)
    PROVE  RowsInv'
<1>0. /\ season \in Seq(SeasonRow) /\ Len(season) \in Nat /\ Len(season) <= MaxSeasons
      /\ qualifiers \in [1..MaxSeasons -> SUBSET (1..MaxQualifiers)]
  BY LenProperties DEF RowsInv, TypeOK
<1>1. CASE InsertQualifier(t)
  <2> DEFINE ids == {0} \cup UNION {qualifiers[s] : s \in 1..MaxSeasons}
             id == 1 + Max(ids)
             s == task[t].s
  <2>1. ids \in SUBSET (0..MaxQualifiers) /\ ids # {}
    BY <1>0, BoundsAssumption DEF BoundsAssumption
  <2>2. Max(ids) \in 0..MaxQualifiers
    BY <2>1, MaxOfSet, BoundsAssumption DEF BoundsAssumption
  <2>3. id <= MaxQualifiers /\ qualifiers' = [qualifiers EXCEPT ![s] = @ \cup {id}]
    BY <1>1 DEF InsertQualifier
  <2> HIDE DEF ids, s
  <2>4. id \in 1..MaxQualifiers
    BY <2>2, <2>3, BoundsAssumption DEF BoundsAssumption
  <2> HIDE DEF id
  <2>5. qualifiers' \in [1..MaxSeasons -> SUBSET (1..MaxQualifiers)]
    BY <1>0, <2>3, <2>4
  <2>6. QED
    BY <1>0, <1>1, <2>5, OnlySeasons DEF InsertQualifier
<1>2. CASE QualifierDelete(t)
  <2>1. qualifiers' \in [1..MaxSeasons -> SUBSET (1..MaxQualifiers)]
    BY <1>0, <1>2 DEF QualifierDelete
  <2>2. QED
    BY <1>0, <1>2, <2>1, OnlySeasons DEF QualifierDelete
<1>3. QED
  BY <1>1, <1>2

LEMMA InitRows == Init => RowsInv
<1> SUFFICES ASSUME Init PROVE RowsInv
  OBVIOUS
<1> USE DEF Init
<1>1. TypeOK
  <2>1. season \in Seq(SeasonRow) /\ Len(season) = 0 /\ bracket \in Seq(BracketRow) /\ Len(bracket) = 0
    BY EmptySeq
  <2>2. entry \in [1..MaxBrackets -> Seq(Players)] /\ round \in [1..MaxBrackets -> Seq(Round)]
    BY EmptySeq
  <2>3. QED
    BY <2>1, <2>2, IdleIsCommand, BoundsAssumption DEF TypeOK, BoundsAssumption
<1>2. \A t \in Tasks : CommandOk(task[t])
  BY IdleIsCommand
<1>3. ASSUME NEW b \in 1..MaxBrackets PROVE RacesInv(b)
  <2>1. entry[b] = <<>> /\ round[b] = <<>>
    OBVIOUS
  <2>2. Len(entry[b]) = 0 /\ Len(round[b]) = 0
    BY <2>1, EmptySeq
  <2>3. QED
    BY <2>1, <2>2, BoundsAssumption DEF RacesInv, BoundsAssumption
<1>4. QED
  BY <1>1, <1>2, <1>3 DEF RowsInv

\* A step begins a command, ends one, or writes rows.
LEMMA NextRows == RowsInv /\ [Next]_vars => RowsInv'
<1> SUFFICES ASSUME RowsInv, [Next]_vars PROVE RowsInv'
  OBVIOUS
<1>1. CASE UNCHANGED vars
  BY <1>1 DEF vars, RowsInv, TypeOK, CommandOk, RacesInv, Entries
<1>2. ASSUME NEW t \in Tasks, BeginStep(t) PROVE RowsInv'
  <2>0. UNCHANGED <<season, bracket, entry, round, qualifiers>>
    BY <1>2, BeginsRight
  <2>1. PICK c \in TaskRecord : BeginsWith(t, c)
    BY <1>2, BeginsRight
  <2>2. task' = [task EXCEPT ![t] = c]
    BY <2>1 DEF BeginsWith, Begin
  <2>3. CommandOk(c)
    BY <2>1 DEF BeginsWith
  <2>4. QED
    BY <2>0, <2>2, <2>3, OnlyTasks
<1>3. ASSUME NEW t \in Tasks, GiveUp(t) PROVE RowsInv'
  BY <1>3, IdleIsCommand, OnlyTasks DEF GiveUp, Done
<1>4. ASSUME NEW t \in Tasks, SeasonCommand(t) PROVE RowsInv'
  BY <1>2, <1>4, SeasonRows DEF SeasonCommand, BeginStep
<1>5. ASSUME NEW t \in Tasks, BracketCommand(t) PROVE RowsInv'
  <2>1. CASE CreateBracket(t) \/ AddPlayer(t) \/ GeneratePairings(t) \/ FinishBracket(t)
    BY <1>2, <2>1 DEF BeginStep
  <2>2. QED
    BY <1>5, <2>1, InsertBracketRows, InsertEntryRows, PairingsRows, FinishBracketRows
       DEF BracketCommand
<1>6. ASSUME NEW t \in Tasks, QualifierCommand(t) PROVE RowsInv'
  BY <1>2, <1>6, QualifierRows DEF QualifierCommand, BeginStep
<1>7. QED
  BY <1>1, <1>3, <1>4, <1>5, <1>6, RaceFinishedRows DEF Next
-----------------------------------------------------------------------------
(* The first round.                                                        *)

\* A first round of a Swiss bracket has every entry once.
LEMMA SwissFirstRound ==
    ASSUME NEW b, Len(entry[b]) \in Nat, NEW rs,
           rs \in generate_initial_pairings_swiss(b) \/ (rs \in swiss_pairings(b) /\ round[b] = <<>>)
    PROVE  /\ \A r1, r2 \in rs : r1 = r2 \/ r1 \cap r2 = {}
           /\ \E k \in 0..Len(entry[b]) : UNION rs = 1..k
<1>1. CASE rs \in generate_initial_pairings_swiss(b)
  <2>1. \A r1, r2 \in rs : r1 = r2 \/ r1 \cap r2 = {}
    BY <1>1 DEF generate_initial_pairings_swiss, Matchings
  <2>2. UNION rs = 1..Len(entry[b])
    BY <1>1 DEF generate_initial_pairings_swiss, Covers, Entries
  <2>3. QED
    BY <2>1, <2>2
<1>2. CASE rs \in swiss_pairings(b) /\ round[b] = <<>>
  <2> DEFINE raced == UNION {DOMAIN round[b][n] : n \in 1..Len(round[b])}
             is    == {First(b, i) : i \in UNION raced}
  <2>1. Len(round[b]) = 0
    BY <1>2, EmptySeq
  <2>2. is = {}
    BY <2>1
  <2>3. rs \in SUBSET kSubset(2, {})
    BY <1>2, <2>2 DEF swiss_pairings, Matchings
  <2>4. ASSUME NEW r \in kSubset(2, {}) PROVE FALSE
    <3>1. r = {} /\ Cardinality(r) = 2
      BY DEF kSubset
    <3>2. Cardinality({}) = 0
      BY FS_EmptySet
    <3>3. QED
      BY <3>1, <3>2
  <2>5. rs = {}
    BY <2>3, <2>4
  <2>6. UNION rs = 1..0
    BY <2>5
  <2>7. QED
    BY <2>5, <2>6
<1>3. QED
  BY <1>1, <1>2

\* The round of a round robin has every two of its players once.
LEMMA RobinRound ==
    ASSUME NEW b, Len(entry[b]) \in Nat, NEW rs \in generate_pairings_round_robin(b)
    PROVE  /\ \E k \in 0..Len(entry[b]) : rs = kSubset(2, 1..k)
           /\ \A r1, r2 \in rs : Between(b, r1) = Between(b, r2) => r1 = r2
           /\ \A r \in rs : Cardinality(Between(b, r)) = 2
<1> DEFINE firsts == {First(b, i) : i \in Entries(b)}
<1>1. /\ rs = {r \in kSubset(2, firsts) : Cardinality(Between(b, r)) = 2}
      /\ rs = kSubset(2, 1..Len(entry[b]))
  BY DEF generate_pairings_round_robin, Entries
<1>2. \A i \in firsts : i \in Entries(b) /\ First(b, i) = i
  BY FirstEntry
<1>3. ASSUME NEW r1 \in rs, NEW r2 \in rs, Between(b, r1) = Between(b, r2)
      PROVE  r1 \subseteq r2
  <2>1. SUFFICES ASSUME NEW i \in r1 PROVE i \in r2
    OBVIOUS
  <2>2. r1 \subseteq firsts /\ r2 \subseteq firsts
    BY <1>1 DEF kSubset
  <2>3. PICK j \in r2 : entry[b][i] = entry[b][j]
    <3>1. entry[b][i] \in Between(b, r1)
      BY DEF Between
    <3>2. entry[b][i] \in Between(b, r2)
      BY <1>3, <3>1
    <3>3. QED
      BY <3>2 DEF Between
  <2>4. First(b, j) = First(b, i)
    BY <1>2, <2>2, <2>3, FirstEntry
  <2>5. QED
    BY <1>2, <2>2, <2>4
<1>4. \A r1, r2 \in rs : Between(b, r1) = Between(b, r2) => r1 = r2
  BY <1>3
<1>5. \A r \in rs : Cardinality(Between(b, r)) = 2
  BY <1>1
<1>6. \E k \in 0..Len(entry[b]) : rs = kSubset(2, 1..k)
  <2>1. Len(entry[b]) \in 0..Len(entry[b])
    OBVIOUS
  <2>2. WITNESS Len(entry[b]) \in 0..Len(entry[b])
  <2>3. QED
    BY <1>1
<1>7. QED
  BY <1>4, <1>5, <1>6

\* The first round that is added to a bracket is what FirstRoundInv says, and a
\* round robin gets no other.
LEMMA AddedRound ==
    ASSUME RowsInv, NEW k \in 1..Len(bracket), NEW state, NEW rs \in Pairings(k, state),
           round' = [round EXCEPT ![k] = Append(@, [r \in rs |-> TRUE])],
           Len(bracket') = Len(bracket), bracket'[k].type = bracket[k].type,
           UNCHANGED entry, FirstRoundInv(k)
    PROVE  FirstRoundInv(k)'
<1>0. /\ k \in 1..MaxBrackets /\ Len(entry[k]) \in Nat
      /\ round[k] \in Seq(Round) /\ Len(round[k]) \in Nat /\ Len(<<>>) = 0
  BY LenProperties, EmptySeq, BoundsAssumption DEF RowsInv, TypeOK, BoundsAssumption
<1>r. /\ Len(round'[k]) = Len(round[k]) + 1
      /\ round'[k][Len(round[k]) + 1] = [r \in rs |-> TRUE]
      /\ \A n \in 1..Len(round[k]) : round'[k][n] = round[k][n]
  <2>1. /\ Len(round'[k]) = Len(round[k]) + 1
        /\ \A n \in 1..Len(round[k]) : round'[k][n] = round[k][n]
    BY RoundIsAdded
  <2>2. round'[k][Len(round[k]) + 1] = [r \in rs |-> TRUE]
    BY RoundIsAdded
  <2>3. QED
    BY <2>1, <2>2
<1>b. \A r : Between(k, r)' = Between(k, r)
  BY DEF Between
<1>1. CASE round[k] = <<>>
  <2>1. Len(round[k]) = 0
    BY <1>0, <1>1
  <2>2. Len(round'[k]) = 1 /\ round'[k][1] = [r \in rs |-> TRUE]
    BY <1>r, <2>1
  <2>3. DOMAIN round'[k][1] = rs
    BY <2>2
  <2>4. CASE bracket[k].type = "Swiss"
    <3>1. rs \in generate_initial_pairings_swiss(k) \/ rs \in swiss_pairings(k)
      BY <2>4 DEF Pairings
    <3>2. /\ \A r1, r2 \in rs : r1 = r2 \/ r1 \cap r2 = {}
          /\ \E n \in 0..Len(entry[k]) : UNION rs = 1..n
      BY <1>0, <1>1, <3>1, SwissFirstRound
    <3>3. QED
      BY <2>3, <2>4, <3>2 DEF FirstRoundInv
  <2>5. CASE bracket[k].type = "RoundRobin"
    <3>1. rs \in generate_pairings_round_robin(k)
      BY <2>5 DEF Pairings
    <3>2. /\ \E n \in 0..Len(entry[k]) : rs = kSubset(2, 1..n)
          /\ \A r1, r2 \in rs : Between(k, r1) = Between(k, r2) => r1 = r2
          /\ \A r \in rs : Cardinality(Between(k, r)) = 2
      BY <1>0, <3>1, RobinRound
    <3>3. QED
      BY <1>b, <2>2, <2>3, <2>5, <3>2 DEF FirstRoundInv
  <2>6. QED
    BY <2>4, <2>5 DEF FirstRoundInv
<1>2. CASE round[k] # <<>>
  <2>1. bracket[k].type = "Swiss"
    BY <1>2 DEF Pairings
  <2>2. Len(round[k]) # 0
    BY <1>0, <1>2, EmptySeq
  <2>3. round'[k][1] = round[k][1]
    BY <1>0, <1>r, <2>2
  <2>4. QED
    BY <1>2, <2>1, <2>3 DEF FirstRoundInv
<1>3. QED
  BY <1>1, <1>2

\* Entries made later, and races that are finished, do not disturb it.
LEMMA FirstRoundKept ==
    ASSUME RowsInv, NEW b \in 1..MaxBrackets, FirstRoundInv(b),
           round[b] # <<>> => bracket'[b].type = bracket[b].type,
           Len(round'[b]) = Len(round[b]), round'[b] \in Seq(Round),
           \A n \in 1..Len(round[b]) : DOMAIN round'[b][n] = DOMAIN round[b][n],
           Len(entry[b]) \in Nat, Len(entry'[b]) \in Nat, Len(entry[b]) <= Len(entry'[b]),
           \A i \in 1..Len(entry[b]) : entry'[b][i] = entry[b][i]
    PROVE  FirstRoundInv(b)'
<1>0. round[b] \in Seq(Round) /\ Len(round[b]) \in Nat /\ RacesInv(b)
  BY LenProperties DEF RowsInv, TypeOK
<1>1. SUFFICES ASSUME round'[b] # <<>> PROVE FirstRoundInv(b)'
  BY DEF FirstRoundInv
<1>2. round[b] # <<>> /\ 1 \in 1..Len(round[b])
  <2>1. Len(round'[b]) # 0
    BY <1>1, EmptySeq
  <2>2. QED
    BY <1>0, <2>1, EmptySeq
<1> DEFINE rs == DOMAIN round[b][1]
<1>3. DOMAIN round'[b][1] = rs /\ bracket'[b].type = bracket[b].type
  BY <1>2
<1>4. \A r \in rs : r \subseteq 1..Len(entry[b])
  BY <1>0, <1>2 DEF RacesInv, Entries
<1>5. \A r \in rs : Between(b, r)' = Between(b, r)
  BY <1>4 DEF Between
<1>6. \A k \in 0..Len(entry[b]) : k \in 0..Len(entry'[b])
  OBVIOUS
<1>7. CASE bracket[b].type = "Swiss"
  <2>1. /\ \A r1, r2 \in rs : r1 = r2 \/ r1 \cap r2 = {}
        /\ \E k \in 0..Len(entry'[b]) : UNION rs = 1..k
    BY <1>2, <1>6, <1>7 DEF FirstRoundInv
  <2>2. QED
    BY <1>3, <1>7, <2>1 DEF FirstRoundInv
<1>8. CASE bracket[b].type = "RoundRobin"
  <2>1. /\ Len(round'[b]) = 1
        /\ \E k \in 0..Len(entry'[b]) : rs = kSubset(2, 1..k)
    BY <1>2, <1>6, <1>8 DEF FirstRoundInv
  <2>2. /\ \A r1, r2 \in rs : Between(b, r1) = Between(b, r2) => r1 = r2
        /\ \A r \in rs : Cardinality(Between(b, r)) = 2
    BY <1>2, <1>8 DEF FirstRoundInv
  <2>3. QED
    BY <1>3, <1>5, <1>8, <2>1, <2>2 DEF FirstRoundInv
<1>9. QED
  BY <1>3, <1>7, <1>8 DEF FirstRoundInv

LEMMA NextFirstRound == IInv /\ [Next]_vars => \A b \in 1..MaxBrackets : FirstRoundInv(b)'
<1> SUFFICES ASSUME RowsInv, [Next]_vars, NEW b \in 1..MaxBrackets,
                    \A k \in 1..MaxBrackets : FirstRoundInv(k)
             PROVE  FirstRoundInv(b)'
  BY DEF IInv
<1>0. /\ FirstRoundInv(b) /\ RacesInv(b) /\ round[b] \in Seq(Round) /\ Len(entry[b]) \in Nat
      /\ Len(bracket) \in Nat /\ (round[b] # <<>> => b \in 1..Len(bracket))
  BY LenProperties DEF RowsInv, TypeOK, RacesInv
<1>1. ASSUME UNCHANGED <<entry, round>>, round[b] # <<>> => bracket'[b].type = bracket[b].type
      PROVE  FirstRoundInv(b)'
  BY <1>0, <1>1, FirstRoundKept
<1>2. ASSUME UNCHANGED <<bracket, entry, round>> PROVE FirstRoundInv(b)'
  BY <1>1, <1>2
<1>3. CASE UNCHANGED vars
  BY <1>2, <1>3 DEF vars
<1>4. ASSUME NEW t \in Tasks, SeasonCommand(t) \/ QualifierCommand(t) \/ GiveUp(t)
      PROVE  FirstRoundInv(b)'
  BY <1>2, <1>4 DEF SeasonCommand, QualifierCommand, GiveUp, CreateSeason, InsertSeason,
       SetSeasonState, SeasonFinish, SeasonUpdate, SubmitQualifier, InsertQualifier,
       DeleteQualifier, QualifierDelete
<1>5. ASSUME NEW t \in Tasks, BracketCommand(t) PROVE FirstRoundInv(b)'
  <2>1. CASE CreateBracket(t) \/ AddPlayer(t) \/ GeneratePairings(t) \/ FinishBracket(t)
    BY <1>2, <2>1 DEF CreateBracket, AddPlayer, GeneratePairings, FinishBracket
  <2>2. CASE InsertBracket(t)
    <3>1. PICK row : bracket' = Append(bracket, row)
      BY <2>2 DEF InsertBracket
    <3>2. round[b] # <<>> => bracket'[b] = bracket[b]
      BY <1>0, <3>1 DEF RowsInv, TypeOK
    <3>3. QED
      BY <1>1, <2>2, <3>2 DEF InsertBracket
  <2>3. CASE InsertEntry(t)
    <3>1. UNCHANGED <<bracket, round>>
      BY <2>3 DEF InsertEntry
    <3>2. QED
      BY <1>0, <2>3, <3>1, InsertEntryRows, FirstRoundKept
  <2>4. CASE generate_pairings(t)
    <3> DEFINE k == task[t].b
    <3>1. k \in 1..Len(bracket) /\ UNCHANGED entry /\ Len(bracket') = Len(bracket)
      BY <2>4, PairingsStep
    <3>2. \A c \in 1..Len(bracket) : bracket'[c].type = bracket[c].type
      BY <2>4, PairingsStep
    <3>3. CASE UNCHANGED <<round, bracket>>
      BY <1>2, <3>1, <3>3
    <3>4. ASSUME NEW rs \in Pairings(k, task[t].state),
                 round' = [round EXCEPT ![k] = Append(@, [r \in rs |-> TRUE])]
          PROVE  FirstRoundInv(b)'
      <4> HIDE DEF k
      <4>1. CASE b = k
        BY <1>0, <3>1, <3>2, <3>4, <4>1, AddedRound
      <4>2. CASE b # k
        <5>1. round'[b] = round[b]
          BY <3>1, <3>4, <4>2, RoundIsAdded
        <5>2. round[b] # <<>> => bracket'[b].type = bracket[b].type
          BY <1>0, <3>2
        <5>3. QED
          BY <1>0, <3>1, <5>1, <5>2, FirstRoundKept
      <4>3. QED
        BY <4>1, <4>2
    <3>5. QED
      BY <2>4, <3>3, <3>4, PairingsStep
  <2>5. CASE BracketFinish(t) \/ BracketUpdate(t)
    <3>1. /\ UNCHANGED <<entry, round>>
          /\ \A c \in 1..Len(bracket) : bracket'[c].type = bracket[c].type
      BY <2>5, FinishBracketRows
    <3>2. QED
      BY <1>0, <1>1, <3>1
  <2>6. QED
    BY <1>5, <2>1, <2>2, <2>3, <2>4, <2>5 DEF BracketCommand
<1>6. CASE RaceIsFinished
  <2>1. /\ UNCHANGED <<bracket, entry>> /\ Len(round'[b]) = Len(round[b]) /\ RowsInv'
        /\ \A n \in 1..Len(round[b]) : DOMAIN round'[b][n] = DOMAIN round[b][n]
    BY <1>6, RaceFinishedRows
  <2>2. round'[b] \in Seq(Round)
    BY <2>1 DEF RowsInv, TypeOK
  <2>3. QED
    BY <1>0, <2>1, <2>2, FirstRoundKept
<1>7. QED
  BY <1>3, <1>4, <1>5, <1>6 DEF Next

-----------------------------------------------------------------------------
(* The theorems.                                                           *)

\* Whatever overlaps and wherever it fails, the rows of seasons, brackets,
\* entries and rounds fit together, and a command that is about to insert a
\* first round still has every entry the bracket can have.
THEOREM LeagueInvariant == Spec => []IInv
<1>1. Init => IInv
  <2>1. Init => \A b \in 1..MaxBrackets : FirstRoundInv(b)
    BY DEF Init, FirstRoundInv
  <2>2. QED
    BY <2>1, InitRows DEF IInv
<1>2. IInv /\ [Next]_vars => IInv'
  BY NextRows, NextFirstRound DEF IInv
<1>3. QED
  BY <1>1, <1>2, PTL DEF Spec

\* Every row keeps its type, and the bounds keep holding, however commands
\* overlap and wherever they fail.
THEOREM LeagueTypes == Spec => []TypeOK
<1>1. IInv => TypeOK
  BY DEF IInv, RowsInv
<1>2. QED
  BY <1>1, LeagueInvariant, PTL

\* The first round of a Swiss bracket serves every entry made before it exactly
\* once, although players are entered, and rounds are asked for, by commands
\* that overlap.
THEOREM NobodyIsEverLeftOut == Spec => []NobodyIsLeftOut
<1>1. IInv => NobodyIsLeftOut
  <2> SUFFICES ASSUME IInv, NEW b \in 1..Len(bracket), round[b] # <<>>, bracket[b].type = "Swiss"
               PROVE  LET rs == DOMAIN round[b][1] IN
                      /\ \A r1, r2 \in rs : r1 = r2 \/ r1 \cap r2 = {}
                      /\ \E k \in 0..MaxEntries : UNION rs = 1..k
    BY DEF NobodyIsLeftOut
  <2>1. b \in 1..MaxBrackets /\ Len(entry[b]) \in Nat /\ Len(entry[b]) <= MaxEntries
    BY LenProperties, BoundsAssumption DEF IInv, RowsInv, TypeOK, RacesInv, BoundsAssumption
  <2>2. \A k \in 0..Len(entry[b]) : k \in 0..MaxEntries
    BY <2>1, BoundsAssumption DEF BoundsAssumption
  <2>3. QED
    BY <2>1, <2>2 DEF IInv, FirstRoundInv
<1>2. QED
  BY <1>1, LeagueInvariant, PTL

\* A round robin has one round, in which every two of its players meet once,
\* although several commands may ask for its pairings at once.
THEOREM EverybodyOnlyMeetsOnce == Spec => []EverybodyMeetsOnce
<1>1. IInv => EverybodyMeetsOnce
  <2> SUFFICES ASSUME IInv, NEW b \in 1..Len(bracket), round[b] # <<>>,
                      bracket[b].type = "RoundRobin"
               PROVE  LET rs == DOMAIN round[b][1] IN
                      /\ Len(round[b]) = 1
                      /\ \E k \in 0..MaxEntries : rs = kSubset(2, 1..k)
                      /\ \A r1, r2 \in rs : Between(b, r1) = Between(b, r2) => r1 = r2
                      /\ \A r \in rs : Cardinality(Between(b, r)) = 2
    BY DEF EverybodyMeetsOnce
  <2>1. b \in 1..MaxBrackets /\ Len(entry[b]) \in Nat /\ Len(entry[b]) <= MaxEntries
    BY LenProperties, BoundsAssumption DEF IInv, RowsInv, TypeOK, RacesInv, BoundsAssumption
  <2>2. \A k \in 0..Len(entry[b]) : k \in 0..MaxEntries
    BY <2>1, BoundsAssumption DEF BoundsAssumption
  <2>3. QED
    BY <2>1, <2>2 DEF IInv, FirstRoundInv
<1>2. QED
  BY <1>1, LeagueInvariant, PTL

-----------------------------------------------------------------------------
(* When closing commands run alone.                                        *)

LEMMA IdleReads == OpenReads(Idle) /\ ClosingReads(Idle)
BY DEF Idle, OpenReads, ClosingReads

\* A command that works while another does closes nothing.
LEMMA OverlapIsOpen ==
    ASSUME Closing \subseteq Alone, OrderInv, NEW t \in Tasks, Working(t),
           NEW u \in Tasks, Working(u), t # u
    PROVE  task[t].kind \notin Closing /\ task[u].kind \notin Closing
BY DEF OrderInv, AloneInv

\* Who is alone stays alone: a command goes on, ends, or begins as Begin lets it.
LEMMA NextAlone ==
    ASSUME RowsInv, AloneInv, NEW t \in Tasks, NEW c \in TaskRecord,
           task' = [task EXCEPT ![t] = c], c.pc = "idle" => c = Idle,
           \/ c = Idle
           \/ Working(t) /\ c.kind = task[t].kind
           \/ Begin(t, c)
    PROVE  AloneInv'
<1>0. task \in [Tasks -> TaskRecord] /\ Idle.pc = "idle"
  BY DEF RowsInv, TypeOK, Idle
<1>1. task'[t] = c /\ \A u \in Tasks : u # t => task'[u] = task[u]
  BY <1>0
<1>2. \A u \in Tasks : task'[u].pc = "idle" => task'[u] = Idle
  BY <1>1 DEF AloneInv, Working
<1>3. ASSUME NEW u \in Tasks, u # t, c.pc # "idle", task[u].pc # "idle"
      PROVE  c.kind \notin Alone /\ task[u].kind \notin Alone
  <2>1. CASE Working(t) /\ c.kind = task[t].kind
    BY <1>3, <2>1 DEF AloneInv, Working
  <2>2. CASE Begin(t, c)
    <3>1. u \in Busy
      BY <1>3 DEF Busy
    <3>2. QED
      BY <2>2, <3>1 DEF Begin
  <2>3. QED
    BY <1>0, <1>3, <2>1, <2>2
<1>4. ASSUME NEW u \in Tasks, NEW v \in Tasks, u # v, task'[u].pc # "idle", task'[v].pc # "idle"
      PROVE  task'[u].kind \notin Alone
  <2>1. CASE u = t
    BY <1>1, <1>3, <1>4, <2>1
  <2>2. CASE v = t
    BY <1>1, <1>3, <1>4, <2>2
  <2>3. CASE u # t /\ v # t
    BY <1>1, <1>4, <2>3 DEF AloneInv, Working
  <2>4. QED
    BY <2>1, <2>2, <2>3
<1>5. QED
  BY <1>2, <1>4 DEF AloneInv, Working

\* Rows are added, and brackets are started; nothing is closed.
Grows ==
    /\ Len(season) <= Len(season') /\ \A s \in 1..Len(season) : season'[s] = season[s]
    /\ Len(bracket) <= Len(bracket')
    /\ \A b \in 1..Len(bracket) : bracket'[b].state \in {bracket[b].state, "Started"}

LEMMA OpenReadsKept ==
    ASSUME RowsInv, Grows, Len(season') \in Nat, NEW c \in TaskRecord, CommandOk(c), OpenReads(c)
    PROVE  OpenReads(c)'
<1>0. Len(season) \in Nat /\ Len(bracket) \in Nat /\ c.s \in Nat /\ c.b \in Nat
  BY LenProperties, BoundsAssumption DEF RowsInv, TypeOK, TaskRecord, BoundsAssumption
<1>1. ASSUME c.kind = "create_bracket"
      PROVE  /\ c.s <= Len(season') /\ season'[c.s].state # "Finished"
             /\ \A s \in 1..(c.s - 1) : season'[s].state = "Finished"
  <2>1. c.s # 0 /\ c.s <= Len(season)
    BY <1>1 DEF CommandOk, OpenReads
  <2>2. c.s \in 1..Len(season) /\ c.s <= Len(season')
    BY <1>0, <2>1 DEF Grows
  <2>3. \A s \in 1..(c.s - 1) : s \in 1..Len(season)
    BY <1>0, <2>1
  <2>4. season'[c.s].state # "Finished"
    BY <1>1, <2>2 DEF OpenReads, Grows
  <2>5. \A s \in 1..(c.s - 1) : season'[s].state = "Finished"
    BY <1>1, <2>3 DEF OpenReads, Grows
  <2>6. QED
    BY <2>2, <2>4, <2>5
<1>2. ASSUME c.kind = "submit_qualifier"
      PROVE  c.s <= Len(season') /\ season'[c.s].state = "QualifiersOpen"
  <2>1. c.s # 0 /\ c.s <= Len(season)
    BY <1>2 DEF CommandOk, OpenReads
  <2>2. c.s \in 1..Len(season) /\ c.s <= Len(season')
    BY <1>0, <2>1 DEF Grows
  <2>3. QED
    BY <1>2, <2>2 DEF OpenReads, Grows
<1>3. ASSUME c.kind = "generate_pairings"
      PROVE  /\ c.state # "Finished" => bracket'[c.b].state # "Finished"
             /\ c.state = "Started" => bracket'[c.b].state = "Started"
  <2>1. c.b \in 1..Len(bracket)
    BY <1>3 DEF CommandOk
  <2>2. bracket'[c.b].state \in {bracket[c.b].state, "Started"}
    BY <2>1 DEF Grows
  <2>3. QED
    BY <1>3, <2>2 DEF OpenReads
<1>4. QED
  BY <1>1, <1>2, <1>3 DEF OpenReads

LEMMA ReadsUnchanged ==
    ASSUME NEW c, OpenReads(c), ClosingReads(c),
           UNCHANGED <<season, bracket, entry, round, qualifiers>>
    PROVE  OpenReads(c)' /\ ClosingReads(c)'
BY DEF OpenReads, ClosingReads, AllRacesFinished, Open, safe_to_delete

LEMMA IdleReadsNext == OpenReads(Idle)' /\ ClosingReads(Idle)'
BY DEF Idle, OpenReads, ClosingReads

LEMMA ReadsOfAll ==
    ASSUME \A u \in Tasks : \E c : c = task'[u] /\ OpenReads(c)' /\ ClosingReads(c)'
    PROVE  ReadsInv'
<1>1. ASSUME NEW u \in Tasks PROVE (OpenReads(task[u]) /\ ClosingReads(task[u]))'
  <2>1. PICK c : c = task'[u] /\ OpenReads(c)' /\ ClosingReads(c)'
    OBVIOUS
  <2>2. OpenReads(task[u])'
    BY <2>1 DEF OpenReads
  <2>3. ClosingReads(task[u])'
    BY <2>1 DEF ClosingReads, AllRacesFinished, Open, safe_to_delete
  <2>4. QED
    BY <2>2, <2>3
<1>2. QED
  BY <1>1 DEF ReadsInv

\* A command begins, goes on, ends or gives up; no row is written.
LEMMA ReadsWhenNothingWritten ==
    ASSUME RowsInv, ReadsInv, NEW t \in Tasks, NEW c, task' = [task EXCEPT ![t] = c],
           OpenReads(c), ClosingReads(c), UNCHANGED <<season, bracket, entry, round, qualifiers>>
    PROVE  ReadsInv'
<1>1. task \in [Tasks -> TaskRecord]
  BY DEF RowsInv, TypeOK
<1>2. ASSUME NEW u \in Tasks PROVE \E x : x = task'[u] /\ OpenReads(x)' /\ ClosingReads(x)'
  <2>1. PICK x : x = task'[u]
    OBVIOUS
  <2>2. OpenReads(x) /\ ClosingReads(x)
    <3>1. CASE u = t
      <4>1. x = c
        BY <1>1, <2>1, <3>1
      <4>2. QED
        BY <4>1
    <3>2. CASE u # t
      <4>1. x = task[u]
        BY <1>1, <2>1, <3>2
      <4>2. QED
        BY <4>1 DEF ReadsInv
    <3>3. QED
      BY <3>1, <3>2
  <2>3. OpenReads(x)' /\ ClosingReads(x)'
    BY <2>2, ReadsUnchanged
  <2>4. QED
    BY <2>1, <2>3
<1>3. QED
  BY <1>2, ReadsOfAll

\* A command that closes nothing writes and ends: what overlaps it closes
\* nothing either.
LEMMA ReadsWhenOpenWrites ==
    ASSUME Closing \subseteq Alone, RowsInv, OrderInv, NEW t \in Tasks, Working(t),
           task[t].kind \notin Closing, Done(t), Grows, Len(season') \in Nat
    PROVE  ReadsInv'
<1>1. task \in [Tasks -> TaskRecord] /\ ReadsInv
  BY DEF RowsInv, TypeOK, OrderInv
<1>2. ASSUME NEW u \in Tasks PROVE \E x : x = task'[u] /\ OpenReads(x)' /\ ClosingReads(x)'
  <2>1. PICK x : x = task'[u]
    OBVIOUS
  <2>2. CASE u = t \/ ~Working(u)
    <3>1. x = Idle
      BY <1>1, <2>1, <2>2 DEF Done, OrderInv, AloneInv
    <3>2. QED
      BY <2>1, <3>1, IdleReadsNext
  <2>3. CASE u # t /\ Working(u)
    <3>1. x = task[u] /\ x.kind \notin Closing
      BY <1>1, <2>1, <2>3, OverlapIsOpen DEF Done
    <3>2. x \in TaskRecord /\ CommandOk(x) /\ OpenReads(x)
      BY <1>1, <3>1 DEF RowsInv, ReadsInv
    <3>3. OpenReads(x)'
      BY <3>2, OpenReadsKept
    <3>4. ClosingReads(x)'
      BY <3>1 DEF ClosingReads, Closing
    <3>5. QED
      BY <2>1, <3>3, <3>4
  <2>4. QED
    BY <2>2, <2>3
<1>3. QED
  BY <1>2, ReadsOfAll

\* A command that closes something writes and ends: nothing overlaps it.
LEMMA ReadsWhenClosing ==
    ASSUME Closing \subseteq Alone, RowsInv, OrderInv, NEW t \in Tasks, Working(t),
           task[t].kind \in Closing, Done(t)
    PROVE  ReadsInv'
<1>1. task \in [Tasks -> TaskRecord]
  BY DEF RowsInv, TypeOK
<1>2. ASSUME NEW u \in Tasks PROVE \E x : x = task'[u] /\ OpenReads(x)' /\ ClosingReads(x)'
  <2>1. u # t => ~Working(u)
    BY OverlapIsOpen
  <2>2. task'[u] = Idle
    BY <1>1, <2>1 DEF Done, OrderInv, AloneInv
  <2>3. QED
    BY <2>2, IdleReadsNext
<1>3. QED
  BY <1>2, ReadsOfAll

-----------------------------------------------------------------------------
(* Open races.                                                             *)

\* A race that is finished is open no more; no other changes.
LEMMA RaceFinishedOpen ==
    ASSUME RowsInv, RaceIsFinished
    PROVE  \E k \in 1..Len(bracket) : \E x \in Open(k) :
               /\ Open(k)' = Open(k) \ {x}
               /\ \A b \in 1..MaxBrackets : b # k => Open(b)' = Open(b)
<1>1. PICK k \in 1..Len(bracket) : \E x \in Open(k) :
          round' = [round EXCEPT ![k][x[1]][x[2]] = FALSE]
  BY DEF RaceIsFinished
<1>2. PICK x \in Open(k) : round' = [round EXCEPT ![k][x[1]][x[2]] = FALSE]
  BY <1>1
<1>3. x[1] \in 1..Len(round[k]) /\ x[2] \in DOMAIN round[k][x[1]] /\ x = <<x[1], x[2]>>
  BY DEF Open
<1>4. k \in 1..MaxBrackets /\ round \in [1..MaxBrackets -> Seq(Round)] /\ round[k] \in Seq(Round)
  BY BoundsAssumption DEF RowsInv, TypeOK, BoundsAssumption
<1>5. \A b \in 1..MaxBrackets :
          /\ Len(round'[b]) = Len(round[b])
          /\ \A n \in 1..Len(round[b]) : DOMAIN round'[b][n] = DOMAIN round[b][n]
  BY RaceFinishedRows
<1>6. \A b \in 1..MaxBrackets : b # k => Open(b)' = Open(b)
  BY <1>2, <1>4 DEF Open
<1>7. ASSUME NEW n \in 1..Len(round[k]), NEW r \in DOMAIN round[k][n]
      PROVE  round'[k][n][r] = IF n = x[1] /\ r = x[2] THEN FALSE ELSE round[k][n][r]
  <2> DEFINE i == x[1]
             new == [round[k][i] EXCEPT ![x[2]] = FALSE]
             rounds == [round[k] EXCEPT ![i] = new]
  <2>1. i \in 1..Len(round[k]) /\ round' = [round EXCEPT ![k] = rounds]
    BY <1>2, <1>3, <1>4
  <2>2. \A z \in DOMAIN round[k][i] : new[z] = IF z = x[2] THEN FALSE ELSE round[k][i][z]
    <3>1. round[k][i] \in Round
      BY <1>4, <2>1, ElementOfSeq
    <3>2. PICK rs \in SUBSET Races : round[k][i] \in [rs -> BOOLEAN]
      BY <3>1 DEF Round
    <3>3. QED
      BY <3>2
  <2> HIDE DEF new
  <2>3. rounds[n] = IF n = i THEN new ELSE round[k][n]
    <3>1. DOMAIN round[k] = 1..Len(round[k])
      BY <1>4, LenProperties
    <3>2. QED
      BY <2>1, <3>1
  <2>4. round'[k] = rounds
    BY <1>4, <2>1
  <2> HIDE DEF rounds
  <2>5. CASE n = i
    <3>1. round'[k][n] = new /\ r \in DOMAIN round[k][i]
      BY <1>7, <2>3, <2>4, <2>5
    <3>2. round'[k][n][r] = IF r = x[2] THEN FALSE ELSE round[k][i][r]
      BY <2>2, <3>1
    <3>3. QED
      BY <2>5, <3>2
  <2>6. CASE n # i
    BY <2>3, <2>4, <2>6
  <2>7. QED
    BY <2>5, <2>6
<1>8. \A y \in (1..Len(round[k])) \X Races : y \in Open(k)' <=> y \in Open(k) /\ y # x
  <2> SUFFICES ASSUME NEW y \in (1..Len(round[k])) \X Races
               PROVE  y \in Open(k)' <=> y \in Open(k) /\ y # x
    OBVIOUS
  <2>1. y[1] \in 1..Len(round[k]) /\ y = <<y[1], y[2]>>
    OBVIOUS
  <2>2. y \in Open(k) <=> y[2] \in DOMAIN round[k][y[1]] /\ round[k][y[1]][y[2]]
    BY DEF Open
  <2>3. y \in Open(k)' <=> y[2] \in DOMAIN round[k][y[1]] /\ round'[k][y[1]][y[2]]
    BY <1>4, <1>5, <2>1 DEF Open
  <2>4. y[2] \in DOMAIN round[k][y[1]] =>
            (round'[k][y[1]][y[2]] <=> round[k][y[1]][y[2]] /\ ~(y[1] = x[1] /\ y[2] = x[2]))
    BY <1>7, <2>1
  <2>5. y = x <=> y[1] = x[1] /\ y[2] = x[2]
    BY <1>3, <2>1
  <2>6. QED
    BY <2>2, <2>3, <2>4, <2>5
<1>9. Open(k)' \subseteq (1..Len(round[k])) \X Races /\ Open(k) \subseteq (1..Len(round[k])) \X Races
  BY <1>4, <1>5 DEF Open
<1>10. Open(k)' = Open(k) \ {x}
  BY <1>8, <1>9
<1>11. QED
  BY <1>6, <1>10

-----------------------------------------------------------------------------
(* Order is kept.                                                          *)

LEMMA InitOrder == Init => OrderInv
<1> SUFFICES ASSUME Init PROVE OrderInv
  OBVIOUS
<1>1. \A t \in Tasks : task[t] = Idle
  BY DEF Init
<1>2. AloneInv
  BY <1>1 DEF AloneInv, Working, Idle
<1>3. ReadsInv
  BY <1>1, IdleReads DEF ReadsInv
<1>4. RowsAgree
  <2>1. Len(season) = 0 /\ \A s \in 1..MaxSeasons : qualifiers[s] = {}
    BY EmptySeq DEF Init
  <2>2. QED
    BY <2>1 DEF RowsAgree
<1>5. QED
  BY <1>2, <1>3, <1>4 DEF OrderInv

LEMMA DoneAlone ==
    ASSUME RowsInv, AloneInv, NEW t \in Tasks, Done(t)
    PROVE  AloneInv'
<1>1. task' = [task EXCEPT ![t] = Idle]
  BY DEF Done
<1>2. QED
  BY <1>1, IdleIsCommand, NextAlone

LEMMA AgreeUnchanged == RowsAgree /\ UNCHANGED <<season, qualifiers>> => RowsAgree'
BY DEF RowsAgree

LEMMA BeginOrder ==
    ASSUME RowsInv, OrderInv, NEW t \in Tasks, BeginStep(t)
    PROVE  OrderInv'
<1>1. UNCHANGED <<season, bracket, entry, round, qualifiers>>
  BY BeginsRight
<1>2. PICK c \in TaskRecord : BeginsWith(t, c)
  BY BeginsRight
<1>3. task' = [task EXCEPT ![t] = c] /\ Begin(t, c) /\ c.pc # "idle"
  BY <1>2 DEF BeginsWith, Begin
<1>4. AloneInv'
  BY <1>3, NextAlone DEF OrderInv
<1>5. OpenReads(c) /\ ClosingReads(c)
  BY <1>2 DEF BeginsWith, OrderInv
<1>6. ReadsInv'
  BY <1>1, <1>3, <1>5, ReadsWhenNothingWritten DEF OrderInv
<1>7. QED
  BY <1>1, <1>4, <1>6, AgreeUnchanged DEF OrderInv

LEMMA GiveUpOrder ==
    ASSUME RowsInv, OrderInv, NEW t \in Tasks, Done(t),
           UNCHANGED <<season, bracket, entry, round, qualifiers>>
    PROVE  OrderInv'
<1>1. task' = [task EXCEPT ![t] = Idle]
  BY DEF Done
<1>2. ReadsInv'
  BY <1>1, IdleReads, ReadsWhenNothingWritten DEF OrderInv
<1>3. QED
  BY <1>2, DoneAlone, AgreeUnchanged DEF OrderInv

\* A command that closes something looks, and goes on.
LEMMA GoesOnOrder ==
    ASSUME RowsInv, OrderInv, NEW t \in Tasks, Working(t), NEW c \in TaskRecord, c.pc # "idle",
           c.kind = task[t].kind, task' = [task EXCEPT ![t] = c], OpenReads(c), ClosingReads(c),
           UNCHANGED <<season, bracket, entry, round, qualifiers>>
    PROVE  OrderInv'
<1>1. AloneInv'
  BY NextAlone DEF OrderInv
<1>2. ReadsInv'
  BY ReadsWhenNothingWritten DEF OrderInv
<1>3. QED
  BY <1>1, <1>2, AgreeUnchanged DEF OrderInv

LEMMA FinishOrder ==
    ASSUME RowsInv, OrderInv, NEW t \in Tasks, SeasonFinish(t) \/ BracketFinish(t)
    PROVE  OrderInv'
<1>0. /\ task \in [Tasks -> TaskRecord] /\ task[t] \in TaskRecord
      /\ OpenReads(task[t]) /\ ClosingReads(task[t]) /\ CommandOk(task[t]) /\ RowsAgree
  BY DEF RowsInv, TypeOK, OrderInv, ReadsInv
<1>w. Working(t)
  BY DEF Working, SeasonFinish, BracketFinish, At
<1>1. CASE SeasonFinish(t)
  <2>1. UNCHANGED <<season, bracket, entry, round, qualifiers>>
    BY <1>1 DEF SeasonFinish
  <2>2. CASE /\ \A b \in 1..Len(bracket) :
                    bracket[b].season = task[t].s => bracket[b].state = "Finished"
             /\ task' = [task EXCEPT ![t].pc = "save", ![t].finished = TRUE]
    <3> DEFINE c == [task[t] EXCEPT !.pc = "save", !.finished = TRUE]
    <3>1. task' = [task EXCEPT ![t] = c]
      BY <1>0, <2>2
    <3>2. /\ c \in TaskRecord /\ c.kind = task[t].kind /\ c.pc = "save" /\ c.finished = TRUE
          /\ c.s = task[t].s /\ c.state = task[t].state
      BY <1>0 DEF TaskRecord
    <3>3. c.kind = "set_season_state"
      BY <1>1, <3>2 DEF SeasonFinish, At
    <3> HIDE DEF c
    <3>4. c.state = "Finished" /\ MayBecome(season[c.s].state, c.state)
      BY <1>0, <1>1, <3>2 DEF ClosingReads, SeasonFinish, At
    <3>5. \A b \in 1..Len(bracket) : bracket[b].season = c.s => bracket[b].state = "Finished"
      BY <2>2, <3>2
    <3>6. OpenReads(c) /\ ClosingReads(c)
      BY <3>2, <3>3, <3>4, <3>5 DEF OpenReads, ClosingReads
    <3>7. QED
      BY <1>w, <2>1, <3>1, <3>2, <3>6, GoesOnOrder
  <2>3. CASE Done(t)
    BY <2>1, <2>3, GiveUpOrder
  <2>4. QED
    BY <1>1, <2>2, <2>3 DEF SeasonFinish
<1>2. CASE BracketFinish(t)
  <2>1. UNCHANGED <<season, bracket, entry, round, qualifiers>>
    BY <1>2 DEF BracketFinish
  <2>2. CASE AllRacesFinished(task[t].b) /\ task' = [task EXCEPT ![t].pc = "save"]
    <3> DEFINE c == [task[t] EXCEPT !.pc = "save"]
    <3>1. task' = [task EXCEPT ![t] = c]
      BY <1>0, <2>2
    <3>2. c \in TaskRecord /\ c.kind = task[t].kind /\ c.pc = "save" /\ c.b = task[t].b
      BY <1>0 DEF TaskRecord
    <3>3. c.kind = "finish_bracket"
      BY <1>2, <3>2 DEF BracketFinish, At
    <3> HIDE DEF c
    <3>4. OpenReads(c) /\ ClosingReads(c)
      BY <2>2, <3>2, <3>3 DEF OpenReads, ClosingReads
    <3>5. QED
      BY <1>w, <2>1, <3>1, <3>2, <3>4, GoesOnOrder
  <2>3. CASE Done(t)
    BY <2>1, <2>3, GiveUpOrder
  <2>4. QED
    BY <1>2, <2>2, <2>3 DEF BracketFinish
<1>3. QED
  BY <1>1, <1>2

\* What writes, works.
LEMMA Writers ==
    ASSUME NEW t \in Tasks
    PROVE  /\ InsertSeason(t) \/ InsertBracket(t) \/ InsertEntry(t) \/ generate_pairings(t)
                  \/ InsertQualifier(t) => Working(t) /\ Done(t) /\ task[t].kind \notin Closing
           /\ SeasonUpdate(t) \/ BracketUpdate(t) \/ QualifierDelete(t) =>
                  Working(t) /\ Done(t) /\ task[t].kind \in Closing
BY DEF Working, At, Closing, InsertSeason, InsertBracket, InsertEntry, generate_pairings,
   InsertQualifier, SeasonUpdate, BracketUpdate, QualifierDelete

LEMMA SeasonOrder ==
    ASSUME Closing \subseteq Alone, RowsInv, OrderInv, NEW t \in Tasks,
           InsertSeason(t) \/ SeasonUpdate(t)
    PROVE  OrderInv'
<1>0. /\ season \in Seq(SeasonRow) /\ Len(season) \in Nat /\ Len(bracket) \in Nat
      /\ UNCHANGED <<bracket, qualifiers>> /\ RowsAgree
  BY LenProperties DEF RowsInv, TypeOK, OrderInv, InsertSeason, SeasonUpdate
<1>a. AloneInv'
  BY Writers, DoneAlone DEF OrderInv
<1>1. CASE InsertSeason(t)
  <2> DEFINE row == [state |-> "Created", finished |-> FALSE]
  <2>1. row.state # "Finished" /\ row.finished = FALSE /\ row \in SeasonRow
    BY DEF SeasonRow, SeasonState, SeasonStates
  <2>2. season' = season \/ season' = Append(season, row)
    BY <1>1 DEF InsertSeason
  <2> HIDE DEF row
  <2>3. /\ Len(season') \in Nat /\ Len(season) <= Len(season')
        /\ \A s \in 1..Len(season) : season'[s] = season[s]
        /\ \A s \in 1..Len(season') : s \in 1..Len(season) \/ season'[s] = row
    <3>1. CASE season' = season
      BY <1>0, <3>1
    <3>2. CASE season' = Append(season, row)
      BY <1>0, <2>1, <3>2, AppendProperties
    <3>3. QED
      BY <2>2, <3>1, <3>2
  <2>4. Grows
    BY <1>0, <2>3 DEF Grows
  <2>5. ReadsInv'
    BY <1>1, <2>3, <2>4, Writers, ReadsWhenOpenWrites
  <2>6. RowsAgree'
    <3>1. \A s \in 1..Len(season') : season'[s].finished <=> season'[s].state = "Finished"
      <4> SUFFICES ASSUME NEW s \in 1..Len(season')
                   PROVE  season'[s].finished <=> season'[s].state = "Finished"
        OBVIOUS
      <4>1. CASE s \in 1..Len(season)
        BY <1>0, <2>3, <4>1 DEF RowsAgree
      <4>2. CASE season'[s] = row
        BY <2>1, <4>2
      <4>3. QED
        BY <2>3, <4>1, <4>2
    <3>2. QED
      BY <1>0, <3>1 DEF RowsAgree
  <2>7. QED
    BY <1>a, <2>5, <2>6 DEF OrderInv
<1>2. CASE SeasonUpdate(t)
  <2>1. ReadsInv'
    BY <1>2, Writers, ReadsWhenClosing
  <2> DEFINE k == task[t].s
             row == [state |-> task[t].state, finished |-> season[k].finished \/ task[t].finished]
  <2>2. /\ k \in 1..Len(season) /\ season' = [season EXCEPT ![k] = row]
        /\ CommandOk(task[t]) /\ ClosingReads(task[t])
    BY <1>2 DEF SeasonUpdate, RowsInv, CommandOk, At, OrderInv, ReadsInv
  <2>3. row \in SeasonRow /\ (row.finished <=> row.state = "Finished")
    BY <1>2, <2>2 DEF SeasonUpdate, At, CommandOk, ClosingReads, SeasonRow
  <2> HIDE DEF row, k
  <2>4. /\ Len(season') = Len(season)
        /\ \A s \in 1..Len(season) : season'[s] = IF s = k THEN row ELSE season[s]
    BY <1>0, <2>2, <2>3, ExceptSeq
  <2>5. ASSUME NEW s \in 1..Len(season)
        PROVE  season'[s].finished <=> season'[s].state = "Finished"
    <3>1. CASE s = k
      BY <2>3, <2>4, <3>1
    <3>2. CASE s # k
      BY <1>0, <2>4, <3>2 DEF RowsAgree
    <3>3. QED
      BY <3>1, <3>2
  <2>6. RowsAgree'
    BY <1>0, <2>4, <2>5 DEF RowsAgree
  <2>7. QED
    BY <1>a, <2>1, <2>6 DEF OrderInv
<1>3. QED
  BY <1>1, <1>2

LEMMA BracketOrder ==
    ASSUME Closing \subseteq Alone, RowsInv, OrderInv, NEW t \in Tasks,
           \/ InsertBracket(t) \/ InsertEntry(t) \/ generate_pairings(t) \/ BracketUpdate(t)
    PROVE  OrderInv'
<1>0. /\ bracket \in Seq(BracketRow) /\ Len(season) \in Nat /\ Len(bracket) \in Nat
      /\ UNCHANGED <<season, qualifiers>>
  BY LenProperties DEF RowsInv, TypeOK, InsertBracket, InsertEntry, generate_pairings, BracketUpdate
<1>1. AloneInv' /\ RowsAgree'
  BY <1>0, Writers, DoneAlone, AgreeUnchanged DEF OrderInv
<1>2. CASE BracketUpdate(t)
  BY <1>1, <1>2, Writers, ReadsWhenClosing DEF OrderInv
<1>3. CASE InsertBracket(t)
  <2>1. PICK type \in BracketType :
            bracket' = Append(bracket, [state |-> "Unstarted", type |-> type, season |-> task[t].s])
    BY <1>3 DEF InsertBracket
  <2>2. Len(bracket) <= Len(bracket') /\ \A b \in 1..Len(bracket) : bracket'[b] = bracket[b]
    BY <1>0, <2>1
  <2>3. Grows
    BY <1>0, <2>2 DEF Grows
  <2>4. QED
    BY <1>0, <1>1, <1>3, <2>3, Writers, ReadsWhenOpenWrites DEF OrderInv
<1>4. CASE InsertEntry(t)
  <2>1. Grows
    BY <1>0, <1>4 DEF Grows, InsertEntry
  <2>2. QED
    BY <1>0, <1>1, <1>4, <2>1, Writers, ReadsWhenOpenWrites DEF OrderInv
<1>5. CASE generate_pairings(t)
  <2> DEFINE k == task[t].b
  <2>1. k \in 1..Len(bracket)
    BY <1>5, PairingsStep
  <2>2. bracket' = bracket \/ bracket' = [bracket EXCEPT ![k].state = "Started"]
    BY <1>5 DEF generate_pairings
  <2> HIDE DEF k
  <2>3. /\ Len(bracket') = Len(bracket)
        /\ \A b \in 1..Len(bracket) : bracket'[b].state \in {bracket[b].state, "Started"}
    <3>1. CASE bracket' = bracket
      BY <3>1
    <3>2. CASE bracket' = [bracket EXCEPT ![k].state = "Started"]
      BY <2>1, <3>2, BracketChanges DEF BracketState
    <3>3. QED
      BY <2>2, <3>1, <3>2
  <2>4. Grows
    BY <1>0, <2>3 DEF Grows
  <2>5. QED
    BY <1>0, <1>1, <1>5, <2>4, Writers, ReadsWhenOpenWrites DEF OrderInv
<1>6. QED
  BY <1>2, <1>3, <1>4, <1>5

\* The id of a new qualifier is higher than those there are.
LEMMA NewQualifier ==
    ASSUME RowsInv, NEW t \in Tasks, InsertQualifier(t)
    PROVE  \E id \in 1..MaxQualifiers :
               /\ qualifiers' = [qualifiers EXCEPT ![task[t].s] = @ \cup {id}]
               /\ \A s \in 1..MaxSeasons : id \notin qualifiers[s]
<1> DEFINE ids == {0} \cup UNION {qualifiers[s] : s \in 1..MaxSeasons}
           id == 1 + Max(ids)
<1>1. ids \in SUBSET (0..MaxQualifiers) /\ ids # {}
  BY BoundsAssumption DEF RowsInv, TypeOK, BoundsAssumption
<1>2. id <= MaxQualifiers /\ qualifiers' = [qualifiers EXCEPT ![task[t].s] = @ \cup {id}]
  BY DEF InsertQualifier
<1>3. \A s \in 1..MaxSeasons : qualifiers[s] \subseteq ids
  OBVIOUS
<1> HIDE DEF ids
<1>4. Max(ids) \in 0..MaxQualifiers /\ \A y \in ids : Max(ids) >= y
  BY <1>1, MaxOfSet, BoundsAssumption DEF BoundsAssumption
<1>5. id \in 1..MaxQualifiers /\ id \notin ids
  BY <1>1, <1>2, <1>4, BoundsAssumption DEF BoundsAssumption
<1>6. QED
  BY <1>2, <1>3, <1>5

LEMMA QualifierOrder ==
    ASSUME Closing \subseteq Alone, RowsInv, OrderInv, NEW t \in Tasks,
           InsertQualifier(t) \/ QualifierDelete(t)
    PROVE  OrderInv'
<1>0. /\ qualifiers \in [1..MaxSeasons -> SUBSET (1..MaxQualifiers)]
      /\ UNCHANGED <<season, bracket>> /\ RowsAgree /\ Len(season) \in Nat /\ Len(bracket) \in Nat
  BY LenProperties DEF RowsInv, TypeOK, OrderInv, InsertQualifier, QualifierDelete
<1>1. AloneInv'
  BY Writers, DoneAlone DEF OrderInv
<1>2. CASE InsertQualifier(t)
  <2>1. Grows
    BY <1>0 DEF Grows
  <2>2. ReadsInv'
    BY <1>0, <1>2, <2>1, Writers, ReadsWhenOpenWrites
  <2>3. PICK id \in 1..MaxQualifiers :
            /\ qualifiers' = [qualifiers EXCEPT ![task[t].s] = @ \cup {id}]
            /\ \A s \in 1..MaxSeasons : id \notin qualifiers[s]
    BY <1>2, NewQualifier
  <2>4. \A s1, s2 \in 1..MaxSeasons : s1 = s2 \/ qualifiers'[s1] \cap qualifiers'[s2] = {}
    BY <1>0, <2>3 DEF RowsAgree
  <2>5. RowsAgree'
    BY <1>0, <2>4 DEF RowsAgree
  <2>6. QED
    BY <1>1, <2>2, <2>5 DEF OrderInv
<1>3. CASE QualifierDelete(t)
  <2>1. ReadsInv'
    BY <1>3, Writers, ReadsWhenClosing
  <2>2. \A s \in 1..MaxSeasons : qualifiers'[s] \subseteq qualifiers[s]
    BY <1>3 DEF QualifierDelete
  <2>3. \A s1, s2 \in 1..MaxSeasons : s1 = s2 \/ qualifiers'[s1] \cap qualifiers'[s2] = {}
    BY <1>0, <2>2 DEF RowsAgree
  <2>4. RowsAgree'
    BY <1>0, <2>3 DEF RowsAgree
  <2>5. QED
    BY <1>1, <2>1, <2>4 DEF OrderInv
<1>4. QED
  BY <1>2, <1>3

\* A finished race takes nothing from what was read.
LEMMA RaceFinishedOrder ==
    ASSUME RowsInv, OrderInv, RaceIsFinished
    PROVE  OrderInv'
<1>0. UNCHANGED <<season, bracket, entry, qualifiers, task>> /\ ReadsInv
  BY DEF RaceIsFinished, OrderInv
<1>1. AloneInv' /\ RowsAgree'
  BY <1>0, AgreeUnchanged DEF OrderInv, AloneInv, Working
<1>2. \A b \in 1..MaxBrackets : Open(b)' \subseteq Open(b)
  BY RaceFinishedOpen
<1>3. ASSUME NEW u \in Tasks PROVE \E x : x = task'[u] /\ OpenReads(x)' /\ ClosingReads(x)'
  <2>1. PICK x : x = task[u]
    OBVIOUS
  <2>2. OpenReads(x) /\ ClosingReads(x)
    BY <1>0, <2>1 DEF ReadsInv
  <2>3. OpenReads(x)'
    BY <1>0, <2>2 DEF OpenReads
  <2>4. x.kind = "finish_bracket" /\ x.pc = "save" => AllRacesFinished(x.b)'
    <3>1. x.kind = "finish_bracket" => x.b \in 1..MaxBrackets
      BY <2>1, BracketCommandTypes
    <3>2. QED
      BY <1>2, <2>2, <3>1 DEF ClosingReads, AllRacesFinished
  <2>5. ClosingReads(x)'
    BY <1>0, <2>2, <2>4 DEF ClosingReads, safe_to_delete
  <2>6. QED
    BY <1>0, <2>1, <2>3, <2>5
<1>4. ReadsInv'
  BY <1>3, ReadsOfAll
<1>5. QED
  BY <1>1, <1>4 DEF OrderInv

LEMMA NextOrder ==
    ASSUME Closing \subseteq Alone, RowsInv, OrderInv, [Next]_vars
    PROVE  OrderInv'
<1>1. CASE UNCHANGED vars
  <2>1. AloneInv' /\ RowsAgree'
    BY <1>1 DEF vars, OrderInv, AloneInv, Working, RowsAgree
  <2>2. ASSUME NEW t \in Tasks PROVE OpenReads(task[t])'
    BY <1>1, <2>2 DEF vars, OrderInv, ReadsInv, OpenReads
  <2>3. ASSUME NEW t \in Tasks PROVE ClosingReads(task[t])'
    BY <1>1, <2>3 DEF vars, OrderInv, ReadsInv, ClosingReads, AllRacesFinished, Open, safe_to_delete
  <2>4. QED
    BY <2>1, <2>2, <2>3 DEF OrderInv, ReadsInv
<1>2. ASSUME NEW t \in Tasks, GiveUp(t) PROVE OrderInv'
  BY <1>2, GiveUpOrder DEF GiveUp
<1>3. ASSUME NEW t \in Tasks, SeasonCommand(t) PROVE OrderInv'
  BY <1>3, BeginOrder, SeasonOrder, FinishOrder DEF SeasonCommand, BeginStep
<1>4. ASSUME NEW t \in Tasks, BracketCommand(t) PROVE OrderInv'
  <2>1. CASE CreateBracket(t) \/ AddPlayer(t) \/ GeneratePairings(t) \/ FinishBracket(t)
    BY <2>1, BeginOrder DEF BeginStep
  <2>2. QED
    BY <1>4, <2>1, BracketOrder, FinishOrder DEF BracketCommand
<1>5. ASSUME NEW t \in Tasks, QualifierCommand(t) PROVE OrderInv'
  BY <1>5, BeginOrder, QualifierOrder DEF QualifierCommand, BeginStep
<1>6. QED
  BY <1>1, <1>2, <1>3, <1>4, <1>5, RaceFinishedOrder DEF Next

-----------------------------------------------------------------------------
(* The league as its contract sees it.                                     *)

AStates == [s \in 1..Len(season) |-> season[s].state]

ABracket(b) == [season |-> bracket[b].season, state |-> bracket[b].state,
                open |-> Cardinality(Open(b))]

ABrackets == [b \in 1..Len(bracket) |->
                 [season |-> bracket[b].season, state |-> bracket[b].state,
                  open |-> Cardinality(Open(b))]]

ABracketRow == [season : 1..MaxSeasons, state : BracketState, open : Nat]

LEMMA RacesFinite == IsFiniteSet(Races)
<1>1. IsFiniteSet(1..MaxEntries)
  BY FS_Interval, BoundsAssumption DEF BoundsAssumption
<1>2. IsFiniteSet(SUBSET (1..MaxEntries))
  BY <1>1, FS_SUBSET
<1>3. Races \in SUBSET (SUBSET (1..MaxEntries))
  BY DEF Races, kSubset
<1>4. QED
  BY <1>2, <1>3, FS_Subset

LEMMA OpenFinite ==
    ASSUME RowsInv, NEW b \in 1..MaxBrackets
    PROVE  IsFiniteSet(Open(b)) /\ Cardinality(Open(b)) \in Nat
<1>1. Len(round[b]) \in Nat
  BY LenProperties DEF RowsInv, TypeOK
<1>2. IsFiniteSet(1..Len(round[b]))
  BY <1>1, FS_Interval
<1>3. IsFiniteSet((1..Len(round[b])) \X Races)
  BY <1>2, RacesFinite, FS_Product
<1>4. Open(b) \in SUBSET ((1..Len(round[b])) \X Races)
  BY DEF Open
<1>5. IsFiniteSet(Open(b))
  BY <1>3, <1>4, FS_Subset
<1>6. QED
  BY <1>5, FS_CardinalityType

LEMMA SeqOf ==
    ASSUME NEW n \in Nat, NEW S, NEW f \in [1..n -> S]
    PROVE  f \in Seq(S) /\ Len(f) = n
<1>1. f \in Seq(S)
  BY SeqDef
<1>2. Len(f) \in Nat /\ 1..Len(f) = 1..n
  BY <1>1, LenProperties
<1>3. QED
  BY <1>1, <1>2

LEMMA StatesMapped ==
    RowsInv => /\ AStates \in Seq(SeasonState) /\ Len(AStates) = Len(season)
               /\ \A s \in 1..Len(season) : AStates[s] = season[s].state
<1> SUFFICES ASSUME RowsInv
             PROVE  /\ AStates \in Seq(SeasonState) /\ Len(AStates) = Len(season)
                    /\ \A s \in 1..Len(season) : AStates[s] = season[s].state
  OBVIOUS
<1>1. season \in Seq(SeasonRow) /\ Len(season) \in Nat
  BY LenProperties DEF RowsInv, TypeOK
<1>2. \A s \in 1..Len(season) : season[s].state \in SeasonState
  <2>1. \A s \in 1..Len(season) : season[s] \in SeasonRow
    BY <1>1, ElementOfSeq
  <2>2. QED
    BY <2>1 DEF SeasonRow
<1>3. AStates \in [1..Len(season) -> SeasonState]
  BY <1>2 DEF AStates
<1>4. QED
  BY <1>1, <1>3, SeqOf DEF AStates

LEMMA BracketsMapped ==
    RowsInv => /\ ABrackets \in Seq(ABracketRow) /\ Len(ABrackets) = Len(bracket)
               /\ \A b \in 1..Len(bracket) : ABrackets[b] = ABracket(b)
<1> SUFFICES ASSUME RowsInv
             PROVE  /\ ABrackets \in Seq(ABracketRow) /\ Len(ABrackets) = Len(bracket)
                    /\ \A b \in 1..Len(bracket) : ABrackets[b] = ABracket(b)
  OBVIOUS
<1>1. bracket \in Seq(BracketRow) /\ Len(bracket) \in Nat /\ Len(bracket) <= MaxBrackets
  BY LenProperties DEF RowsInv, TypeOK
<1>2. \A b \in 1..Len(bracket) : ABracket(b) \in ABracketRow
  <2> SUFFICES ASSUME NEW b \in 1..Len(bracket) PROVE ABracket(b) \in ABracketRow
    OBVIOUS
  <2>1. bracket[b] \in BracketRow
    BY <1>1, ElementOfSeq
  <2>2. b \in 1..MaxBrackets
    BY <1>1, BoundsAssumption DEF BoundsAssumption
  <2>3. Cardinality(Open(b)) \in Nat
    BY <2>2, OpenFinite
  <2>4. QED
    BY <2>1, <2>3 DEF ABracket, ABracketRow, BracketRow
<1>3. ABrackets = [b \in 1..Len(bracket) |-> ABracket(b)]
  BY DEF ABrackets, ABracket
<1>4. ABrackets \in [1..Len(bracket) -> ABracketRow]
  BY <1>2, <1>3
<1>5. QED
  BY <1>1, <1>3, <1>4, SeqOf

Mapped ==
    /\ AStates \in Seq(SeasonState) /\ Len(AStates) = Len(season)
    /\ \A s \in 1..Len(season) : AStates[s] = season[s].state
    /\ ABrackets \in Seq(ABracketRow) /\ Len(ABrackets) = Len(bracket)
    /\ \A b \in 1..Len(bracket) : ABrackets[b] = ABracket(b)

LEMMA MappedNext ==
    RowsInv' => /\ AStates' \in Seq(SeasonState) /\ Len(AStates') = Len(season')
                /\ \A s \in 1..Len(season') : AStates'[s] = season'[s].state
                /\ ABrackets' \in Seq(ABracketRow) /\ Len(ABrackets') = Len(bracket')
                /\ \A b \in 1..Len(bracket') : ABrackets'[b] = ABracket(b)'
<1>1. RowsInv => Mapped
  BY StatesMapped, BracketsMapped DEF Mapped
<1>2. RowsInv' => Mapped'
  BY <1>1, PTL
<1>3. QED
  BY <1>2 DEF Mapped

LEMMA BracketFields ==
    ASSUME RowsInv
    PROVE  /\ Len(ABrackets) = Len(bracket)
           /\ \A b \in 1..Len(bracket) : /\ ABrackets[b].season = bracket[b].season
                                         /\ ABrackets[b].state = bracket[b].state
                                         /\ ABrackets[b].open = Cardinality(Open(b))
<1>1. Len(ABrackets) = Len(bracket) /\ \A b \in 1..Len(bracket) : ABrackets[b] = ABracket(b)
  BY BracketsMapped
<1>2. \A b : /\ ABracket(b).season = bracket[b].season /\ ABracket(b).state = bracket[b].state
              /\ ABracket(b).open = Cardinality(Open(b))
  BY DEF ABracket
<1>3. QED
  BY <1>1, <1>2

\* What the contract does not see of a step.
LEMMA BracketsUnchanged == UNCHANGED <<bracket, round>> => ABrackets' = ABrackets
BY DEF ABrackets, Open

LEMMA StatesUnchanged == UNCHANGED season => AStates' = AStates
BY DEF AStates

\* One bracket is written, or its races are.
LEMMA OneBracketMapped ==
    ASSUME RowsInv, RowsInv', NEW k \in 1..Len(bracket), Len(bracket') = Len(bracket),
           \A b \in 1..Len(bracket) : b # k => bracket'[b] = bracket[b] /\ Open(b)' = Open(b),
           bracket'[k].season = bracket[k].season, NEW state, bracket'[k].state = state,
           NEW open, Cardinality(Open(k)') = open
    PROVE  ABrackets' = [ABrackets EXCEPT ![k].state = state, ![k].open = open]
<1> DEFINE row == [season |-> bracket[k].season, state |-> state, open |-> open]
<1>0. Len(bracket) \in Nat
  BY LenProperties DEF RowsInv, TypeOK
<1>1. /\ ABrackets \in Seq(ABracketRow) /\ Len(ABrackets) = Len(bracket)
      /\ \A b \in 1..Len(bracket) : ABrackets[b] = ABracket(b)
  BY BracketsMapped
<1>2. /\ ABrackets' \in Seq(ABracketRow) /\ Len(ABrackets') = Len(bracket)
      /\ \A b \in 1..Len(bracket) : ABrackets'[b] = ABracket(b)'
  BY MappedNext
<1>3. ABrackets'[k] = row
  BY <1>2 DEF ABracket
<1>4. row \in ABracketRow
  BY <1>2, <1>3, ElementOfSeq
<1>5. \A b \in 1..Len(bracket) : b # k => ABrackets'[b] = ABrackets[b]
  BY <1>1, <1>2 DEF ABracket
<1> HIDE DEF row
<1>6. /\ [ABrackets EXCEPT ![k] = row] \in Seq(ABracketRow)
      /\ Len([ABrackets EXCEPT ![k] = row]) = Len(bracket)
      /\ \A b \in 1..Len(bracket) :
            [ABrackets EXCEPT ![k] = row][b] = IF b = k THEN row ELSE ABrackets[b]
  BY <1>1, <1>4, ExceptSeq
<1>7. ABrackets' = [ABrackets EXCEPT ![k] = row]
  BY <1>2, <1>3, <1>5, <1>6, SeqEqual
<1>8. row = [ABrackets[k] EXCEPT !.state = state, !.open = open]
  <2>1. ABrackets[k] \in ABracketRow
    BY <1>1, ElementOfSeq
  <2>2. row.season = ABrackets[k].season /\ row.state = state /\ row.open = open
    <3>1. ABrackets[k] = ABracket(k)
      BY <1>1
    <3>2. ABrackets[k].season = bracket[k].season
      BY <3>1 DEF ABracket
    <3>3. QED
      BY <3>2 DEF row
  <2> DEFINE new == [ABrackets[k] EXCEPT !.state = state]
  <2>3. new \in ABracketRow /\ new.season = ABrackets[k].season /\ new.state = state
    <3>1. state \in BracketState
      BY <1>4, <2>2 DEF ABracketRow
    <3>2. QED
      BY <2>1, <3>1 DEF ABracketRow
  <2> HIDE DEF new
  <2>4. row = [new EXCEPT !.open = open]
    BY <1>4, <2>2, <2>3 DEF ABracketRow
  <2>5. QED
    BY <2>4 DEF new
<1>9. ABrackets \in [1..Len(bracket) -> ABracketRow]
  BY <1>1, LenProperties
<1>10. QED
  BY <1>7, <1>8, <1>9

-----------------------------------------------------------------------------
(* Every step is a step of the contract, or none.                          *)

Promised == Contract!Next \/ UNCHANGED Contract!vars

LEMMA NotSeen == UNCHANGED <<season, bracket, round, qualifiers>> => Promised
<1> SUFFICES ASSUME UNCHANGED <<season, bracket, round, qualifiers>> PROVE Promised
  OBVIOUS
<1>1. AStates' = AStates /\ ABrackets' = ABrackets /\ qualifiers' = qualifiers
  BY StatesUnchanged, BracketsUnchanged
<1>2. QED
  BY <1>1 DEF Promised, Contract!vars, AStates, ABrackets

LEMMA SeasonPromised ==
    ASSUME RowsInv, RowsInv', OrderInv, NEW t \in Tasks, InsertSeason(t) \/ SeasonUpdate(t)
    PROVE  Promised
<1>0. /\ season \in Seq(SeasonRow) /\ Len(season) \in Nat /\ Len(bracket) \in Nat
      /\ AStates \in Seq(SeasonState) /\ Len(AStates) = Len(season)
      /\ \A s \in 1..Len(season) : AStates[s] = season[s].state
  BY LenProperties, StatesMapped DEF RowsInv, TypeOK
<1>a. /\ AStates' \in Seq(SeasonState) /\ Len(AStates') = Len(season')
      /\ \A s \in 1..Len(season') : AStates'[s] = season'[s].state
  BY MappedNext
<1>b. UNCHANGED <<bracket, round, qualifiers>> /\ ABrackets' = ABrackets
  BY BracketsUnchanged DEF InsertSeason, SeasonUpdate
<1>c. SeasonState = {"Created", "QualifiersOpen", "QualifiersClosed", "Started", "Finished"}
  BY DEF SeasonState, SeasonStates
<1>1. CASE InsertSeason(t)
  <2> DEFINE row == [state |-> "Created", finished |-> FALSE]
  <2>1. CASE season' = Append(season, row)
    <3>1. row.state = "Created" /\ row \in SeasonRow
      BY <1>c DEF SeasonRow
    <3> HIDE DEF row
    <3>2. /\ Len(season') = Len(season) + 1 /\ season'[Len(season) + 1] = row
          /\ \A s \in 1..Len(season) : season'[s] = season[s]
      BY <1>0, <2>1, <3>1, AppendProperties
    <3>3. /\ Append(AStates, "Created") \in Seq(SeasonState)
          /\ Len(Append(AStates, "Created")) = Len(season) + 1
          /\ Append(AStates, "Created")[Len(season) + 1] = "Created"
          /\ \A s \in 1..Len(season) : Append(AStates, "Created")[s] = AStates[s]
      BY <1>0, <1>c, AppendProperties
    <3>4. ASSUME NEW s \in 1..(Len(season) + 1)
          PROVE  AStates'[s] = Append(AStates, "Created")[s]
      <4>1. CASE s \in 1..Len(season)
        BY <1>0, <1>a, <3>2, <3>3, <4>1
      <4>2. CASE s = Len(season) + 1
        BY <1>0, <1>a, <3>1, <3>2, <3>3, <4>2
      <4>3. QED
        BY <1>0, <4>1, <4>2
    <3>5. AStates' = Append(AStates, "Created")
      BY <1>a, <3>2, <3>3, <3>4, SeqEqual
    <3>6. Contract!NewSeason
      BY <1>b, <3>5 DEF Contract!NewSeason, AStates, ABrackets
    <3>7. QED
      BY <3>6 DEF Promised, Contract!Next
  <2>2. CASE season' = season
    BY <1>b, <2>2, NotSeen
  <2>3. QED
    BY <1>1, <2>1, <2>2 DEF InsertSeason
<1>2. CASE SeasonUpdate(t)
  <2>0. PICK k : k = task[t].s
    OBVIOUS
  <2> DEFINE new == task[t].state
             row == [state |-> new, finished |-> season[k].finished \/ task[t].finished]
  <2>1. /\ k \in 1..Len(season) /\ new \in SeasonState /\ season' = [season EXCEPT ![k] = row]
        /\ ClosingReads(task[t])
    BY <1>2, <2>0 DEF SeasonUpdate, RowsInv, CommandOk, At, OrderInv, ReadsInv
  <2>2. /\ MayBecome(season[k].state, new)
        /\ new = "Finished" => \/ season[k].state = "Finished"
                               \/ \A b \in 1..Len(bracket) :
                                      bracket[b].season = k => bracket[b].state = "Finished"
    BY <1>2, <2>0, <2>1 DEF ClosingReads, SeasonUpdate, At
  <2>3. row \in SeasonRow /\ row.state = new
    BY <2>1 DEF SeasonRow
  <2> HIDE DEF row, new
  <2>4. /\ Len(season') = Len(season)
        /\ \A s \in 1..Len(season) : season'[s] = IF s = k THEN row ELSE season[s]
    BY <1>0, <2>1, <2>3, ExceptSeq
  <2>5. AStates' = [AStates EXCEPT ![k] = new]
    <3>1. /\ [AStates EXCEPT ![k] = new] \in Seq(SeasonState)
          /\ Len([AStates EXCEPT ![k] = new]) = Len(season)
          /\ \A s \in 1..Len(season) :
                [AStates EXCEPT ![k] = new][s] = IF s = k THEN new ELSE AStates[s]
      BY <1>0, <2>1, ExceptSeq
    <3>2. \A s \in 1..Len(season) : AStates'[s] = IF s = k THEN new ELSE AStates[s]
      BY <1>0, <1>a, <2>3, <2>4
    <3>3. QED
      BY <1>a, <2>4, <3>1, <3>2, SeqEqual
  <2>6. CASE season[k].state = new
    <3>1. AStates' = AStates
      <4>1. \A s \in 1..Len(season) : AStates'[s] = AStates[s]
        BY <1>0, <1>a, <2>1, <2>3, <2>4, <2>6
      <4>2. QED
        BY <1>0, <1>a, <2>4, <4>1, SeqEqual
    <3>2. QED
      BY <1>b, <3>1 DEF Promised, Contract!vars, AStates, ABrackets
  <2>7. CASE season[k].state # new
    <3>1. PICK i \in 1..4 : season[k].state = SeasonStates[i] /\ new = SeasonStates[i + 1]
      BY <2>2, <2>7 DEF MayBecome
    <3>2. new = "Finished" => \A b \in 1..Len(bracket) :
                                  bracket[b].season = k => bracket[b].state = "Finished"
      BY <2>2, <2>7
    <3>3. /\ Len(ABrackets) = Len(bracket)
          /\ \A b \in 1..Len(bracket) : /\ ABrackets[b].season = bracket[b].season
                                        /\ ABrackets[b].state = bracket[b].state
      BY BracketFields
    <3>4. /\ AStates[k] = SeasonStates[i] /\ AStates' = [AStates EXCEPT ![k] = SeasonStates[i + 1]]
          /\ SeasonStates[i + 1] = "Finished" => \A b \in 1..Len(ABrackets) :
                 ABrackets[b].season = k => ABrackets[b].state = "Finished"
      BY <1>0, <2>1, <2>5, <3>1, <3>2, <3>3
    <3>5. Contract!Advance(k)
      BY <1>b, <3>4 DEF Contract!Advance, Contract!States, Contract!Brackets, SeasonStates,
           AStates, ABrackets
    <3>6. k \in Contract!Seasons
      BY <1>0, <2>1 DEF Contract!Seasons, AStates
    <3>7. QED
      BY <3>5, <3>6 DEF Promised, Contract!Next
  <2>8. QED
    BY <2>6, <2>7
<1>3. QED
  BY <1>1, <1>2

LEMMA QualifierPromised ==
    ASSUME RowsInv, OrderInv, NEW t \in Tasks, InsertQualifier(t) \/ QualifierDelete(t)
    PROVE  Promised
<1>0. /\ Len(season) \in Nat /\ Len(season) <= MaxSeasons /\ Len(AStates) = Len(season)
      /\ \A s \in 1..Len(season) : AStates[s] = season[s].state
      /\ qualifiers \in [1..MaxSeasons -> SUBSET (1..MaxQualifiers)]
      /\ task[t] \in TaskRecord /\ CommandOk(task[t]) /\ OpenReads(task[t]) /\ ClosingReads(task[t])
  BY LenProperties, StatesMapped DEF RowsInv, TypeOK, OrderInv, ReadsInv
<1>a. UNCHANGED <<season, bracket, round>> /\ AStates' = AStates /\ ABrackets' = ABrackets
  BY StatesUnchanged, BracketsUnchanged DEF InsertQualifier, QualifierDelete
<1>1. CASE InsertQualifier(t)
  <2>0. PICK s : s = task[t].s
    OBVIOUS
  <2>1. s \in Nat /\ s # 0 /\ s <= Len(season) /\ season[s].state = "QualifiersOpen"
    BY <1>0, <1>1, <2>0, BoundsAssumption
       DEF InsertQualifier, At, CommandOk, OpenReads, TaskRecord, BoundsAssumption
  <2>2. s \in 1..Len(season) /\ AStates[s] = "QualifiersOpen"
    BY <1>0, <2>1
  <2>3. PICK id \in 1..MaxQualifiers : qualifiers' = [qualifiers EXCEPT ![s] = @ \cup {id}]
    BY <1>1, <2>0, NewQualifier
  <2>4. Contract!Submit(s)
    BY <1>a, <2>2, <2>3 DEF Contract!Submit, AStates, ABrackets
  <2>5. s \in Contract!Seasons
    BY <1>0, <2>2 DEF Contract!Seasons, AStates
  <2>6. QED
    BY <2>4, <2>5 DEF Promised, Contract!Next
<1>2. CASE QualifierDelete(t)
  <2>1. PICK q : q = task[t].q
    OBVIOUS
  <2>2. PICK s \in 1..Len(season) : q \in qualifiers[s] /\ safe_to_delete(s)
    BY <1>0, <1>2, <2>1 DEF QualifierDelete, At, ClosingReads
  <2>3. s \in 1..MaxSeasons /\ AStates[s] \in {"QualifiersOpen", "QualifiersClosed"}
    BY <1>0, <2>2, BoundsAssumption DEF safe_to_delete, BoundsAssumption
  <2>4. \A other \in 1..MaxSeasons : other # s => q \notin qualifiers[other]
    BY <2>2, <2>3 DEF OrderInv, RowsAgree
  <2>5. qualifiers' = [other \in 1..MaxSeasons |-> qualifiers[other] \ {q}]
    BY <1>2, <2>1 DEF QualifierDelete
  <2>6. qualifiers' = [qualifiers EXCEPT ![s] = @ \ {q}]
    BY <1>0, <2>3, <2>4, <2>5
  <2>7. Contract!Withdraw(s)
    BY <1>a, <2>2, <2>3, <2>6 DEF Contract!Withdraw, AStates, ABrackets
  <2>8. s \in Contract!Seasons
    BY <1>0, <2>2 DEF Contract!Seasons, AStates
  <2>9. QED
    BY <2>7, <2>8 DEF Promised, Contract!Next
<1>3. QED
  BY <1>1, <1>2

\* A bracket is made in the first season that is not finished, although seasons
\* are made while its command is handled.
LEMMA InsertBracketPromised ==
    ASSUME RowsInv, RowsInv', OrderInv, NEW t \in Tasks, InsertBracket(t)
    PROVE  Promised
<1>0. /\ Len(season) \in Nat /\ Len(AStates) = Len(season)
      /\ \A s \in 1..Len(season) : AStates[s] = season[s].state
      /\ bracket \in Seq(BracketRow) /\ Len(bracket) \in Nat /\ Len(bracket) < MaxBrackets
      /\ task[t] \in TaskRecord /\ CommandOk(task[t]) /\ OpenReads(task[t])
      /\ ABrackets \in Seq(ABracketRow) /\ Len(ABrackets) = Len(bracket)
      /\ \A b \in 1..Len(bracket) : ABrackets[b] = ABracket(b)
  BY LenProperties, StatesMapped, BracketsMapped
     DEF RowsInv, TypeOK, OrderInv, ReadsInv, InsertBracket
<1>a. UNCHANGED <<season, entry, round, qualifiers>> /\ AStates' = AStates
  BY StatesUnchanged DEF InsertBracket
<1>b. /\ ABrackets' \in Seq(ABracketRow) /\ Len(ABrackets') = Len(bracket')
      /\ \A b \in 1..Len(bracket') : ABrackets'[b] = ABracket(b)'
  BY MappedNext
<1>1. PICK s : s = task[t].s
  OBVIOUS
<1>2. PICK type \in BracketType :
          bracket' = Append(bracket, [state |-> "Unstarted", type |-> type, season |-> s])
  BY <1>1 DEF InsertBracket
<1>n. PICK n : n = Len(bracket) + 1
  OBVIOUS
<1> DEFINE row == [state |-> "Unstarted", type |-> type, season |-> s]
           new == [season |-> s, state |-> "Unstarted", open |-> 0]
<1>3. /\ s \in Nat /\ s # 0 /\ s <= Len(season) /\ season[s].state # "Finished"
      /\ \A earlier \in 1..(s - 1) : season[earlier].state = "Finished"
  BY <1>0, <1>1, BoundsAssumption
     DEF InsertBracket, At, CommandOk, OpenReads, TaskRecord, BoundsAssumption
<1>4. s \in 1..Len(season) /\ \A earlier \in 1..(s - 1) : earlier \in 1..Len(season)
  BY <1>0, <1>3
<1>5. /\ AStates[s] # "Finished" /\ \A earlier \in 1..(s - 1) : AStates[earlier] = "Finished"
  BY <1>0, <1>3, <1>4
<1>6. /\ Len(bracket') = n /\ bracket'[n] = row
      /\ \A b \in 1..Len(bracket) : bracket'[b] = bracket[b]
  BY <1>0, <1>2, <1>n
<1>7. Open(n)' = {} /\ \A b : Open(b)' = Open(b)
  <2>1. n \in 1..MaxBrackets /\ n > Len(bracket)
    BY <1>0, <1>n, BoundsAssumption DEF BoundsAssumption
  <2>2. round[n] = <<>>
    BY <2>1 DEF RowsInv, RacesInv
  <2>3. Len(round'[n]) = 0
    BY <1>a, <2>2
  <2>4. Open(n)' = {}
    BY <2>3 DEF Open
  <2>5. ASSUME NEW b PROVE Open(b)' = Open(b)
    <3>1. round' = round
      BY <1>a
    <3>2. QED
      BY <3>1 DEF Open
  <2>6. QED
    BY <2>4, <2>5
<1>8. ABrackets'[n] = new
  <2>1. n \in 1..Len(bracket')
    BY <1>0, <1>6, <1>n
  <2>2. ABrackets'[n] = ABracket(n)'
    BY <1>b, <2>1
  <2>3. bracket'[n].season = s /\ bracket'[n].state = "Unstarted"
    BY <1>6
  <2>4. Cardinality(Open(n)') = 0
    BY <1>7, FS_EmptySet
  <2>5. ABracket(n)' = new
    BY <2>3, <2>4 DEF ABracket
  <2>6. QED
    BY <2>2, <2>5
<1>9. ASSUME NEW b \in 1..Len(bracket) PROVE ABrackets'[b] = ABrackets[b]
  <2>1. ABrackets'[b] = ABracket(b)' /\ ABrackets[b] = ABracket(b)
    BY <1>0, <1>b, <1>6, <1>n
  <2>2. ABracket(b)' = ABracket(b)
    BY <1>6, <1>7 DEF ABracket
  <2>3. QED
    BY <2>1, <2>2
<1>10. new \in ABracketRow
  <2>1. n \in 1..Len(ABrackets')
    BY <1>0, <1>b, <1>6, <1>n
  <2>2. QED
    BY <1>b, <1>8, <2>1, ElementOfSeq
<1> HIDE DEF new, row
<1>11. /\ Append(ABrackets, new) \in Seq(ABracketRow) /\ Len(Append(ABrackets, new)) = n
       /\ Append(ABrackets, new)[n] = new
       /\ \A b \in 1..Len(bracket) : Append(ABrackets, new)[b] = ABrackets[b]
  BY <1>0, <1>n, <1>10, AppendProperties
<1>12. \A b \in 1..n : ABrackets'[b] = Append(ABrackets, new)[b]
  <2>1. \A b \in 1..n : b = n \/ b \in 1..Len(bracket)
    BY <1>0, <1>n
  <2>2. QED
    BY <1>8, <1>9, <1>11, <2>1
<1>13. ABrackets' = Append(ABrackets, new)
  BY <1>b, <1>6, <1>11, <1>12, SeqEqual
<1>14. Contract!NewBracket(s)
  BY <1>a, <1>5, <1>13 DEF Contract!NewBracket, AStates, ABrackets, new
<1>15. s \in Contract!Seasons
  BY <1>0, <1>4 DEF Contract!Seasons, AStates
<1>16. QED
  BY <1>14, <1>15 DEF Promised, Contract!Next

\* No races are open once every one is finished, or before there is a round.
LEMMA NothingOpen ==
    ASSUME RowsInv, NEW b \in 1..MaxBrackets
    PROVE  Cardinality(Open(b)) = 0 <=> AllRacesFinished(b)
BY OpenFinite, FS_EmptySet DEF AllRacesFinished

\* The races that a round adds are the only ones that are open.
LEMMA RoundAddedOpen ==
    ASSUME RowsInv, NEW k \in 1..Len(bracket), NEW state, NEW rs \in Pairings(k, state),
           round' = [round EXCEPT ![k] = Append(@, [r \in rs |-> TRUE])],
           Len(bracket') = Len(bracket), UNCHANGED entry, Open(k) = {}
    PROVE  /\ Cardinality(Open(k)') \in 0..Cardinality(Races)
           /\ \A b \in 1..MaxBrackets : b # k => Open(b)' = Open(b)
<1>1. /\ Len(round'[k]) = Len(round[k]) + 1
      /\ \A n \in 1..Len(round[k]) : round'[k][n] = round[k][n]
      /\ \A b \in 1..MaxBrackets : b # k => round'[b] = round[b]
  BY RoundIsAdded
<1>2. Len(round[k]) \in Nat
  BY LenProperties, BoundsAssumption DEF RowsInv, TypeOK, BoundsAssumption
<1>3. PICK open : open = Open(k)'
  OBVIOUS
<1>4. PICK last : last = Len(round[k]) + 1
  OBVIOUS
<1>5. open \subseteq {last} \X Races
  <2> SUFFICES ASSUME NEW y \in open PROVE y \in {last} \X Races
    OBVIOUS
  <2>1. /\ y \in (1..Len(round'[k])) \X Races
        /\ y[2] \in DOMAIN round'[k][y[1]] /\ round'[k][y[1]][y[2]]
    BY <1>3 DEF Open
  <2>2. y[1] \in 1..Len(round[k]) \/ y[1] = last
    BY <1>1, <1>2, <1>4, <2>1
  <2>3. CASE y[1] \in 1..Len(round[k])
    <3>1. round'[k][y[1]] = round[k][y[1]]
      BY <1>1, <2>3
    <3>2. y \in Open(k)
      BY <2>1, <2>3, <3>1 DEF Open
    <3>3. QED
      BY <3>2
  <2>4. CASE y[1] = last
    BY <2>1, <2>4
  <2>5. QED
    BY <2>2, <2>3, <2>4
<1>6. IsFiniteSet({last} \X Races) /\ Cardinality({last} \X Races) = Cardinality(Races)
  <2>1. IsFiniteSet({last}) /\ Cardinality({last}) = 1
    BY FS_Singleton
  <2>2. /\ IsFiniteSet({last} \X Races)
        /\ Cardinality({last} \X Races) = Cardinality({last}) * Cardinality(Races)
    BY <2>1, RacesFinite, FS_Product
  <2>3. Cardinality(Races) \in Nat
    BY RacesFinite, FS_CardinalityType
  <2>4. QED
    BY <2>1, <2>2, <2>3
<1>7. IsFiniteSet(open) /\ Cardinality(open) <= Cardinality(Races)
  BY <1>5, <1>6, FS_Subset
<1>8. Cardinality(open) \in Nat /\ Cardinality(Races) \in Nat
  BY <1>7, RacesFinite, FS_CardinalityType
<1>9. Cardinality(open) \in 0..Cardinality(Races)
  BY <1>7, <1>8
<1>10. \A b \in 1..MaxBrackets : b # k => Open(b)' = Open(b)
  BY <1>1 DEF Open
<1>11. QED
  BY <1>3, <1>9, <1>10

\* A round is added to a bracket that is not finished, and only when no race
\* is open in it, although brackets' commands overlap.
LEMMA PairingsPromised ==
    ASSUME RowsInv, RowsInv', OrderInv, NEW t \in Tasks, generate_pairings(t)
    PROVE  Promised
<1>1. PICK k : k = task[t].b
  OBVIOUS
<1>2. PICK state : state = task[t].state
  OBVIOUS
<1>3. /\ k \in 1..Len(bracket) /\ UNCHANGED <<season, entry, qualifiers>>
      /\ Len(bracket') = Len(bracket)
  BY <1>1, PairingsStep DEF generate_pairings
<1>0. /\ k \in 1..MaxBrackets /\ Len(bracket) \in Nat /\ AStates' = AStates
      /\ OpenReads(task[t]) /\ \A b \in 1..Len(bracket) : b \in 1..MaxBrackets
  BY <1>3, StatesUnchanged, LenProperties, BoundsAssumption
     DEF RowsInv, TypeOK, OrderInv, ReadsInv, BoundsAssumption
<1>4. CASE UNCHANGED <<round, bracket>>
  BY <1>3, <1>4, NotSeen
<1>5. ASSUME NEW rs \in Pairings(k, state),
             round' = [round EXCEPT ![k] = Append(@, [r \in rs |-> TRUE])],
             bracket' = IF state = "Unstarted" THEN [bracket EXCEPT ![k].state = "Started"]
                        ELSE bracket
      PROVE  Promised
  <2>1. state \in {"Unstarted", "Started"} /\ Open(k) = {}
    <3>1. \/ state = "Unstarted" /\ round[k] = <<>>
          \/ state = "Started" /\ AllRacesFinished(k)
      BY <1>5 DEF Pairings
    <3>2. round[k] = <<>> => Open(k) = {}
      <4>1. round[k] = <<>> => Len(round[k]) = 0
        OBVIOUS
      <4>2. QED
        BY <4>1 DEF Open
    <3>3. QED
      BY <3>1, <3>2 DEF AllRacesFinished
  <2>2. /\ bracket[k].state # "Finished"
        /\ state = "Started" => bracket[k].state = "Started"
    BY <1>0, <1>1, <1>2, <2>1 DEF OpenReads, generate_pairings, At
  <2>3. PICK open \in 0..Cardinality(Races) : Cardinality(Open(k)') = open
    BY <1>3, <1>5, <2>1, RoundAddedOpen
  <2>4. \A b \in 1..Len(bracket) : b # k => Open(b)' = Open(b)
    BY <1>0, <1>3, <1>5, <2>1, RoundAddedOpen
  <2>5. /\ bracket'[k].state = "Started" /\ bracket'[k].season = bracket[k].season
        /\ \A b \in 1..Len(bracket) : b # k => bracket'[b] = bracket[b]
    <3>1. CASE state = "Unstarted"
      BY <1>3, <1>5, <3>1, BracketChanges DEF BracketState
    <3>2. CASE state = "Started"
      BY <1>5, <2>2, <3>2
    <3>3. QED
      BY <2>1, <3>1, <3>2
  <2>6. ABrackets' = [ABrackets EXCEPT ![k].state = "Started", ![k].open = open]
    BY <1>3, <2>3, <2>4, <2>5, OneBracketMapped
  <2>7. ABrackets[k].state # "Finished" /\ ABrackets[k].open = 0 /\ k \in 1..Len(ABrackets)
    <3>1. Cardinality(Open(k)) = 0
      BY <2>1, FS_EmptySet
    <3>2. ABrackets[k].state = bracket[k].state /\ ABrackets[k].open = Cardinality(Open(k))
      BY <1>3, BracketFields
    <3>3. k \in 1..Len(ABrackets)
      BY <1>3, BracketFields
    <3>4. QED
      BY <2>2, <3>1, <3>2, <3>3
  <2>8. Contract!Pair(k)
    BY <1>0, <1>3, <2>3, <2>6, <2>7 DEF Contract!Pair, AStates, ABrackets
  <2>9. k \in Contract!Brackets
    BY <2>7 DEF Contract!Brackets, ABrackets
  <2>10. QED
    BY <2>8, <2>9 DEF Promised, Contract!Next
<1>6. QED
  BY <1>1, <1>2, <1>4, <1>5 DEF generate_pairings

LEMMA RacePromised ==
    ASSUME RowsInv, RowsInv', RaceIsFinished
    PROVE  Promised
<1>0. UNCHANGED <<season, bracket, qualifiers>> /\ AStates' = AStates
  BY StatesUnchanged DEF RaceIsFinished
<1>1. PICK k \in 1..Len(bracket) : \E x \in Open(k) :
          /\ Open(k)' = Open(k) \ {x}
          /\ \A b \in 1..MaxBrackets : b # k => Open(b)' = Open(b)
  BY RaceFinishedOpen
<1>2. PICK x \in Open(k) : /\ Open(k)' = Open(k) \ {x}
                           /\ \A b \in 1..MaxBrackets : b # k => Open(b)' = Open(b)
  BY <1>1
<1>3. k \in 1..MaxBrackets /\ \A b \in 1..Len(bracket) : b \in 1..MaxBrackets
  BY LenProperties, BoundsAssumption DEF RowsInv, TypeOK, BoundsAssumption
<1>4. /\ IsFiniteSet(Open(k)) /\ Cardinality(Open(k)) \in Nat /\ Cardinality(Open(k)) # 0
  BY <1>3, OpenFinite, FS_EmptySet
<1>5. Cardinality(Open(k)') = Cardinality(Open(k)) - 1
  BY <1>2, <1>4, FS_RemoveElement
<1>6. PICK open : open = Cardinality(Open(k)) - 1
  OBVIOUS
<1>7. PICK state : state = bracket[k].state
  OBVIOUS
<1>8. ABrackets' = [ABrackets EXCEPT ![k].state = state, ![k].open = open]
  BY <1>0, <1>2, <1>3, <1>5, <1>6, <1>7, OneBracketMapped
<1>9. /\ ABrackets[k].state = state /\ ABrackets[k].open = Cardinality(Open(k))
      /\ k \in 1..Len(ABrackets)
  BY <1>7, BracketFields
<1>10. ABrackets[k].open > 0 /\ ABrackets' = [ABrackets EXCEPT ![k].open = @ - 1]
  <2>1. ABrackets \in [1..Len(ABrackets) -> ABracketRow] /\ ABrackets[k] \in ABracketRow
    BY <1>9, BracketsMapped, LenProperties, ElementOfSeq
  <2>2. [ABrackets[k] EXCEPT !.state = state] = ABrackets[k]
    BY <1>9, <2>1 DEF ABracketRow
  <2>3. ABrackets' = [ABrackets EXCEPT ![k].open = open]
    BY <1>8, <2>1, <2>2
  <2>4. QED
    BY <1>4, <1>6, <1>9, <2>3
<1>11. Contract!RaceFinished(k)
  BY <1>0, <1>10 DEF Contract!RaceFinished, AStates, ABrackets
<1>12. k \in Contract!Brackets
  BY <1>9 DEF Contract!Brackets, ABrackets
<1>13. QED
  BY <1>11, <1>12 DEF Promised, Contract!Next

\* A bracket is finished when none of its races is open, which holds still when
\* the command that looked writes.
LEMMA BracketUpdatePromised ==
    ASSUME RowsInv, RowsInv', OrderInv, NEW t \in Tasks, BracketUpdate(t)
    PROVE  Promised
<1>0. UNCHANGED <<season, round, qualifiers>> /\ AStates' = AStates /\ ClosingReads(task[t])
  BY StatesUnchanged DEF BracketUpdate, OrderInv, ReadsInv
<1>1. PICK k : k = task[t].b
  OBVIOUS
<1>2. k \in 1..Len(bracket) /\ k \in 1..MaxBrackets /\ AllRacesFinished(k)
  BY <1>0, <1>1, BracketCommandTypes DEF BracketUpdate, At, ClosingReads
<1>3. bracket' = [bracket EXCEPT ![k].state = "Finished"]
  BY <1>1 DEF BracketUpdate
<1>4. /\ bracket'[k].state = "Finished" /\ bracket'[k].season = bracket[k].season
      /\ Len(bracket') = Len(bracket)
      /\ \A b \in 1..Len(bracket) : b # k => bracket'[b] = bracket[b]
  BY <1>2, <1>3, BracketChanges DEF BracketState
<1>5. ASSUME NEW b PROVE Open(b)' = Open(b)
  <2>1. round' = round
    BY <1>0
  <2>2. QED
    BY <2>1 DEF Open
<1>6. Cardinality(Open(k)') = 0 /\ Cardinality(Open(k)) = 0
  BY <1>2, <1>5, NothingOpen
<1>7. ABrackets' = [ABrackets EXCEPT ![k].state = "Finished", ![k].open = 0]
  BY <1>2, <1>4, <1>5, <1>6, OneBracketMapped
<1>8. ABrackets[k].open = 0 /\ k \in 1..Len(ABrackets)
  BY <1>2, <1>6, BracketFields
<1>9. ABrackets' = [ABrackets EXCEPT ![k].state = "Finished"]
  <2>1. ABrackets \in [1..Len(ABrackets) -> ABracketRow] /\ ABrackets[k] \in ABracketRow
    BY <1>8, BracketsMapped, LenProperties, ElementOfSeq
  <2> DEFINE new == [ABrackets[k] EXCEPT !.state = "Finished"]
  <2>2. new \in ABracketRow /\ new.open = 0
    BY <1>8, <2>1 DEF ABracketRow, BracketState
  <2> HIDE DEF new
  <2>3. [new EXCEPT !.open = 0] = new
    BY <2>2 DEF ABracketRow
  <2>4. QED
    BY <1>7, <2>1, <2>3 DEF new
<1>10. Contract!FinishBracket(k)
  BY <1>0, <1>8, <1>9 DEF Contract!FinishBracket, AStates, ABrackets
<1>11. k \in Contract!Brackets
  BY <1>8 DEF Contract!Brackets, ABrackets
<1>12. QED
  BY <1>10, <1>11 DEF Promised, Contract!Next

LEMMA NextPromised ==
    ASSUME RowsInv, RowsInv', OrderInv, [Next]_vars
    PROVE  Promised
<1>1. CASE UNCHANGED vars
  BY <1>1, NotSeen DEF vars
<1>2. ASSUME NEW t \in Tasks, BeginStep(t) PROVE Promised
  BY <1>2, BeginsRight, NotSeen
<1>3. ASSUME NEW t \in Tasks, GiveUp(t) PROVE Promised
  BY <1>3, NotSeen DEF GiveUp
<1>4. ASSUME NEW t \in Tasks, SeasonCommand(t) PROVE Promised
  <2>1. CASE SeasonFinish(t)
    BY <2>1, NotSeen DEF SeasonFinish
  <2>2. QED
    BY <1>2, <1>4, <2>1, SeasonPromised DEF SeasonCommand, BeginStep
<1>5. ASSUME NEW t \in Tasks, BracketCommand(t) PROVE Promised
  <2>1. CASE CreateBracket(t) \/ AddPlayer(t) \/ GeneratePairings(t) \/ FinishBracket(t)
    BY <1>2, <2>1 DEF BeginStep
  <2>2. CASE InsertEntry(t) \/ BracketFinish(t)
    BY <2>2, NotSeen DEF InsertEntry, BracketFinish
  <2>3. QED
    BY <1>5, <2>1, <2>2, InsertBracketPromised, PairingsPromised, BracketUpdatePromised
       DEF BracketCommand
<1>6. ASSUME NEW t \in Tasks, QualifierCommand(t) PROVE Promised
  BY <1>2, <1>6, QualifierPromised DEF QualifierCommand, BeginStep
<1>7. QED
  BY <1>1, <1>3, <1>4, <1>5, <1>6, RacePromised DEF Next

LEMMA InitPromised == Init => Contract!Init
<1> SUFFICES ASSUME Init PROVE Contract!Init
  OBVIOUS
<1>1. /\ AStates \in Seq(SeasonState) /\ Len(AStates) = Len(season)
      /\ ABrackets \in Seq(ABracketRow) /\ Len(ABrackets) = Len(bracket)
  BY InitRows, StatesMapped, BracketsMapped
<1>2. Len(season) = 0 /\ Len(bracket) = 0
  BY DEF Init
<1>3. AStates = <<>> /\ ABrackets = <<>>
  BY <1>1, <1>2, EmptySeq
<1>4. qualifiers = [s \in 1..MaxSeasons |-> {}]
  BY DEF Init
<1>5. QED
  BY <1>3, <1>4 DEF Contract!Init, AStates, ABrackets

\* When the commands that close a season or a bracket, or delete a qualifier,
\* run alone, no command writes what it read too long ago, although all others
\* may overlap.
THEOREM CommandsAreOrdered == ASSUME Closing \subseteq Alone PROVE Spec => [](RowsInv /\ OrderInv)
<1>1. Init => RowsInv /\ OrderInv
  BY InitRows, InitOrder
<1>2. RowsInv /\ OrderInv /\ [Next]_vars => (RowsInv /\ OrderInv)'
  BY NextRows, NextOrder
<1>3. QED
  BY <1>1, <1>2, PTL DEF Spec

\* ... and the league keeps its contract: seasons go from state to state, one
\* at a time and never back, qualifiers change while they are open or weeded,
\* brackets belong to the season under way, and nothing is closed before its
\* parts are.
THEOREM LeagueKeepsItsContract == ASSUME Closing \subseteq Alone PROVE Spec => ImplementsContract
<1>1. Init => Contract!Init
  BY InitPromised
<1>2. RowsInv /\ RowsInv' /\ OrderInv /\ [Next]_vars => [Contract!Next]_Contract!vars
  BY NextPromised DEF Promised
<1>3. Spec => [](RowsInv /\ OrderInv)
  BY CommandsAreOrdered
<1>4. QED
  BY <1>1, <1>2, <1>3, PTL DEF Spec, ImplementsContract, Contract!Spec

LEMMA NextOver ==
    ASSUME RowsInv, OrderInv, FinishedBracketIsOver, [Next]_vars
    PROVE  FinishedBracketIsOver'
<1>0. /\ bracket \in Seq(BracketRow) /\ Len(bracket) \in Nat /\ Len(bracket) <= MaxBrackets
      /\ \A b \in 1..Len(bracket) : b \in 1..MaxBrackets
  BY LenProperties, BoundsAssumption DEF RowsInv, TypeOK, BoundsAssumption
<1>1. ASSUME UNCHANGED round PROVE \A b : AllRacesFinished(b) => AllRacesFinished(b)'
  BY <1>1 DEF AllRacesFinished, Open
<1>2. ASSUME UNCHANGED <<bracket, round>> PROVE FinishedBracketIsOver'
  BY <1>1, <1>2 DEF FinishedBracketIsOver
<1>3. CASE UNCHANGED vars
  BY <1>2, <1>3 DEF vars
<1>4. ASSUME NEW t \in Tasks, BeginStep(t) \/ GiveUp(t) PROVE FinishedBracketIsOver'
  BY <1>2, <1>4, BeginsRight DEF GiveUp
<1>5. ASSUME NEW t \in Tasks, SeasonCommand(t) PROVE FinishedBracketIsOver'
  BY <1>2, <1>4, <1>5 DEF SeasonCommand, BeginStep, InsertSeason, SeasonFinish, SeasonUpdate
<1>6. ASSUME NEW t \in Tasks, QualifierCommand(t) PROVE FinishedBracketIsOver'
  BY <1>2, <1>4, <1>6 DEF QualifierCommand, BeginStep, InsertQualifier, QualifierDelete
<1>7. ASSUME NEW t \in Tasks, InsertBracket(t) PROVE FinishedBracketIsOver'
  <2>1. PICK row : bracket' = Append(bracket, row) /\ row.state = "Unstarted"
    BY <1>7 DEF InsertBracket
  <2>2. \A b \in 1..Len(bracket') : bracket'[b].state = "Finished" =>
            b \in 1..Len(bracket) /\ bracket[b].state = "Finished"
    BY <1>0, <2>1
  <2>3. UNCHANGED round
    BY <1>7 DEF InsertBracket
  <2>4. QED
    BY <1>1, <2>2, <2>3 DEF FinishedBracketIsOver
<1>8. ASSUME NEW t \in Tasks, generate_pairings(t) PROVE FinishedBracketIsOver'
  <2>1. CASE UNCHANGED <<round, bracket>>
    BY <1>2, <2>1
  <2>2. CASE ~ UNCHANGED <<round, bracket>>
    <3>1. PICK k : k = task[t].b
      OBVIOUS
    <3>2. PICK state : state = task[t].state
      OBVIOUS
    <3>3. PICK rs \in Pairings(k, state) : round' = [round EXCEPT ![k] = Append(@, [r \in rs |-> TRUE])]
      BY <1>8, <2>2, <3>1, <3>2 DEF generate_pairings
    <3>4. bracket' = IF state = "Unstarted" THEN [bracket EXCEPT ![k].state = "Started"] ELSE bracket
      BY <1>8, <2>2, <3>1, <3>2 DEF generate_pairings
    <3>5. k \in 1..Len(bracket) /\ UNCHANGED entry /\ Len(bracket') = Len(bracket)
      BY <1>8, <3>1, PairingsStep
    <3>6. state \in {"Unstarted", "Started"}
      BY <3>3 DEF Pairings
    <3>7. state = "Started" => bracket[k].state = "Started"
      BY <1>8, <3>1, <3>2 DEF OrderInv, ReadsInv, OpenReads, generate_pairings, At
    <3>8. /\ bracket'[k].state = "Started"
          /\ \A b \in 1..Len(bracket) : b # k => bracket'[b] = bracket[b]
      <4>1. CASE state = "Unstarted"
        BY <3>4, <3>5, <4>1, BracketChanges DEF BracketState
      <4>2. CASE state = "Started"
        BY <3>4, <3>7, <4>2
      <4>3. QED
        BY <3>6, <4>1, <4>2
    <3>9. \A b \in 1..Len(bracket) : b # k => round'[b] = round[b]
      BY <1>0, <3>3, <3>5, RoundIsAdded
    <3>10. ASSUME NEW b \in 1..Len(bracket'), bracket'[b].state = "Finished"
           PROVE  AllRacesFinished(b)'
      <4>1. b # k /\ b \in 1..Len(bracket) /\ bracket[b].state = "Finished" /\ round'[b] = round[b]
        BY <3>5, <3>8, <3>9, <3>10
      <4>2. QED
        BY <4>1 DEF FinishedBracketIsOver, AllRacesFinished, Open
    <3>11. QED
      BY <3>10 DEF FinishedBracketIsOver
  <2>3. QED
    BY <2>1, <2>2
<1>9. ASSUME NEW t \in Tasks, BracketUpdate(t) PROVE FinishedBracketIsOver'
  <2>1. PICK k : k = task[t].b
    OBVIOUS
  <2>2. k \in 1..Len(bracket) /\ AllRacesFinished(k)
    BY <1>9, <2>1, BracketCommandTypes DEF BracketUpdate, At, ClosingReads, OrderInv, ReadsInv
  <2>3. bracket' = [bracket EXCEPT ![k].state = "Finished"] /\ UNCHANGED round
    BY <1>9, <2>1 DEF BracketUpdate
  <2>4. /\ Len(bracket') = Len(bracket)
        /\ \A b \in 1..Len(bracket) : b # k => bracket'[b] = bracket[b]
    BY <2>2, <2>3, BracketChanges DEF BracketState
  <2>5. QED
    BY <1>1, <2>2, <2>3, <2>4 DEF FinishedBracketIsOver
<1>10. ASSUME NEW t \in Tasks, BracketCommand(t) PROVE FinishedBracketIsOver'
  <2>1. CASE CreateBracket(t) \/ AddPlayer(t) \/ GeneratePairings(t) \/ FinishBracket(t)
    BY <1>4, <2>1 DEF BeginStep
  <2>2. CASE InsertEntry(t) \/ BracketFinish(t)
    BY <1>2, <2>2 DEF InsertEntry, BracketFinish
  <2>3. QED
    BY <1>7, <1>8, <1>9, <1>10, <2>1, <2>2 DEF BracketCommand
<1>11. CASE RaceIsFinished
  <2>1. UNCHANGED bracket
    BY <1>11 DEF RaceIsFinished
  <2>2. \A b \in 1..MaxBrackets : Open(b)' \subseteq Open(b)
    BY <1>11, RaceFinishedOpen
  <2>3. QED
    BY <1>0, <2>1, <2>2 DEF FinishedBracketIsOver, AllRacesFinished
<1>12. QED
  BY <1>3, <1>4, <1>5, <1>6, <1>10, <1>11 DEF Next

\* A finished bracket has no open race, and gets no more of them, when brackets
\* and seasons are closed by commands that run alone: what one run shows not to
\* hold of commands that overlap.
THEOREM FinishedBracketStaysOver ==
    ASSUME Closing \subseteq Alone PROVE Spec => []FinishedBracketIsOver
<1>1. Init => FinishedBracketIsOver
  BY DEF Init, FinishedBracketIsOver
<1>2. RowsInv /\ OrderInv /\ FinishedBracketIsOver /\ [Next]_vars => FinishedBracketIsOver'
  BY NextOver
<1>3. Spec => [](RowsInv /\ OrderInv)
  BY CommandsAreOrdered
<1>4. QED
  BY <1>1, <1>2, <1>3, PTL DEF Spec

-----------------------------------------------------------------------------
(* Brackets, when any commands overlap.                                    *)

\* A command that found all races finished and is to save its bracket as
\* finished; one that is to add a round.
Closes(c) == c.kind = "finish_bracket" /\ c.pc = "save"

Pairs(c) == c.kind = "generate_pairings" /\ c.pc = "save"

\* They do not meet over one bracket.
PairingsApart ==
    \A t, u \in Tasks : Closes(task[t]) /\ Pairs(task[u]) => task[t].b # task[u].b

\* What a command found still holds.
StillSo(c) ==
    /\ Closes(c) => AllRacesFinished(c.b)
    /\ Pairs(c) /\ bracket[c.b].state = "Finished" => c.state = "Finished"

OverInv == FinishedBracketIsOver /\ \A t \in Tasks : StillSo(task[t])

\* A command begins, goes on or is done, and no bracket and no round is written.
LEMMA OverSteps ==
    ASSUME RowsInv, OverInv, UNCHANGED <<bracket, round>>, NEW t \in Tasks, NEW c,
           task' = [task EXCEPT ![t] = c], StillSo(c)
    PROVE  OverInv'
<1>1. \A b : AllRacesFinished(b) => AllRacesFinished(b)'
  BY DEF AllRacesFinished, Open
<1>2. FinishedBracketIsOver'
  BY <1>1 DEF OverInv, FinishedBracketIsOver
<1>3. task'[t] = c /\ \A u \in Tasks : u # t => task'[u] = task[u]
  BY DEF RowsInv, TypeOK
<1>4. \A u \in Tasks : StillSo(task'[u])
  BY <1>3 DEF OverInv
<1>5. ASSUME NEW d, StillSo(d) PROVE StillSo(d)'
  BY <1>1, <1>5 DEF StillSo
<1>6. \A u \in Tasks : StillSo(task[u])'
  <2> SUFFICES ASSUME NEW u \in Tasks PROVE StillSo(task[u])'
    OBVIOUS
  <2> PICK d : d = task'[u]
    OBVIOUS
  <2>1. StillSo(d)'
    BY <1>4, <1>5
  <2>2. QED
    BY <2>1 DEF StillSo
<1>7. QED
  BY <1>2, <1>6 DEF OverInv

LEMMA BeginsOver ==
    ASSUME RowsInv, NEW t \in Tasks, BeginStep(t)
    PROVE  \E c : task' = [task EXCEPT ![t] = c] /\ StillSo(c)
<1>1. CASE GeneratePairings(t)
  <2>1. PICK b \in 1..Len(bracket) :
            Begin(t, [Idle EXCEPT !.kind = "generate_pairings", !.pc = "save", !.b = b,
                                  !.state = bracket[b].state])
    BY <1>1 DEF GeneratePairings
  <2>2. StillSo([Idle EXCEPT !.kind = "generate_pairings", !.pc = "save", !.b = b,
                             !.state = bracket[b].state])
    BY DEF StillSo, Closes, Pairs, Idle
  <2>3. QED
    BY <2>1, <2>2 DEF Begin
<1>2. CASE FinishBracket(t)
  <2>1. PICK b \in 1..Len(bracket) :
            Begin(t, [Idle EXCEPT !.kind = "finish_bracket", !.pc = "check", !.b = b])
    BY <1>2 DEF FinishBracket
  <2>2. StillSo([Idle EXCEPT !.kind = "finish_bracket", !.pc = "check", !.b = b])
    BY DEF StillSo, Closes, Pairs, Idle
  <2>3. QED
    BY <2>1, <2>2 DEF Begin
<1>3. CASE \/ CreateSeason(t) \/ SetSeasonState(t) \/ CreateBracket(t) \/ AddPlayer(t)
           \/ SubmitQualifier(t) \/ DeleteQualifier(t)
  <2>1. PICK c : Begin(t, c) /\ c.kind \notin {"finish_bracket", "generate_pairings"}
    <3>1. CASE CreateSeason(t)
      <4>1. \E x : Begin(t, [Idle EXCEPT !.kind = "create_season", !.pc = "save", !.s = x])
        BY <3>1 DEF CreateSeason
      <4>2. \A x : [Idle EXCEPT !.kind = "create_season", !.pc = "save", !.s = x].kind
                     = "create_season"
        BY DEF Idle
      <4>3. QED
        BY <4>1, <4>2
    <3>2. CASE SetSeasonState(t)
      <4>1. PICK s \in 1..Len(season), new \in SeasonState :
               Begin(t, [Idle EXCEPT !.kind = "set_season_state", !.s = s, !.state = new,
                                     !.pc = IF new = "Finished" /\ season[s].state # new
                                            THEN "check" ELSE "save",
                                     !.finished = season[s].finished])
        BY <3>2 DEF SetSeasonState
      <4>2. \A pc, f : [Idle EXCEPT !.kind = "set_season_state", !.s = s, !.state = new,
                                    !.pc = pc, !.finished = f].kind = "set_season_state"
        BY DEF Idle
      <4>3. QED
        BY <4>1, <4>2
    <3>3. CASE CreateBracket(t)
      <4>1. \E x : Begin(t, [Idle EXCEPT !.kind = "create_bracket", !.pc = "save", !.s = x])
        BY <3>3 DEF CreateBracket
      <4>2. \A x : [Idle EXCEPT !.kind = "create_bracket", !.pc = "save", !.s = x].kind
                     = "create_bracket"
        BY DEF Idle
      <4>3. QED
        BY <4>1, <4>2
    <3>4. CASE AddPlayer(t)
      <4>1. \E x : Begin(t, [Idle EXCEPT !.kind = "add_player", !.pc = "save", !.b = x])
        BY <3>4 DEF AddPlayer
      <4>2. \A x : [Idle EXCEPT !.kind = "add_player", !.pc = "save", !.b = x].kind
                     = "add_player"
        BY DEF Idle
      <4>3. QED
        BY <4>1, <4>2
    <3>5. CASE SubmitQualifier(t)
      <4>1. \E x : Begin(t, [Idle EXCEPT !.kind = "submit_qualifier", !.pc = "save", !.s = x])
        BY <3>5 DEF SubmitQualifier
      <4>2. \A x : [Idle EXCEPT !.kind = "submit_qualifier", !.pc = "save", !.s = x].kind
                     = "submit_qualifier"
        BY DEF Idle
      <4>3. QED
        BY <4>1, <4>2
    <3>6. CASE DeleteQualifier(t)
      <4>1. \E x : Begin(t, [Idle EXCEPT !.kind = "delete_qualifier", !.pc = "save", !.q = x])
        BY <3>6 DEF DeleteQualifier
      <4>2. \A x : [Idle EXCEPT !.kind = "delete_qualifier", !.pc = "save", !.q = x].kind
                     = "delete_qualifier"
        BY DEF Idle
      <4>3. QED
        BY <4>1, <4>2
    <3>7. QED
      BY <1>3, <3>1, <3>2, <3>3, <3>4, <3>5, <3>6
  <2>2. QED
    BY <2>1 DEF Begin, StillSo, Closes, Pairs
<1>4. QED
  BY <1>1, <1>2, <1>3 DEF BeginStep

LEMMA IdleStillSo == StillSo(Idle)
BY DEF StillSo, Closes, Pairs, Idle

\* One bracket, and the command that writes it, change.
LEMMA OverWrites ==
    ASSUME RowsInv, PairingsApart, OverInv, NEW t \in Tasks, Done(t),
           NEW k \in 1..Len(bracket), task[t].b = k,
           Closes(task[t]) \/ Pairs(task[t]), Len(bracket') = Len(bracket),
           \A b \in 1..Len(bracket) : b # k => bracket'[b] = bracket[b] /\ round'[b] = round[b],
           bracket'[k].state = "Finished" => AllRacesFinished(k)',
           Closes(task[t]) => round'[k] = round[k],
           Pairs(task[t]) /\ bracket'[k].state = "Finished" => bracket[k].state = "Finished"
    PROVE  OverInv'
<1>1. \A b \in 1..Len(bracket) : round'[b] = round[b] => (AllRacesFinished(b) => AllRacesFinished(b)')
  BY DEF AllRacesFinished, Open
<1>2. FinishedBracketIsOver'
  BY <1>1 DEF OverInv, FinishedBracketIsOver
<1>3. task'[t] = Idle /\ \A u \in Tasks : u # t => task'[u] = task[u]
  BY DEF Done, RowsInv, TypeOK
<1>4. ASSUME NEW u \in Tasks, u # t PROVE StillSo(task[u])'
  <2>1. task'[u] = task[u] /\ StillSo(task[u]) /\ CommandOk(task[u])
    BY <1>3, <1>4 DEF OverInv, RowsInv
  <2>2. PICK d : d = task[u]
    OBVIOUS
  <2>3. Closes(d) => AllRacesFinished(d.b)'
    <3>1. CASE Closes(d) /\ d.b = k
      <4>1. Closes(task[t])
        BY <2>2, <3>1 DEF PairingsApart
      <4>2. round'[k] = round[k]
        BY <4>1
      <4>3. QED
        BY <1>1, <2>1, <2>2, <3>1, <4>2 DEF StillSo
    <3>2. CASE Closes(d) /\ d.b # k
      <4>1. d.b \in 1..Len(bracket)
        BY <2>1, <2>2, <3>2 DEF CommandOk, Closes
      <4>2. QED
        BY <1>1, <2>1, <2>2, <3>2, <4>1 DEF StillSo
    <3>3. QED
      BY <3>1, <3>2
  <2>4. Pairs(d) /\ bracket'[d.b].state = "Finished" => d.state = "Finished"
    <3> SUFFICES ASSUME Pairs(d), bracket'[d.b].state = "Finished" PROVE d.state = "Finished"
      OBVIOUS
    <3>1. d.b \in 1..Len(bracket)
      BY <2>1, <2>2 DEF CommandOk, Pairs
    <3>2. CASE d.b = k
      <4>1. Pairs(task[t])
        BY <2>2, <3>2 DEF PairingsApart
      <4>2. bracket[k].state = "Finished"
        BY <3>2, <4>1
      <4>3. QED
        BY <2>1, <2>2, <3>2, <4>2 DEF StillSo
    <3>3. CASE d.b # k
      BY <2>1, <2>2, <3>1, <3>3 DEF StillSo
    <3>4. QED
      BY <3>2, <3>3
  <2>5. QED
    BY <2>1, <2>2, <2>3, <2>4 DEF StillSo
<1>5. StillSo(task[t])'
  BY <1>3 DEF StillSo, Closes, Pairs, Idle
<1>6. QED
  BY <1>2, <1>4, <1>5 DEF OverInv

LEMMA PairingsOver ==
    ASSUME RowsInv, PairingsApart, OverInv, NEW t \in Tasks, generate_pairings(t)
    PROVE  OverInv'
<1>1. CASE UNCHANGED <<round, bracket>>
  BY <1>1, OverSteps, IdleStillSo DEF generate_pairings, Done
<1>2. CASE ~ UNCHANGED <<round, bracket>>
  <2>1. PICK k, state : k = task[t].b /\ state = task[t].state
    OBVIOUS
  <2>2. PICK rs \in Pairings(k, state) : round' = [round EXCEPT ![k] = Append(@, [r \in rs |-> TRUE])]
    BY <1>2, <2>1 DEF generate_pairings
  <2>3. bracket' = IF state = "Unstarted" THEN [bracket EXCEPT ![k].state = "Started"] ELSE bracket
    BY <1>2, <2>1 DEF generate_pairings
  <2>4. k \in 1..Len(bracket) /\ UNCHANGED entry /\ Len(bracket') = Len(bracket)
    BY <2>1, PairingsStep
  <2>5. state \in {"Unstarted", "Started"}
    BY <2>2 DEF Pairings
  <2>6. Pairs(task[t]) /\ Done(t) /\ ~Closes(task[t])
    BY DEF generate_pairings, At, Pairs, Closes
  <2>7. bracket[k].state # "Finished"
    BY <2>1, <2>5, <2>6 DEF OverInv, StillSo
  <2>8. /\ bracket'[k].state # "Finished"
        /\ \A b \in 1..Len(bracket) : b # k => bracket'[b] = bracket[b]
    <3>1. CASE state = "Unstarted"
      BY <2>3, <2>4, <3>1, BracketChanges DEF BracketState
    <3>2. CASE state = "Started"
      BY <2>3, <2>7, <3>2
    <3>3. QED
      BY <2>5, <3>1, <3>2
  <2>9. \A b \in 1..Len(bracket) : b # k => round'[b] = round[b]
    BY <2>2, <2>4, RoundIsAdded, BoundsAssumption DEF RowsInv, TypeOK, BoundsAssumption
  <2>10. QED
    BY <2>1, <2>4, <2>6, <2>8, <2>9, OverWrites
<1>3. QED
  BY <1>1, <1>2

LEMMA UpdateOver ==
    ASSUME RowsInv, PairingsApart, OverInv, NEW t \in Tasks, BracketUpdate(t)
    PROVE  OverInv'
<1>1. PICK k : k = task[t].b
  OBVIOUS
<1>2. Closes(task[t]) /\ Done(t) /\ ~Pairs(task[t])
  BY DEF BracketUpdate, At, Closes, Pairs
<1>3. k \in 1..Len(bracket) /\ AllRacesFinished(k)
  BY <1>1, <1>2, BracketCommandTypes DEF Closes, OverInv, StillSo
<1>4. bracket' = [bracket EXCEPT ![k].state = "Finished"] /\ UNCHANGED round
  BY <1>1 DEF BracketUpdate
<1>5. /\ Len(bracket') = Len(bracket)
      /\ \A b \in 1..Len(bracket) : b # k => bracket'[b] = bracket[b]
  BY <1>3, <1>4, BracketChanges DEF BracketState
<1>6. AllRacesFinished(k)'
  BY <1>3, <1>4 DEF AllRacesFinished, Open
<1>7. QED
  BY <1>1, <1>2, <1>3, <1>4, <1>5, <1>6, OverWrites

LEMMA InsertBracketOver ==
    ASSUME RowsInv, OverInv, NEW t \in Tasks, InsertBracket(t)
    PROVE  OverInv'
<1>0. bracket \in Seq(BracketRow) /\ Len(bracket) \in Nat
  BY LenProperties DEF RowsInv, TypeOK
<1>1. PICK row : bracket' = Append(bracket, row) /\ row.state = "Unstarted"
  BY DEF InsertBracket
<1>2. UNCHANGED round /\ Done(t)
  BY DEF InsertBracket
<1>3. \A b \in 1..Len(bracket') : bracket'[b].state = "Finished" =>
          b \in 1..Len(bracket) /\ bracket[b].state = "Finished"
  BY <1>0, <1>1
<1>4. \A b : AllRacesFinished(b) => AllRacesFinished(b)'
  BY <1>2 DEF AllRacesFinished, Open
<1>5. FinishedBracketIsOver'
  BY <1>3, <1>4 DEF OverInv, FinishedBracketIsOver
<1>6. \A b \in 1..Len(bracket) : bracket'[b] = bracket[b]
  BY <1>0, <1>1
<1>7. task'[t] = Idle /\ \A u \in Tasks : u # t => task'[u] = task[u]
  BY <1>2 DEF Done, RowsInv, TypeOK
<1>8. ASSUME NEW u \in Tasks, u # t PROVE StillSo(task[u])'
  <2>1. task'[u] = task[u] /\ StillSo(task[u]) /\ CommandOk(task[u])
    BY <1>7, <1>8 DEF OverInv, RowsInv
  <2>2. PICK d : d = task[u]
    OBVIOUS
  <2>3. Closes(d) => AllRacesFinished(d.b)'
    BY <1>4, <2>1, <2>2 DEF StillSo
  <2>4. Pairs(d) /\ bracket'[d.b].state = "Finished" => d.state = "Finished"
    BY <1>6, <2>1, <2>2 DEF StillSo, CommandOk, Pairs
  <2>5. QED
    BY <2>1, <2>2, <2>3, <2>4 DEF StillSo
<1>9. StillSo(task[t])'
  BY <1>7 DEF StillSo, Closes, Pairs, Idle
<1>10. QED
  BY <1>5, <1>8, <1>9 DEF OverInv

LEMMA RaceFinishedOver ==
    ASSUME RowsInv, OverInv, RaceIsFinished
    PROVE  OverInv'
<1>0. \A b \in 1..Len(bracket) : b \in 1..MaxBrackets
  BY BoundsAssumption DEF RowsInv, TypeOK, BoundsAssumption
<1>1. UNCHANGED <<bracket, task>>
  BY DEF RaceIsFinished
<1>2. \A b \in 1..Len(bracket) : AllRacesFinished(b) => AllRacesFinished(b)'
  BY <1>0, RaceFinishedOpen DEF AllRacesFinished
<1>3. FinishedBracketIsOver'
  BY <1>1, <1>2 DEF OverInv, FinishedBracketIsOver
<1>4. ASSUME NEW u \in Tasks PROVE StillSo(task[u])'
  <2>1. task'[u] = task[u] /\ StillSo(task[u]) /\ CommandOk(task[u])
    BY <1>1 DEF OverInv, RowsInv
  <2>2. PICK d : d = task[u]
    OBVIOUS
  <2>3. Closes(d) => AllRacesFinished(d.b)'
    BY <1>2, <2>1, <2>2 DEF StillSo, CommandOk, Closes
  <2>4. QED
    BY <1>1, <2>1, <2>2, <2>3 DEF StillSo
<1>5. QED
  BY <1>3, <1>4 DEF OverInv

LEMMA NextStaysOver ==
    ASSUME RowsInv, PairingsApart, OverInv, [Next]_vars
    PROVE  OverInv'
<1>1. CASE UNCHANGED vars
  BY <1>1 DEF vars, OverInv, FinishedBracketIsOver, StillSo, Closes, Pairs, AllRacesFinished, Open
<1>2. ASSUME NEW t \in Tasks, BeginStep(t) PROVE OverInv'
  BY <1>2, BeginsRight, BeginsOver, OverSteps
<1>3. ASSUME NEW t \in Tasks, Done(t), UNCHANGED <<bracket, round>> PROVE OverInv'
  BY <1>3, OverSteps, IdleStillSo DEF Done
<1>4. ASSUME NEW t \in Tasks, SeasonCommand(t) PROVE OverInv'
  <2>1. CASE SeasonFinish(t)
    <3>1. PICK c : c = [task[t] EXCEPT !.pc = "save", !.finished = TRUE]
      OBVIOUS
    <3>2. task[t] \in TaskRecord /\ task[t].kind = "set_season_state"
      BY <2>1 DEF SeasonFinish, At, RowsInv, TypeOK
    <3>3. c.kind = "set_season_state"
      BY <3>1, <3>2 DEF TaskRecord
    <3>4. StillSo(c)
      BY <3>3 DEF StillSo, Closes, Pairs
    <3>5. task' = [task EXCEPT ![t] = c] \/ Done(t)
      BY <2>1, <3>1 DEF SeasonFinish, RowsInv, TypeOK
    <3>6. UNCHANGED <<bracket, round>>
      BY <2>1 DEF SeasonFinish
    <3>7. QED
      BY <1>3, <3>4, <3>5, <3>6, OverSteps
  <2>2. QED
    BY <1>2, <1>3, <1>4, <2>1 DEF SeasonCommand, BeginStep, InsertSeason, SeasonUpdate
<1>5. ASSUME NEW t \in Tasks, QualifierCommand(t) PROVE OverInv'
  BY <1>2, <1>3, <1>5 DEF QualifierCommand, BeginStep, InsertQualifier, QualifierDelete
<1>6. ASSUME NEW t \in Tasks, BracketCommand(t) PROVE OverInv'
  <2>1. CASE CreateBracket(t) \/ AddPlayer(t) \/ GeneratePairings(t) \/ FinishBracket(t)
    BY <1>2, <2>1 DEF BeginStep
  <2>2. CASE InsertEntry(t)
    BY <1>3, <2>2 DEF InsertEntry
  <2>3. CASE BracketFinish(t)
    <3>1. PICK c : c = [task[t] EXCEPT !.pc = "save"]
      OBVIOUS
    <3>2. task[t] \in TaskRecord /\ task[t].kind = "finish_bracket"
      BY <2>3 DEF BracketFinish, At, RowsInv, TypeOK
    <3>3. c.kind = "finish_bracket" /\ c.b = task[t].b
      BY <3>1, <3>2 DEF TaskRecord
    <3>4. AllRacesFinished(task[t].b) => StillSo(c)
      BY <3>3 DEF StillSo, Pairs
    <3>5. (AllRacesFinished(task[t].b) /\ task' = [task EXCEPT ![t] = c]) \/ Done(t)
      BY <2>3, <3>1 DEF BracketFinish, RowsInv, TypeOK
    <3>6. UNCHANGED <<bracket, round>>
      BY <2>3 DEF BracketFinish
    <3>7. QED
      BY <1>3, <3>4, <3>5, <3>6, OverSteps
  <2>4. QED
    BY <1>6, <2>1, <2>2, <2>3, InsertBracketOver, PairingsOver, UpdateOver DEF BracketCommand
<1>7. ASSUME NEW t \in Tasks, GiveUp(t) PROVE OverInv'
  BY <1>3, <1>7 DEF GiveUp
<1>8. QED
  BY <1>1, <1>4, <1>5, <1>6, <1>7, RaceFinishedOver DEF Next

\* Whatever commands overlap, closing ones too, a finished bracket has no open
\* race and gets no more of them, as long as no pairings of the same bracket
\* are generated between the check of its races and the save of
\* finish_bracket.
THEOREM FinishedBracketUnlessPaired == Spec /\ []PairingsApart => []FinishedBracketIsOver
<1>1. Init => OverInv
  BY IdleStillSo DEF Init, OverInv, FinishedBracketIsOver
<1>2. RowsInv /\ PairingsApart /\ OverInv /\ [Next]_vars => OverInv'
  BY NextStaysOver
<1>3. Init => RowsInv
  BY InitRows
<1>4. RowsInv /\ [Next]_vars => RowsInv'
  BY NextRows
<1>5. OverInv => FinishedBracketIsOver
  BY DEF OverInv
<1>6. QED
  BY <1>1, <1>2, <1>3, <1>4, <1>5, PTL DEF Spec

=============================================================================
