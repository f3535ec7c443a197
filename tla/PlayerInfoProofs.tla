-------------------------- MODULE PlayerInfoProofs --------------------------
(***************************************************************************)
(* A player's racetime name and id are of one account, for any number of   *)
(* people, handlers, accounts and connections.                             *)
(***************************************************************************)
EXTENDS PlayerInfo, FiniteSetTheorems, WellFoundedInduction, TLAPS

Pair(row) == row.racetime_username = row.racetime_user_id

\* Whatever a handler or the lookup program will write back is as good as
\* the row: a copy of a row that came with an id, or with neither, is a pair,
\* and the lookup program only has rows that came with a name and no id.
CopiesArePairs == \A h \in Handlers : cmd[h].user \notin bare => Pair(cmd[h].copy)
BatchIsBare == \A u \in Users : batch[u] # None => u \in bare

IInv == TypeOK /\ PairIsOfOneAccount /\ CopiesArePairs /\ BatchIsBare

\* A new row has the names it is given and no id; the row Discord gives a
\* newcomer has neither name nor id.
LEMMA NewPlayerType ==
  ASSUME NEW n \in Users, NEW a \in Accounts \cup {None},
         NEW t \in Twitches \cup {None}
  PROVE  /\ NewPlayer(n, a, t) \in Row
         /\ a = None => Pair(NewPlayer(n, a, t))
BY DEF NewPlayer, Row, Pair

LEMMA NoCommandType == NoCommand \in Command /\ Pair(NoCommand.copy)
<1>1. Anyone \in Users
  BY PlayersAssumption DEF PlayersAssumption, Anyone
<1>2. NewPlayer(Anyone, None, None) \in Row /\ Pair(NewPlayer(Anyone, None, None))
  BY <1>1, NewPlayerType
<1> QED BY <1>1, <1>2 DEF NoCommand, Command

\* Writing a copy over a row gives a row, and a pair over a pair a pair.
LEMMA WrittenType ==
  ASSUME NEW old \in Row, NEW copy \in Row
  PROVE  /\ Written(old, copy) \in Row
         /\ Pair(old) /\ Pair(copy) => Pair(Written(old, copy))
BY DEF Written, Kept, Row, Pair

-----------------------------------------------------------------------------
LEMMA InitIInv == Init => IInv
<1> SUFFICES ASSUME Init PROVE IInv
  OBVIOUS
<1>1. NoCommand \in Command /\ Pair(NoCommand.copy)
  BY NoCommandType
<1>2. TypeOK
  BY <1>1 DEF Init, TypeOK
<1>3. CopiesArePairs
  BY <1>1 DEF Init, CopiesArePairs
<1> QED BY <1>2, <1>3 DEF IInv, Init, PairIsOfOneAccount, BatchIsBare

\* A handler whose command changes, the table staying as it is: the new copy
\* is a pair if its row came with an id, or with neither.
LEMMA NewCommand ==
  ASSUME IInv, NEW h \in Handlers, NEW c \in Command,
         c.user \notin bare => Pair(c.copy),
         cmd' = [cmd EXCEPT ![h] = c], UNCHANGED <<rows, batch, bare>>
  PROVE  IInv'
<1>1. TypeOK'
  BY DEF IInv, TypeOK
<1>2. CopiesArePairs'
  BY DEF IInv, TypeOK, CopiesArePairs
<1> QED BY <1>1, <1>2 DEF IInv, PairIsOfOneAccount, BatchIsBare

\* A row that is written by the handler of its person, which then drops its
\* copy; the row stays a pair if it has to be one.
LEMMA RowWritten ==
  ASSUME IInv, NEW h \in Handlers, NEW u \in Users, NEW row \in Row,
         u \notin bare => Pair(row),
         rows' = [rows EXCEPT ![u] = row], UNCHANGED <<cmd, batch, bare>>
  PROVE  IInv'
<1>1. TypeOK'
  BY DEF IInv, TypeOK
<1>2. PairIsOfOneAccount'
  BY DEF IInv, TypeOK, PairIsOfOneAccount, Pair
<1> QED BY <1>1, <1>2 DEF IInv, CopiesArePairs, BatchIsBare

\* Starting a command gives the handler its arguments and no copy yet.
LEMMA BeginIInv ==
  ASSUME IInv, NEW h \in Handlers, NEW u \in Users,
         NEW n \in Users \cup {None}, NEW t \in Twitches \cup {None},
         NEW a \in Accounts \cup {None}, NEW p, Begin(h, u, n, t, a, p)
  PROVE  IInv'
<1> DEFINE c == [NoCommand EXCEPT !.user = u, !.nickname = n,
                                  !.twitch = t, !.racetime = a]
<1>1. NoCommand \in Command /\ Pair(NoCommand.copy)
  BY NoCommandType
<1>2. c \in Command /\ c.copy = NoCommand.copy
  BY <1>1 DEF Command
<1>3. cmd' = [cmd EXCEPT ![h] = c] /\ UNCHANGED <<rows, batch, bare>>
  BY DEF Begin
<1> QED BY <1>1, <1>2, <1>3, NewCommand

LEMMA CommandsIInv ==
  ASSUME IInv, NEW h \in Handlers,
         \/ handle_update_user_info(h) \/ handle_check_user_info(h)
         \/ handle_create_player(h) \/ StartProgram(h)
  PROVE  IInv'
<1>1. CASE handle_update_user_info(h)
  <2>1. PICK u \in Users, r \in Requests :
          Begin(h, u, r.nickname, r.twitch, r.racetime,
                UpdateProgram(r.twitch, r.racetime))
    BY <1>1 DEF handle_update_user_info
  <2>2. r \in Request
    BY PlayersAssumption DEF PlayersAssumption
  <2> QED BY <2>1, <2>2, BeginIInv DEF Request
<1>2. CASE handle_check_user_info(h)
  BY <1>2, BeginIInv DEF handle_check_user_info
<1>3. CASE handle_create_player(h)
  <2>1. PICK r \in Additions :
          Begin(h, r.user, r.nickname, r.twitch, r.racetime,
                Must(<<"take", "insert", "give">>))
    BY <1>3 DEF handle_create_player
  <2>2. r \in Addition
    BY PlayersAssumption DEF PlayersAssumption
  <2> QED BY <2>1, <2>2, BeginIInv DEF Addition
<1>4. CASE StartProgram(h)
  BY <1>4 DEF StartProgram, IInv, TypeOK, PairIsOfOneAccount, CopiesArePairs,
              BatchIsBare
<1> QED BY <1>1, <1>2, <1>3, <1>4

\* A command whose copy and flag change.
LEMMA CopyChanged ==
  ASSUME NEW cd \in Command, NEW copy \in Row, NEW b \in BOOLEAN
  PROVE  LET c == [cd EXCEPT !.copy = copy, !.save = b]
         IN c \in Command /\ c.user = cd.user /\ c.copy = copy
BY DEF Command

\* The copy is the row itself, or the new row, with the new name.
LEMMA ReadIInv ==
  ASSUME IInv, NEW h \in Handlers, get_or_create_from_discord_user(h)
  PROVE  IInv'
<1> DEFINE u == cmd[h].user
           row == IF rows[u] # None THEN rows[u] ELSE NewPlayer(u, None, None)
           nick == cmd[h].nickname
           copy == [row EXCEPT !.name = Kept(@, nick)]
           c == [cmd[h] EXCEPT !.copy = copy, !.save = nick # None]
<1>1. u \in Users /\ nick \in Users \cup {None} /\ cmd[h] \in Command
  BY DEF IInv, TypeOK, Command
<1>2. row \in Row /\ (u \notin bare => Pair(row))
  <2>1. CASE rows[u] # None
    BY <1>1, <2>1 DEF IInv, TypeOK, PairIsOfOneAccount, Pair
  <2>2. CASE rows[u] = None
    BY <1>1, <2>2, NewPlayerType
  <2> QED BY <2>1, <2>2
<1>3. copy \in Row /\ (Pair(row) => Pair(copy))
  <2> HIDE DEF row, nick, u
  <2> QED BY <1>1, <1>2 DEF Row, Kept, Pair
<1>4. c \in Command /\ c.user = u /\ c.copy = copy
  <2>1. copy \in Row /\ (nick # None) \in BOOLEAN
    BY <1>2, <1>3
  <2> HIDE DEF copy, nick
  <2> QED BY <1>1, <2>1, CopyChanged
<1>5. CASE /\ rows' = [rows EXCEPT ![u] = row]
           /\ cmd' = [cmd EXCEPT ![h] = c]
           /\ UNCHANGED <<batch, bare>>
  <2> HIDE DEF row, c, copy, nick
  <2>1. TypeOK'
    BY <1>1, <1>2, <1>4, <1>5 DEF IInv, TypeOK
  <2>2. PairIsOfOneAccount'
    BY <1>1, <1>2, <1>5 DEF IInv, TypeOK, PairIsOfOneAccount, Pair
  <2>3. CopiesArePairs'
    BY <1>1, <1>2, <1>3, <1>4, <1>5 DEF IInv, TypeOK, CopiesArePairs
  <2> QED BY <1>5, <2>1, <2>2, <2>3 DEF IInv, BatchIsBare
<1>6. CASE UNCHANGED <<rows, cmd, batch, bare>>
  BY <1>6 DEF IInv, TypeOK, PairIsOfOneAccount, CopiesArePairs, BatchIsBare
<1>7. [cmd EXCEPT ![h].copy = copy, ![h].save = nick # None] = [cmd EXCEPT ![h] = c]
  <2> HIDE DEF copy, nick
  <2> QED BY <1>1 DEF IInv, TypeOK, Command
<1>8. \/ rows' = [rows EXCEPT ![u] = row] /\ UNCHANGED <<batch, bare>>
        /\ cmd' = [cmd EXCEPT ![h].copy = copy, ![h].save = nick # None]
      \/ UNCHANGED <<rows, cmd, batch, bare>>
  BY DEF get_or_create_from_discord_user
<1> QED BY <1>5, <1>6, <1>7, <1>8

\* The row's new Twitch name, or a new name and id of one account.
LEMMA ValidateIInv ==
  ASSUME IInv, NEW h \in Handlers,
         validate_twitch_username(h) \/ validate_racetime_username(h)
  PROVE  IInv'
<1> DEFINE a == cmd[h].racetime
           login == [cmd[h] EXCEPT !.copy.twitch_user_login = cmd[h].twitch,
                                   !.save = TRUE]
           found == [cmd[h] EXCEPT !.copy.racetime_username = a,
                                   !.copy.racetime_user_id = a,
                                   !.save = TRUE, !.told = TRUE]
<1>1. cmd[h] \in Command /\ (cmd[h].user \notin bare => Pair(cmd[h].copy))
  BY DEF IInv, TypeOK, CopiesArePairs
<1>2. /\ login \in Command /\ login.user = cmd[h].user
      /\ Pair(cmd[h].copy) => Pair(login.copy)
  BY <1>1 DEF Command, Row, Pair
<1>3. a \in Accounts \cup {None} /\ found \in Command /\ Pair(found.copy)
  BY <1>1 DEF Command, Row, Pair
<1>4. CASE validate_twitch_username(h)
  <2>1. \/ cmd' = [cmd EXCEPT ![h].copy.twitch_user_login = cmd[h].twitch,
                             ![h].save = TRUE]
        \/ cmd' = cmd
    BY <1>4 DEF validate_twitch_username
  <2>2. [cmd EXCEPT ![h].copy.twitch_user_login = cmd[h].twitch,
                    ![h].save = TRUE] = [cmd EXCEPT ![h] = login]
    BY <1>1 DEF IInv, TypeOK, Command, Row
  <2>3. UNCHANGED <<rows, batch, bare>>
    BY <1>4 DEF validate_twitch_username
  <2>4. CASE cmd' = [cmd EXCEPT ![h] = login]
    <3> HIDE DEF login
    <3> QED BY <1>1, <1>2, <2>3, <2>4, NewCommand
  <2>5. CASE cmd' = cmd
    BY <2>3, <2>5 DEF IInv, TypeOK, PairIsOfOneAccount, CopiesArePairs, BatchIsBare
  <2> QED BY <2>1, <2>2, <2>4, <2>5
<1>5. CASE validate_racetime_username(h)
  <2>1. \/ cmd' = [cmd EXCEPT ![h].copy.racetime_username = a,
                             ![h].copy.racetime_user_id = a,
                             ![h].save = TRUE, ![h].told = TRUE]
        \/ cmd' = cmd
    BY <1>5 DEF validate_racetime_username
  <2>2. [cmd EXCEPT ![h].copy.racetime_username = a,
                    ![h].copy.racetime_user_id = a,
                    ![h].save = TRUE, ![h].told = TRUE] = [cmd EXCEPT ![h] = found]
    BY <1>1 DEF IInv, TypeOK, Command, Row
  <2>3. UNCHANGED <<rows, batch, bare>>
    BY <1>5 DEF validate_racetime_username
  <2>4. CASE cmd' = [cmd EXCEPT ![h] = found]
    <3> HIDE DEF found
    <3> QED BY <1>3, <2>3, <2>4, NewCommand
  <2>5. CASE cmd' = cmd
    BY <2>3, <2>5 DEF IInv, TypeOK, PairIsOfOneAccount, CopiesArePairs, BatchIsBare
  <2> QED BY <2>1, <2>2, <2>4, <2>5
<1> QED BY <1>4, <1>5

\* The end of a command, after the row is written or not.
LEMMA DropIInv ==
  ASSUME IInv, NEW h \in Handlers, Drop(h), NEW u \in Users, NEW row \in Row,
         rows' = [rows EXCEPT ![u] = row] \/ rows' = rows,
         batch' = batch, bare' = bare \/ bare' = bare \cup {u},
         u \notin bare' => Pair(row)
  PROVE  IInv'
<1>1. NoCommand \in Command /\ Pair(NoCommand.copy)
  BY NoCommandType
<1>2. TypeOK'
  BY <1>1 DEF Drop, IInv, TypeOK
<1>3. PairIsOfOneAccount'
  BY DEF IInv, TypeOK, PairIsOfOneAccount, Pair
<1>4. CopiesArePairs'
  BY <1>1 DEF Drop, IInv, TypeOK, CopiesArePairs
<1>5. BatchIsBare'
  BY DEF IInv, BatchIsBare
<1> QED BY <1>2, <1>3, <1>4, <1>5 DEF IInv

\* The end of a command that does not write.
LEMMA DropUnwritten ==
  ASSUME IInv, NEW h \in Handlers, Drop(h), UNCHANGED <<rows, batch, bare>>
  PROVE  IInv'
BY NoCommandType, NewCommand DEF Drop

\* An update writes its copy over the row as it is now.
LEMMA SaveIInv ==
  ASSUME IInv, NEW h \in Handlers, Save(h)
  PROVE  IInv'
<1> DEFINE u == cmd[h].user
           row == Written(rows[u], cmd[h].copy)
<1>1. u \in Users /\ cmd[h].copy \in Row
  BY DEF IInv, TypeOK, Command
<1>2. Drop(h) /\ batch' = batch /\ bare' = bare
  BY DEF Save
<1>3. CASE rows' = [rows EXCEPT ![u] = row] /\ rows[u] # None
  <2>1. rows[u] \in Row
    BY <1>1, <1>3 DEF IInv, TypeOK
  <2>2. row \in Row /\ (u \notin bare => Pair(row))
    BY <1>1, <1>3, <2>1, WrittenType
       DEF IInv, PairIsOfOneAccount, CopiesArePairs, Pair
  <2> HIDE DEF u, row
  <2> QED BY <1>1, <1>2, <1>3, <2>2, DropIInv
<1>4. CASE rows' = rows
  BY <1>1, <1>2, <1>4, DropUnwritten
<1> QED BY <1>3, <1>4 DEF Save, update, CanUpdate

\* A new row comes with a name and no id: its person counts as bare.
LEMMA InsertIInv ==
  ASSUME IInv, NEW h \in Handlers, Insert(h)
  PROVE  IInv'
<1> DEFINE u == cmd[h].user
           row == NewPlayer(Kept(u, cmd[h].nickname), cmd[h].racetime, cmd[h].twitch)
<1>1. Drop(h) /\ batch' = batch /\ u \in Users /\ cmd[h] \in Command
  BY DEF Insert, IInv, TypeOK, Command
<1>2. CASE rows' = [rows EXCEPT ![u] = row] /\ bare' = bare \cup {u}
  <2>1. row \in Row
    BY <1>1, <1>2, NewPlayerType DEF Command, Kept
  <2> HIDE DEF u, row
  <2> QED BY <1>1, <1>2, <2>1, DropIInv
<1>3. CASE UNCHANGED <<rows, bare>>
  BY <1>1, <1>3, DropUnwritten
<1> QED BY <1>2, <1>3 DEF Insert

\* The lookup program only has, and only writes, rows of bare players: a row
\* with a name and no id is not a pair.
LEMMA BatchIInv ==
  ASSUME IInv, LoadPlayers \/ \E u \in Users : SetId(u)
  PROVE  IInv'
<1>1. CASE LoadPlayers
  <2>1. UNCHANGED <<rows, cmd, bare>>
    BY <1>1 DEF LoadPlayers
  <2>2. batch' = [u \in Users |-> IF NeedsId(rows[u]) THEN rows[u] ELSE None]
    BY <1>1 DEF LoadPlayers
  <2>3. TypeOK'
    BY <2>1, <2>2 DEF IInv, TypeOK
  <2>4. BatchIsBare'
    BY <2>1, <2>2 DEF IInv, BatchIsBare, NeedsId, PairIsOfOneAccount
  <2> QED BY <2>1, <2>3, <2>4 DEF IInv, PairIsOfOneAccount, CopiesArePairs
<1>2. ASSUME NEW u \in Users, SetId(u) PROVE IInv'
  <2> DEFINE found == [batch[u] EXCEPT !.racetime_user_id =
                                         batch[u].racetime_username]
             row == Written(rows[u], found)
  <2>1. batch[u] \in Row /\ u \in bare /\ UNCHANGED <<cmd, bare>>
    BY <1>2 DEF SetId, IInv, TypeOK, BatchIsBare
  <2>2. \/ batch' = [batch EXCEPT ![u] = None]
        \/ batch' = [v \in Users |-> None]
    BY <1>2 DEF SetId
  <2>3. found \in Row
    BY <2>1 DEF Row
  <2>4. rows' = rows \/ (rows' = [rows EXCEPT ![u] = row] /\ row \in Row)
    <3>1. CASE rows' = rows
      BY <3>1
    <3>2. CASE CanUpdate(u, found) /\ update(u, found)
      <4>1. rows[u] \in Row
        BY <3>2 DEF CanUpdate, IInv, TypeOK
      <4>2. row \in Row
        <5> HIDE DEF found
        <5> QED BY <2>3, <4>1, WrittenType
      <4>3. rows' = [rows EXCEPT ![u] = row]
        BY <3>2 DEF update
      <4> QED BY <4>2, <4>3
    <3> QED BY <1>2, <3>1, <3>2 DEF SetId
  <2> HIDE DEF row
  <2>5. TypeOK'
    BY <2>1, <2>2, <2>4 DEF IInv, TypeOK
  <2>6. PairIsOfOneAccount'
    BY <2>1, <2>4 DEF IInv, TypeOK, PairIsOfOneAccount
  <2>7. BatchIsBare'
    BY <2>1, <2>2 DEF IInv, TypeOK, BatchIsBare
  <2> QED BY <2>1, <2>5, <2>6, <2>7 DEF IInv, CopiesArePairs
<1> QED BY <1>1, <1>2

LEMMA NextIInv == IInv /\ [Next]_vars => IInv'
<1> SUFFICES ASSUME IInv, [Next]_vars PROVE IInv'
  OBVIOUS
<1>1. ASSUME UNCHANGED pvars PROVE IInv'
  BY <1>1 DEF pvars, IInv, TypeOK, PairIsOfOneAccount, CopiesArePairs, BatchIsBare
<1>2. ASSUME NEW h \in Handlers, Go(h) PROVE IInv'
  BY <1>1, <1>2, ReadIInv, ValidateIInv, SaveIInv, InsertIInv DEF Go
<1> QED BY <1>1, <1>2, CommandsIInv, BatchIInv DEF Next, vars

\* The rows, the copies and the list of the lookup program have their types.
THEOREM Typing == Spec => []TypeOK
<1>1. IInv => TypeOK
  BY DEF IInv
<1> QED BY InitIInv, NextIInv, <1>1, PTL DEF Spec

\* The racetime name and id of every player are of one account, except for
\* rows that were added with a name and no id.
THEOREM PairsRight == Spec => []PairIsOfOneAccount
<1>1. IInv => PairIsOfOneAccount
  BY DEF IInv
<1> QED BY InitIInv, NextIInv, <1>1, PTL DEF Spec

\* A table that is as it was, or has one more row, or one row written over.
LEMMA TableKept ==
  ASSUME TypeOK, NEW u \in Users, NEW row \in Row,
         \/ rows' = rows
         \/ /\ rows' = [rows EXCEPT ![u] = row]
            /\ \/ rows[u] = None \/ row = rows[u]
               \/ \E copy \in Row : rows[u] # None /\ row = Written(rows[u], copy)
  PROVE  \A v \in Users : rows[v] # None =>
           /\ rows'[v] # None
           /\ \A c \in {"twitch_user_login", "racetime_username",
                        "racetime_user_id"} :
                rows[v][c] # None => rows'[v][c] # None
<1> SUFFICES ASSUME NEW v \in Users, rows[v] # None
             PROVE  /\ rows'[v] # None
                    /\ \A c \in {"twitch_user_login", "racetime_username",
                                 "racetime_user_id"} :
                         rows[v][c] # None => rows'[v][c] # None
  OBVIOUS
<1>1. CASE rows'[v] = rows[v]
  BY <1>1
<1>2. CASE \E copy \in Row : rows'[v] = Written(rows[v], copy)
  <2>1. PICK copy \in Row : rows'[v] = Written(rows[v], copy)
    BY <1>2
  <2>2. rows[v] \in Row
    BY DEF TypeOK
  <2>3. rows'[v] # None
    BY <2>1, <2>2, WrittenType, PlayersAssumption DEF PlayersAssumption
  <2> QED BY <2>1, <2>2, <2>3 DEF Written, Kept
<1> QED BY <1>1, <1>2 DEF TypeOK

\* No step empties a column, or removes a row.
LEMMA NextKeeps ==
  ASSUME IInv, [Next]_vars
  PROVE  \A v \in Users : rows[v] # None =>
           /\ rows'[v] # None
           /\ \A c \in {"twitch_user_login", "racetime_username",
                        "racetime_user_id"} :
                rows[v][c] # None => rows'[v][c] # None
<1>1. CASE rows' = rows
  BY <1>1
<1>2. ASSUME NEW h \in Handlers, get_or_create_from_discord_user(h), rows' # rows
      PROVE  \E u \in Users, row \in Row :
               rows' = [rows EXCEPT ![u] = row] /\ (rows[u] = None \/ row = rows[u])
  <2> DEFINE u == cmd[h].user
             row == IF rows[u] # None THEN rows[u] ELSE NewPlayer(u, None, None)
  <2>1. u \in Users
    BY DEF IInv, TypeOK, Command
  <2>2. row \in Row
    BY <2>1, NewPlayerType DEF IInv, TypeOK
  <2>3. rows' = [rows EXCEPT ![u] = row]
    BY <1>2 DEF get_or_create_from_discord_user
  <2>4. rows[u] = None \/ row = rows[u]
    OBVIOUS
  <2> HIDE DEF u, row
  <2> QED BY <2>1, <2>2, <2>3, <2>4
<1>3. ASSUME NEW h \in Handlers, Insert(h), rows' # rows
      PROVE  \E u \in Users, row \in Row :
               rows' = [rows EXCEPT ![u] = row] /\ (rows[u] = None \/ row = rows[u])
  <2> DEFINE u == cmd[h].user
             row == NewPlayer(Kept(u, cmd[h].nickname), cmd[h].racetime,
                              cmd[h].twitch)
  <2>1. u \in Users /\ cmd[h] \in Command
    BY DEF IInv, TypeOK, Command
  <2>2. row \in Row
    BY <2>1, NewPlayerType DEF Command, Kept
  <2>3. rows' = [rows EXCEPT ![u] = row] /\ rows[u] = None
    BY <1>3 DEF Insert
  <2> HIDE DEF u, row
  <2> QED BY <2>1, <2>2, <2>3
<1>4. ASSUME NEW u \in Users, NEW copy \in Row, CanUpdate(u, copy), update(u, copy)
      PROVE  \A v \in Users : rows[v] # None =>
               /\ rows'[v] # None
               /\ \A c \in {"twitch_user_login", "racetime_username",
                            "racetime_user_id"} :
                    rows[v][c] # None => rows'[v][c] # None
  <2>1. rows[u] # None /\ rows[u] \in Row
    BY <1>4 DEF CanUpdate, IInv, TypeOK
  <2>2. Written(rows[u], copy) \in Row
    BY <2>1, WrittenType
  <2>3. rows' = [rows EXCEPT ![u] = Written(rows[u], copy)]
    BY <1>4 DEF update
  <2> QED BY <2>1, <2>2, <2>3, TableKept DEF IInv
<1>5. ASSUME NEW h \in Handlers, Save(h), rows' # rows
      PROVE  \E u \in Users, copy \in Row : CanUpdate(u, copy) /\ update(u, copy)
  BY <1>5 DEF Save, IInv, TypeOK, Command
<1>6. ASSUME NEW u \in Users, SetId(u), rows' # rows
      PROVE  \E copy \in Row : CanUpdate(u, copy) /\ update(u, copy)
  <2> DEFINE found == [batch[u] EXCEPT !.racetime_user_id =
                                         batch[u].racetime_username]
  <2>1. batch[u] \in Row
    BY <1>6 DEF SetId, IInv, TypeOK
  <2>2. found \in Row
    BY <2>1 DEF Row
  <2>3. CanUpdate(u, found) /\ update(u, found)
    BY <1>6 DEF SetId
  <2> HIDE DEF found
  <2> QED BY <2>2, <2>3
<1>7. ASSUME NEW h \in Handlers, Go(h), rows' # rows
      PROVE  \/ get_or_create_from_discord_user(h) \/ Save(h) \/ Insert(h)
  BY <1>7 DEF Go, pvars, validate_twitch_username, validate_racetime_username
<1>8. ASSUME [Next]_vars, rows' # rows
      PROVE  (\E h \in Handlers : Go(h)) \/ (\E u \in Users : SetId(u))
  BY <1>8 DEF Next, vars, pvars, LoadPlayers, StartProgram, Begin,
              handle_update_user_info, handle_check_user_info, handle_create_player
<1>9. CASE rows' # rows
  <2>1. CASE \E u \in Users : SetId(u)
    BY <1>4, <1>6, <1>9, <2>1
  <2>2. ASSUME NEW h \in Handlers, Go(h)
        PROVE  \/ \E u \in Users, row \in Row :
                    /\ rows' = [rows EXCEPT ![u] = row]
                    /\ rows[u] = None \/ row = rows[u]
               \/ \E u \in Users, copy \in Row : CanUpdate(u, copy) /\ update(u, copy)
    BY <1>2, <1>3, <1>5, <1>7, <1>9, <2>2
  <2>3. TypeOK
    BY DEF IInv
  <2> QED BY <1>4, <1>8, <1>9, <2>1, <2>2, <2>3, TableKept
<1> QED BY <1>1, <1>9

\* No column of a player is emptied, and no player removed.
THEOREM NothingForgotten == Spec => NothingIsForgotten
<1>1. IInv /\ [Next]_vars =>
        [\A u \in Users : rows[u] # None =>
           /\ rows'[u] # None
           /\ \A c \in {"twitch_user_login", "racetime_username",
                        "racetime_user_id"} :
                rows[u][c] # None => rows'[u][c] # None]_vars
  BY NextKeeps
<1> QED BY InitIInv, NextIInv, <1>1, PTL DEF Spec, NothingIsForgotten
-----------------------------------------------------------------------------
(* What a handler has yet to do.                                            *)

Forgets == {"read", "twitch"}
Ends == {"save", "insert"}

\* Nothing changes the Twitch name of the copy once racetime was asked, and
\* racetime is not asked once the copy was dropped.
NamesOrdered(names) ==
  \A i, j \in DOMAIN names : i < j =>
    /\ names[i] = "racetime" => names[j] \notin Forgets
    /\ names[i] \in Ends => names[j] # "racetime"

Ordered(ops) ==
  \A i, j \in DOMAIN ops : i < j =>
    /\ ops[i].do = "racetime" => ops[j].do \notin Forgets
    /\ ops[i].do \in Ends => ops[j].do # "racetime"

Does(ops, what) == \E i \in DOMAIN ops : ops[i].do = what

\* Handlers of the pool have nothing to do with the copy.
Plain(ops) ==
  /\ ops \in Seq(Operation)
  /\ \A i \in DOMAIN ops : ops[i].do \notin Forgets \cup {"racetime"}

OrderInv ==
  /\ todo \in [Handlers -> Seq(Operation)]
  /\ \A h \in Handlers :
       /\ Ordered(todo[h])
       /\ Does(todo[h], "racetime") => cmd[h].racetime # None

\* Who has been told has a copy to save, with an account that fits the copy's
\* Twitch name, and nothing left to do that changes that name.
AccountInv ==
  \A h \in Handlers : cmd[h].told =>
    /\ cmd[h].save
    /\ cmd[h].copy.racetime_user_id \in Accounts
    /\ Fits(cmd[h].copy.racetime_user_id, cmd[h].copy.twitch_user_login)
    /\ \A what \in Forgets : ~Does(todo[h], what)

ToldInv == IInv /\ OrderInv /\ AccountInv

Names == {"take", "give", "work", "read", "twitch", "racetime", "save", "insert"}

LEMMA MustType ==
  ASSUME NEW ops \in Seq(Names)
  PROVE  /\ Must(ops) \in Seq(Operation)
         /\ Len(Must(ops)) = Len(ops)
         /\ \A i \in 1 .. Len(ops) : Must(ops)[i].do = ops[i]
<1>1. DOMAIN ops = 1 .. Len(ops) /\ Len(ops) \in Nat
  OBVIOUS
<1>2. \A i \in 1 .. Len(ops) :
        [do |-> ops[i], skips |-> All] \in Operation
  BY DEF Names, Operation, All
<1>3. Must(ops) = [i \in 1 .. Len(ops) |-> [do |-> ops[i], skips |-> All]]
  BY <1>1 DEF Must
<1> QED BY <1>1, <1>2, <1>3

LEMMA LoggedType ==
  ASSUME NEW ops \in Seq(Names), Len(ops) <= All
  PROVE  /\ Logged(ops) \in Seq(Operation)
         /\ Len(Logged(ops)) = Len(ops)
         /\ \A i \in 1 .. Len(ops) : Logged(ops)[i].do = ops[i]
<1>1. DOMAIN ops = 1 .. Len(ops) /\ Len(ops) \in Nat
  OBVIOUS
<1>2. \A i \in 1 .. Len(ops) :
        [do |-> ops[i], skips |-> Len(ops) - i] \in Operation
  <2>1. \A i \in 1 .. Len(ops) : Len(ops) - i \in 0 .. All
    <3>1. \A n, m \in Nat : n <= m => \A i \in 1 .. n : n - i \in 0 .. m
      OBVIOUS
    <3>2. All \in Nat
      BY DEF All
    <3> QED BY <1>1, <3>1, <3>2
  <2>2. \A i \in 1 .. Len(ops) : ops[i] \in Names
    OBVIOUS
  <2> QED BY <2>1, <2>2 DEF Names, Operation
<1> DEFINE op(i) == [do |-> ops[i], skips |-> Len(ops) - i]
<1>3. Logged(ops) = [i \in 1 .. Len(ops) |-> op(i)]
  BY <1>1 DEF Logged
<1>4. \A i \in 1 .. Len(ops) : op(i) \in Operation /\ op(i).do = ops[i]
  BY <1>2
<1> HIDE DEF op
<1> QED BY <1>1, <1>3, <1>4

Quiet == {"take", "give", "work"}

LEMMA QuietIsPlain ==
  ASSUME NEW ops \in Seq(Quiet)
  PROVE  /\ Plain(Must(ops))
         /\ Len(ops) <= All => Plain(Logged(ops))
<1>1. ops \in Seq(Names) /\ \A i \in 1 .. Len(ops) : ops[i] \in Quiet
  BY DEF Quiet, Names
<1> QED BY <1>1, MustType, LoggedType DEF Plain, Quiet, Forgets

LEMMA PlainJoins ==
  ASSUME NEW s, NEW t, Plain(s), Plain(t)
  PROVE  Plain(s \o t)
BY DEF Plain

LEMMA ProgramsArePlain == \A p \in Programs : Plain(p)
<1>1. /\ <<"take", "work", "give">> \in Seq(Quiet)
      /\ <<"take", "take">> \in Seq(Quiet)
      /\ <<"work">> \in Seq(Quiet) /\ <<"take">> \in Seq(Quiet)
      /\ <<"give">> \in Seq(Quiet) /\ <<"give", "give">> \in Seq(Quiet)
      /\ <<"take", "give">> \in Seq(Quiet) /\ <<"take", "work">> \in Seq(Quiet)
      /\ <<"work", "take", "give">> \in Seq(Quiet)
  BY DEF Quiet
<1>2. <<"take", "take", "take", "work", "give", "give", "give">> \in Seq(Quiet)
  BY DEF Quiet
<1>3. /\ Len(<<"take", "work", "give">>) <= All
      /\ Len(<<"work">>) <= All
      /\ Len(<<"take", "give">>) <= All
      /\ Len(<<"work", "take", "give">>) <= All
  BY DEF All
<1>4. /\ Plain(Must(<<"take", "work", "give">>))
      /\ Plain(Must(<<"take", "take">>)) /\ Plain(Must(<<"take">>))
      /\ Plain(Must(<<"give">>)) /\ Plain(Must(<<"give", "give">>))
      /\ Plain(Must(<<"take", "work">>))
      /\ Plain(Must(<<"take", "take", "take", "work", "give", "give", "give">>))
  BY <1>1, <1>2, QuietIsPlain
<1>5. /\ Plain(Logged(<<"work">>))
      /\ Plain(Logged(<<"take", "work", "give">>))
      /\ Plain(Logged(<<"take", "give">>))
      /\ Plain(Logged(<<"work", "take", "give">>))
  BY <1>1, <1>3, QuietIsPlain
<1>6. Plain(Page) /\ Plain(Signup)
  BY <1>4 DEF Page, Signup
<1>7. Plain(Schedule)
  <2>1. Plain(Must(<<"take", "take">>) \o Logged(<<"work">>))
    BY <1>4, <1>5, PlainJoins
  <2>2. Plain(Must(<<"take", "take">>) \o Logged(<<"work">>)
                \o Logged(<<"take", "work", "give">>))
    BY <2>1, <1>5, PlainJoins
  <2> QED BY <2>2, <1>4, PlainJoins DEF Schedule
<1>8. Plain(Confirmation)
  <2>1. Plain(Must(<<"take", "take">>) \o Logged(<<"take", "give">>))
    BY <1>4, <1>5, PlainJoins
  <2>2. Plain(Must(<<"take", "take">>) \o Logged(<<"take", "give">>)
                \o Logged(<<"take", "give">>))
    BY <2>1, <1>5, PlainJoins
  <2>3. Plain(Must(<<"take", "take">>) \o Logged(<<"take", "give">>)
                \o Logged(<<"take", "give">>) \o Logged(<<"work">>))
    BY <2>2, <1>5, PlainJoins
  <2> QED BY <2>3, <1>4, PlainJoins DEF Confirmation
<1>9. Plain(Sweep)
  <2>1. Plain(Must(<<"take">>) \o Logged(<<"work", "take", "give">>))
    BY <1>4, <1>5, PlainJoins
  <2>2. Plain(Must(<<"take">>) \o Logged(<<"work", "take", "give">>)
                \o Logged(<<"work", "take", "give">>))
    BY <2>1, <1>5, PlainJoins
  <2> QED BY <2>2, <1>4, PlainJoins DEF Sweep
<1>10. Plain(Scan)
  <2>1. Plain(Must(<<"take", "work">>) \o Logged(<<"take", "work", "give">>))
    BY <1>4, <1>5, PlainJoins
  <2>2. Plain(Must(<<"take", "work">>) \o Logged(<<"take", "work", "give">>)
                \o Logged(<<"take", "work", "give">>))
    BY <2>1, <1>5, PlainJoins
  <2> QED BY <2>2, <1>4, PlainJoins DEF Scan
<1> QED BY <1>6, <1>7, <1>8, <1>9, <1>10 DEF Programs

\* An update reads first, then asks Twitch, then racetime, and only about the
\* names it was given.
LEMMA OrderJoins ==
  ASSUME NEW s \in Seq(Names), NEW t \in Seq(Names),
         NamesOrdered(s), NamesOrdered(t),
         \A i \in 1 .. Len(t) : t[i] \notin Forgets,
         \A i \in 1 .. Len(s), j \in 1 .. Len(t) :
           s[i] \in Ends => t[j] # "racetime"
  PROVE  s \o t \in Seq(Names) /\ NamesOrdered(s \o t)
<1>1. s \o t \in Seq(Names)
  OBVIOUS
<1>2. /\ Len(s) \in Nat /\ Len(t) \in Nat /\ Len(s \o t) = Len(s) + Len(t)
      /\ \A i \in 1 .. Len(s) : (s \o t)[i] = s[i]
      /\ \A i \in Len(s) + 1 .. Len(s) + Len(t) :
           i - Len(s) \in 1 .. Len(t) /\ (s \o t)[i] = t[i - Len(s)]
  OBVIOUS
<1> DEFINE st == s \o t
<1> HIDE DEF st
<1>3. /\ Len(s) \in Nat /\ Len(t) \in Nat /\ Len(st) = Len(s) + Len(t)
      /\ \A i \in 1 .. Len(s) : st[i] = s[i]
      /\ \A i \in Len(s) + 1 .. Len(s) + Len(t) :
           i - Len(s) \in 1 .. Len(t) /\ st[i] = t[i - Len(s)]
  BY <1>2 DEF st
<1>4. /\ DOMAIN st = 1 .. Len(s) + Len(t)
      /\ DOMAIN s = 1 .. Len(s) /\ DOMAIN t = 1 .. Len(t)
  BY <1>1, <1>3 DEF st
<1>5. ASSUME NEW i \in DOMAIN st, NEW j \in DOMAIN st, i < j
      PROVE  /\ st[i] = "racetime" => st[j] \notin Forgets
             /\ st[i] \in Ends => st[j] # "racetime"
  <2>1. CASE j \in 1 .. Len(s)
    <3>1. i \in 1 .. Len(s)
      BY <1>3, <1>4, <1>5, <2>1
    <3> QED BY <1>3, <1>4, <1>5, <2>1, <3>1 DEF NamesOrdered
  <2>2. CASE j \in Len(s) + 1 .. Len(s) + Len(t)
    <3>1. CASE i \in 1 .. Len(s)
      BY <1>3, <2>2, <3>1
    <3>2. CASE i \in Len(s) + 1 .. Len(s) + Len(t)
      <4>1. i - Len(s) < j - Len(s)
        BY <1>3, <1>5, <2>2, <3>2
      <4> QED BY <1>3, <1>4, <2>2, <3>2, <4>1 DEF NamesOrdered
    <3> QED BY <1>3, <1>4, <3>1, <3>2
  <2> QED BY <1>3, <1>4, <2>1, <2>2
<1>6. NamesOrdered(st)
  BY <1>5 DEF NamesOrdered
<1> QED BY <1>1, <1>6 DEF st

LEMMA UpdateIsOrdered ==
  ASSUME NEW t \in Twitches \cup {None}, NEW a \in Accounts \cup {None}
  PROVE  /\ UpdateProgram(t, a) \in Seq(Operation)
         /\ Ordered(UpdateProgram(t, a))
         /\ Does(UpdateProgram(t, a), "racetime") => a # None
<1> DEFINE start == <<"take", "read">>
           asked == IF t = None THEN << >> ELSE <<"twitch">>
           found == IF a = None THEN << >> ELSE <<"racetime">>
           end == <<"save", "give">>
           Other == Names \ {"racetime"}
           Early == Other \ Ends
           s1 == start \o asked
           s2 == s1 \o found
           ops == s2 \o end
<1>1. UpdateProgram(t, a) = Must(ops)
  BY DEF UpdateProgram
<1>2. start \in Seq(Early) /\ end \in Seq(Other \ Forgets)
  BY DEF Names, Forgets, Ends
<1>3. asked \in Seq(Early)
  <2>1. << >> \in Seq(Early) /\ <<"twitch">> \in Seq(Early)
    BY DEF Names, Ends
  <2> HIDE DEF Early
  <2> QED BY <2>1
<1>4. found \in Seq({"racetime"}) /\ (a = None => found = << >>)
  <2>1. << >> \in Seq({"racetime"}) /\ <<"racetime">> \in Seq({"racetime"})
    OBVIOUS
  <2> QED BY <2>1
<1> HIDE DEF start, asked, found, end
<1>5. s1 \in Seq(Early)
  BY <1>2, <1>3
<1> HIDE DEF s1
<1>6. /\ s1 \in Seq(Names) /\ NamesOrdered(s1)
      /\ \A i \in 1 .. Len(s1) : s1[i] \notin Ends
  BY <1>5 DEF Names, NamesOrdered, Ends
<1>7. /\ found \in Seq(Names) /\ NamesOrdered(found)
      /\ \A i \in 1 .. Len(found) : found[i] \notin Forgets
  BY <1>4 DEF Names, NamesOrdered, Forgets, Ends
<1>8. /\ end \in Seq(Names) /\ NamesOrdered(end)
      /\ \A i \in 1 .. Len(end) : end[i] \notin Forgets \cup {"racetime"}
  BY <1>2 DEF Names, NamesOrdered, Forgets
<1>9. s2 \in Seq(Names) /\ NamesOrdered(s2)
  BY <1>6, <1>7, OrderJoins
<1>10. a = None => s2 = s1
  BY <1>4, <1>5
<1> HIDE DEF s2
<1>11. ops \in Seq(Names) /\ NamesOrdered(ops)
  BY <1>8, <1>9, OrderJoins
<1>12. a = None => ops \in Seq(Other)
  BY <1>2, <1>5, <1>10 DEF Other, Early
<1> HIDE DEF ops
<1>13. \A i \in 1 .. Len(ops) : ops[i] = "racetime" => a # None
  BY <1>12
<1>14. /\ Must(ops) \in Seq(Operation) /\ Len(Must(ops)) = Len(ops)
       /\ \A i \in 1 .. Len(ops) : Must(ops)[i].do = ops[i]
  BY <1>11, MustType
<1>15. Ordered(Must(ops))
  <2>1. DOMAIN Must(ops) = 1 .. Len(ops) /\ DOMAIN ops = 1 .. Len(ops)
    BY <1>11, <1>14
  <2> QED BY <1>11, <1>14, <2>1 DEF Ordered, NamesOrdered
<1>16. Does(Must(ops), "racetime") => a # None
  BY <1>13, <1>14 DEF Does
<1> QED BY <1>1, <1>14, <1>15, <1>16
-----------------------------------------------------------------------------
(* What is left of a program does nothing that the program would not do,    *)
(* and in the same order.                                                   *)

\* At most four connections are given back, and at every request either the
\* first of these four is past or another request is to come.
Modest(ops) ==
  \E a, b, c, d \in Int :
    /\ \A i \in DOMAIN ops : ops[i].do = "give" => i \in {a, b, c, d}
    /\ \A i \in DOMAIN ops : ops[i].do = "take" =>
         a < i \/ \E j \in DOMAIN ops : i < j /\ ops[j].do = "take"

Later(ops, rest) ==
  /\ rest \in Seq(Operation)
  /\ Ordered(ops) => Ordered(rest)
  /\ Modest(ops) => Modest(rest)
  /\ \A what \in Names : Does(rest, what) => Does(ops, what)
  /\ Ordered(ops) /\ ops[1].do = "racetime" =>
       \A what \in Forgets : ~Does(rest, what)
  /\ Ordered(ops) /\ ops[1].do \in Ends => ~Does(rest, "racetime")

LEMMA DropFront ==
  ASSUME NEW ops \in Seq(Operation), NEW rest \in Seq(Operation), ops # << >>,
         NEW d \in Nat \ {0}, Len(rest) = 0 \/ Len(rest) + d <= Len(ops),
         Len(rest) = 0 \/ Len(rest) + d >= Len(ops),
         \A i \in 1 .. Len(rest) : rest[i] = ops[i + d]
  PROVE  Later(ops, rest)
<1>1. /\ DOMAIN ops = 1 .. Len(ops) /\ DOMAIN rest = 1 .. Len(rest)
      /\ Len(ops) \in Nat /\ Len(rest) \in Nat /\ 1 \in DOMAIN ops
  OBVIOUS
<1>2. \A i \in DOMAIN rest : i + d \in DOMAIN ops /\ 1 < i + d /\ rest[i] = ops[i + d]
  BY <1>1
<1>3. Ordered(ops) => Ordered(rest)
  BY <1>1, <1>2 DEF Ordered
<1>4. \A what \in Names : Does(rest, what) => Does(ops, what)
  BY <1>2 DEF Does
<1>5. Ordered(ops) /\ ops[1].do = "racetime" =>
        \A what \in Forgets : ~Does(rest, what)
  BY <1>1, <1>2 DEF Ordered, Does
<1>6. Ordered(ops) /\ ops[1].do \in Ends => ~Does(rest, "racetime")
  BY <1>1, <1>2 DEF Ordered, Does
<1>7. ASSUME Modest(ops) PROVE Modest(rest)
  <2>1. PICK a, b, c, e \in Int :
          /\ \A i \in DOMAIN ops : ops[i].do = "give" => i \in {a, b, c, e}
          /\ \A i \in DOMAIN ops : ops[i].do = "take" =>
               a < i \/ \E j \in DOMAIN ops : i < j /\ ops[j].do = "take"
    BY <1>7 DEF Modest
  <2>2. \A i \in DOMAIN rest : rest[i].do = "give" => i \in {a - d, b - d, c - d, e - d}
    <3>1. ASSUME NEW i \in DOMAIN rest, rest[i].do = "give"
          PROVE  i + d \in {a, b, c, e}
      BY <1>2, <2>1, <3>1
    <3>2. \A i, x \in Int : i + d = x => i = x - d
      OBVIOUS
    <3>3. \A i \in DOMAIN rest : i \in Int
      BY <1>1
    <3> QED BY <2>1, <3>1, <3>2, <3>3
  <2>3. ASSUME NEW i \in DOMAIN rest, rest[i].do = "take"
        PROVE  a - d < i \/ \E j \in DOMAIN rest : i < j /\ rest[j].do = "take"
    <3>1. CASE a < i + d
      BY <1>1, <3>1
    <3>2. CASE ~(a < i + d)
      <4>1. PICK j \in DOMAIN ops : i + d < j /\ ops[j].do = "take"
        BY <1>2, <2>1, <2>3, <3>2
      <4>2. j - d \in DOMAIN rest /\ i < j - d /\ (j - d) + d = j
        BY <1>1, <2>3, <4>1
      <4> QED BY <1>2, <4>1, <4>2
    <3> QED BY <3>1, <3>2
  <2>4. a - d \in Int /\ b - d \in Int /\ c - d \in Int /\ e - d \in Int
    BY <2>1
  <2> QED BY <2>2, <2>3, <2>4 DEF Modest
<1> QED BY <1>3, <1>4, <1>5, <1>6, <1>7 DEF Later

LEMMA GoesOn ==
  ASSUME OrderInv, NEW h \in Handlers, Running(h), Advance(h) \/ Fail(h)
  PROVE  \E rest \in Seq(Operation) :
           todo' = [todo EXCEPT ![h] = rest] /\ Later(todo[h], rest)
<1> DEFINE ops == todo[h]
           k == Head(ops).skips
           tail == Tail(ops)
           rest == SubSeq(tail, k + 1, Len(ops) - 1)
<1>1. ops \in Seq(Operation) /\ ops # << >>
  BY DEF OrderInv, Running
<1>2. /\ tail \in Seq(Operation) /\ Len(ops) \in Nat \ {0}
      /\ Len(tail) = Len(ops) - 1
      /\ \A i \in 1 .. Len(tail) : tail[i] = ops[i + 1]
  BY <1>1
<1>3. Head(ops) \in Operation /\ k \in Nat
  <2>1. Head(ops) \in Operation
    BY <1>1
  <2> QED BY <2>1 DEF Operation, All
<1>4. Later(ops, tail)
  <2> HIDE DEF ops, tail
  <2>1. 1 \in Nat \ {0} /\ Len(tail) + 1 <= Len(ops) /\ Len(tail) + 1 >= Len(ops)
    BY <1>2
  <2> QED BY <1>1, <1>2, <2>1, DropFront
<1>5. rest \in Seq(Operation) /\ Later(ops, rest)
  <2> HIDE DEF tail, k, ops
  <2>1. CASE k + 1 <= Len(ops) - 1
    <3>1. /\ rest \in Seq(Operation) /\ Len(rest) = Len(ops) - 1 - k
          /\ \A i \in 1 .. Len(rest) : rest[i] = tail[i + k]
      BY <1>2, <1>3, <2>1
    <3>2. /\ Len(rest) + (k + 1) <= Len(ops) /\ Len(rest) + (k + 1) >= Len(ops)
          /\ \A i \in 1 .. Len(rest) : rest[i] = ops[i + (k + 1)]
      BY <1>2, <1>3, <2>1, <3>1
    <3>3. k + 1 \in Nat \ {0}
      BY <1>3
    <3> HIDE DEF rest
    <3> QED BY <1>1, <3>1, <3>2, <3>3, DropFront
  <2>2. CASE ~(k + 1 <= Len(ops) - 1)
    <3>1. rest = << >>
      BY <1>2, <1>3, <2>2
    <3>2. << >> \in Seq(Operation) /\ Len(<< >>) = 0
      OBVIOUS
    <3> HIDE DEF rest
    <3>3. rest \in Seq(Operation) /\ Len(rest) = 0
      BY <3>1, <3>2
    <3>4. \A i \in 1 .. Len(rest) : rest[i] = ops[i + 1]
      BY <3>3
    <3>5. 1 \in Nat \ {0}
      OBVIOUS
    <3> QED BY <1>1, <3>3, <3>4, <3>5, DropFront
  <2> QED BY <2>1, <2>2
<1>6. CASE Advance(h)
  BY <1>2, <1>4, <1>6 DEF Advance
<1>7. CASE Fail(h)
  BY <1>5, <1>7 DEF Fail
<1> QED BY <1>6, <1>7

-----------------------------------------------------------------------------
\* A handler whose program and command change together.
LEMMA HandlerMoves ==
  ASSUME ToldInv, IInv', NEW h \in Handlers, NEW ops \in Seq(Operation),
         NEW c \in Command,
         todo' = [todo EXCEPT ![h] = ops], cmd' = [cmd EXCEPT ![h] = c],
         Ordered(ops), Does(ops, "racetime") => c.racetime # None,
         c.told => /\ c.save
                   /\ c.copy.racetime_user_id \in Accounts
                   /\ Fits(c.copy.racetime_user_id, c.copy.twitch_user_login)
                   /\ \A what \in Forgets : ~Does(ops, what)
  PROVE  ToldInv'
<1>1. /\ todo'[h] = ops /\ cmd'[h] = c
      /\ \A g \in Handlers \ {h} : todo'[g] = todo[g] /\ cmd'[g] = cmd[g]
  BY DEF ToldInv, OrderInv, IInv, TypeOK
<1>2. OrderInv'
  <2>1. todo' \in [Handlers -> Seq(Operation)]
    BY DEF ToldInv, OrderInv
  <2> QED BY <1>1, <2>1 DEF ToldInv, OrderInv
<1>3. AccountInv'
  BY <1>1 DEF ToldInv, AccountInv
<1> QED BY <1>2, <1>3 DEF ToldInv

\* A command that begins has told nobody anything.
LEMMA BeginTold ==
  ASSUME ToldInv, IInv', NEW h \in Handlers, NEW u \in Users,
         NEW n \in Users \cup {None}, NEW t \in Twitches \cup {None},
         NEW a \in Accounts \cup {None}, NEW p \in Seq(Operation), Ordered(p),
         Does(p, "racetime") => a # None, Begin(h, u, n, t, a, p)
  PROVE  ToldInv'
<1> DEFINE c == [NoCommand EXCEPT !.user = u, !.nickname = n,
                                  !.twitch = t, !.racetime = a]
<1>1. NoCommand \in Command
  BY NoCommandType
<1>2. c \in Command /\ c.racetime = a /\ c.told = NoCommand.told
  BY <1>1 DEF Command
<1>3. NoCommand.told = FALSE
  BY DEF NoCommand
<1>4. cmd' = [cmd EXCEPT ![h] = c] /\ todo' = [todo EXCEPT ![h] = p]
  BY DEF Begin, Start
<1> HIDE DEF c
<1> QED BY <1>2, <1>3, <1>4, HandlerMoves

LEMMA CommandsTold ==
  ASSUME ToldInv, IInv', NEW h \in Handlers,
         \/ handle_update_user_info(h) \/ handle_check_user_info(h)
         \/ handle_create_player(h) \/ StartProgram(h)
  PROVE  ToldInv'
<1>1. CASE handle_update_user_info(h)
  <2>1. PICK u \in Users, r \in Requests :
          Begin(h, u, r.nickname, r.twitch, r.racetime,
                UpdateProgram(r.twitch, r.racetime))
    BY <1>1 DEF handle_update_user_info
  <2>2. r \in Request
    BY PlayersAssumption DEF PlayersAssumption
  <2>3. /\ r.nickname \in Users \cup {None} /\ r.twitch \in Twitches \cup {None}
        /\ r.racetime \in Accounts \cup {None}
    BY <2>2 DEF Request
  <2> QED BY <2>1, <2>3, UpdateIsOrdered, BeginTold
<1>2. CASE handle_check_user_info(h)
  <2>1. PICK u \in Users :
          Begin(h, u, None, None, None, Must(<<"take", "read", "give">>))
    BY <1>2 DEF handle_check_user_info
  <2> DEFINE ops == <<"take", "read", "give">>
  <2>2. /\ ops \in Seq(Names)
        /\ \A i \in 1 .. Len(ops) : ops[i] \notin Ends \cup {"racetime"}
    BY DEF Names, Ends
  <2> HIDE DEF ops
  <2>3. /\ Must(ops) \in Seq(Operation)
        /\ \A i \in DOMAIN Must(ops) :
             Must(ops)[i].do \notin Ends \cup {"racetime"}
    BY <2>2, MustType
  <2>4. Ordered(Must(ops)) /\ ~Does(Must(ops), "racetime")
    BY <2>3 DEF Ordered, Does
  <2> QED BY <2>1, <2>3, <2>4, BeginTold DEF ops
<1>3. CASE handle_create_player(h)
  <2>1. PICK r \in Additions :
          Begin(h, r.user, r.nickname, r.twitch, r.racetime,
                Must(<<"take", "insert", "give">>))
    BY <1>3 DEF handle_create_player
  <2>2. r \in Addition
    BY PlayersAssumption DEF PlayersAssumption
  <2>3. /\ r.user \in Users /\ r.nickname \in Users \cup {None}
        /\ r.twitch \in Twitches \cup {None} /\ r.racetime \in Accounts \cup {None}
    BY <2>2 DEF Addition
  <2> DEFINE ops == <<"take", "insert", "give">>
  <2>4. /\ ops \in Seq(Names)
        /\ \A i \in 1 .. Len(ops) : ops[i] \notin Forgets \cup {"racetime"}
    BY DEF Names, Forgets
  <2> HIDE DEF ops
  <2>5. /\ Must(ops) \in Seq(Operation)
        /\ \A i \in DOMAIN Must(ops) :
             Must(ops)[i].do \notin Forgets \cup {"racetime"}
    BY <2>4, MustType
  <2>6. Ordered(Must(ops)) /\ ~Does(Must(ops), "racetime")
    BY <2>5 DEF Ordered, Does
  <2> QED BY <2>1, <2>3, <2>5, <2>6, BeginTold DEF ops
<1>4. CASE StartProgram(h)
  <2>1. PICK p \in Programs : Start(h, p)
    BY <1>4 DEF StartProgram
  <2>2. Plain(p)
    BY ProgramsArePlain
  <2>3. /\ p \in Seq(Operation) /\ Ordered(p) /\ ~Does(p, "racetime")
        /\ \A what \in Forgets : ~Does(p, what)
    BY <2>2 DEF Plain, Ordered, Does
  <2>4. cmd[h] \in Command /\ cmd' = [cmd EXCEPT ![h] = cmd[h]]
    BY <1>4 DEF StartProgram, ToldInv, IInv, TypeOK
  <2>5. todo' = [todo EXCEPT ![h] = p]
    BY <2>1 DEF Start
  <2> QED BY <2>3, <2>4, <2>5, HandlerMoves DEF ToldInv, AccountInv
<1> QED BY <1>1, <1>2, <1>3, <1>4

\* A handler that goes on with the command it has: who was told before still
\* has nothing to do that changes the copy.
LEMMA StepTold ==
  ASSUME ToldInv, IInv', NEW h \in Handlers, Running(h), Advance(h) \/ Fail(h),
         NEW c \in Command, cmd' = [cmd EXCEPT ![h] = c],
         \/ c.racetime = cmd[h].racetime
         \/ todo[h][1].do \in Ends,
         \/ ~c.told
         \/ c = cmd[h]
         \/ /\ todo[h][1].do = "racetime" /\ c.save
            /\ c.copy.racetime_user_id \in Accounts
            /\ Fits(c.copy.racetime_user_id, c.copy.twitch_user_login)
  PROVE  ToldInv'
<1>1. PICK rest \in Seq(Operation) :
        todo' = [todo EXCEPT ![h] = rest] /\ Later(todo[h], rest)
  BY GoesOn DEF ToldInv
<1>2. Ordered(todo[h]) /\ (Does(todo[h], "racetime") => cmd[h].racetime # None)
  BY DEF ToldInv, OrderInv
<1>3. Ordered(rest)
  BY <1>1, <1>2 DEF Later
<1>4. "racetime" \in Names /\ Forgets \subseteq Names
  BY DEF Names, Forgets
<1>5. Does(rest, "racetime") => c.racetime # None
  BY <1>1, <1>2, <1>4 DEF Later
<1>6. c.told => /\ c.save
                /\ c.copy.racetime_user_id \in Accounts
                /\ Fits(c.copy.racetime_user_id, c.copy.twitch_user_login)
                /\ \A what \in Forgets : ~Does(rest, what)
  BY <1>1, <1>2, <1>4 DEF Later, ToldInv, AccountInv
<1> QED BY <1>1, <1>3, <1>5, <1>6, HandlerMoves

LEMMA AtHead ==
  ASSUME OrderInv, NEW h \in Handlers, NEW op, Step(h, op)
  PROVE  Running(h) /\ todo[h][1].do = op /\ Does(todo[h], op)
<1>1. todo[h] \in Seq(Operation) /\ todo[h] # << >> /\ Head(todo[h]).do = op
  BY DEF OrderInv, Step, Running, Next_op
<1>2. 1 \in DOMAIN todo[h] /\ Head(todo[h]) = todo[h][1]
  BY <1>1
<1> QED BY <1>1, <1>2 DEF Running, Does

LEMMA GoTold ==
  ASSUME ToldInv, IInv', NEW h \in Handlers, Go(h)
  PROVE  ToldInv'
<1>0. /\ cmd \in [Handlers -> Command] /\ cmd[h] \in Command /\ OrderInv
      /\ \A what \in Forgets : Does(todo[h], what) => ~cmd[h].told
  BY DEF ToldInv, IInv, TypeOK, AccountInv
<1>1. CASE PoolStep(h) /\ UNCHANGED pvars
  <2>1. Running(h) /\ (Advance(h) \/ Fail(h))
    BY <1>1 DEF PoolStep, Take, TimedOut, Give, Work, Waits
  <2>2. cmd' = [cmd EXCEPT ![h] = cmd[h]]
    BY <1>0, <1>1 DEF pvars
  <2> QED BY <1>0, <2>1, <2>2, StepTold
<1>2. CASE get_or_create_from_discord_user(h)
  <2>1. Running(h) /\ ~cmd[h].told
    BY <1>0, <1>2, AtHead DEF get_or_create_from_discord_user, Forgets
  <2>2. Advance(h) \/ Fail(h)
    BY <1>2 DEF get_or_create_from_discord_user
  <2>3. \E c \in Command : /\ cmd' = [cmd EXCEPT ![h] = c]
                           /\ c.racetime = cmd[h].racetime /\ c.told = cmd[h].told
    <3>1. cmd'[h] \in Command
      BY DEF IInv, TypeOK
    <3>2. \/ cmd' = cmd
          \/ \E r, b : cmd' = [cmd EXCEPT ![h].copy = r, ![h].save = b]
      BY <1>2 DEF get_or_create_from_discord_user
    <3>3. CASE cmd' = cmd
      BY <1>0, <3>3
    <3>4. ASSUME NEW r, NEW b, cmd' = [cmd EXCEPT ![h].copy = r, ![h].save = b]
          PROVE  /\ cmd' = [cmd EXCEPT ![h] = cmd'[h]]
                 /\ cmd'[h].racetime = cmd[h].racetime
                 /\ cmd'[h].told = cmd[h].told
      BY <1>0, <3>4 DEF Command
    <3> QED BY <3>1, <3>2, <3>3, <3>4
  <2> QED BY <2>1, <2>2, <2>3, StepTold
<1>3. CASE validate_twitch_username(h)
  <2>1. Running(h) /\ ~cmd[h].told /\ Advance(h)
    BY <1>0, <1>3, AtHead DEF validate_twitch_username, Forgets
  <2>2. \E c \in Command : /\ cmd' = [cmd EXCEPT ![h] = c]
                           /\ c.racetime = cmd[h].racetime /\ c.told = cmd[h].told
    <3>1. cmd'[h] \in Command
      BY DEF IInv, TypeOK
    <3>2. CASE cmd' = cmd
      BY <1>0, <3>2
    <3>3. CASE cmd' = [cmd EXCEPT ![h].copy.twitch_user_login = cmd[h].twitch,
                                  ![h].save = TRUE]
      <4>1. /\ cmd' = [cmd EXCEPT ![h] = cmd'[h]]
            /\ cmd'[h].racetime = cmd[h].racetime
            /\ cmd'[h].told = cmd[h].told
        BY <1>0, <3>3 DEF Command
      <4> QED BY <3>1, <4>1
    <3> QED BY <1>3, <3>2, <3>3 DEF validate_twitch_username
  <2> QED BY <2>1, <2>2, StepTold
<1>4. CASE validate_racetime_username(h)
  <2>1. Running(h) /\ todo[h][1].do = "racetime" /\ Does(todo[h], "racetime")
    BY <1>0, <1>4, AtHead DEF validate_racetime_username
  <2>2. Advance(h) /\ cmd[h].racetime \in Accounts
    BY <1>0, <1>4, <2>1 DEF validate_racetime_username, OrderInv, Command
  <2>3. CASE cmd' = cmd
    <3>1. cmd' = [cmd EXCEPT ![h] = cmd[h]]
      BY <1>0, <2>3
    <3> QED BY <1>0, <2>1, <2>2, <3>1, StepTold
  <2>4. CASE /\ Fits(cmd[h].racetime, cmd[h].copy.twitch_user_login)
             /\ cmd' = [cmd EXCEPT ![h].copy.racetime_username = cmd[h].racetime,
                                   ![h].copy.racetime_user_id = cmd[h].racetime,
                                   ![h].save = TRUE, ![h].told = TRUE]
    <3> DEFINE c == [cmd[h] EXCEPT !.copy.racetime_username = cmd[h].racetime,
                                   !.copy.racetime_user_id = cmd[h].racetime,
                                   !.save = TRUE, !.told = TRUE]
    <3>1. /\ c \in Command /\ c.racetime = cmd[h].racetime /\ c.save
          /\ c.copy.racetime_user_id = cmd[h].racetime
          /\ c.copy.twitch_user_login = cmd[h].copy.twitch_user_login
      BY <1>0 DEF Command, Row
    <3>2. cmd' = [cmd EXCEPT ![h] = c]
      BY <1>0, <2>4 DEF Command, Row
    <3> HIDE DEF c
    <3>3. Fits(c.copy.racetime_user_id, c.copy.twitch_user_login)
      BY <2>4, <3>1
    <3> QED BY <2>1, <2>2, <3>1, <3>2, <3>3, StepTold
  <2> QED BY <1>4, <2>3, <2>4 DEF validate_racetime_username
<1>5. CASE Save(h) \/ Insert(h)
  <2>1. Running(h) /\ todo[h][1].do \in Ends
    BY <1>0, <1>5, AtHead DEF Save, Insert, Ends
  <2>2. Drop(h) /\ (Advance(h) \/ Fail(h))
    BY <1>5 DEF Save, Insert
  <2>3. NoCommand \in Command /\ ~NoCommand.told
    BY NoCommandType DEF NoCommand
  <2> QED BY <2>1, <2>2, <2>3, StepTold DEF Drop
<1> QED BY <1>1, <1>2, <1>3, <1>4, <1>5 DEF Go

LEMMA InitToldInv == Init => ToldInv
<1> SUFFICES ASSUME Init PROVE ToldInv
  OBVIOUS
<1>1. /\ << >> \in Seq(Operation) /\ Ordered(<< >>)
      /\ \A what : ~Does(<< >>, what)
  BY DEF Ordered, Does
<1>2. ~NoCommand.told
  BY DEF NoCommand
<1> QED BY <1>1, <1>2, InitIInv DEF Init, ToldInv, OrderInv, AccountInv

LEMMA NextToldInv == ToldInv /\ [Next]_vars => ToldInv'
<1> SUFFICES ASSUME ToldInv, [Next]_vars PROVE ToldInv'
  OBVIOUS
<1>1. IInv'
  BY NextIInv DEF ToldInv
<1>2. CASE UNCHANGED <<todo, cmd>>
  BY <1>1, <1>2 DEF ToldInv, OrderInv, AccountInv
<1>3. CASE LoadPlayers \/ \E u \in Users : SetId(u)
  BY <1>2, <1>3 DEF LoadPlayers, SetId
<1>4. CASE UNCHANGED vars
  BY <1>2, <1>4 DEF vars, pvars
<1> QED BY <1>1, <1>3, <1>4, CommandsTold, GoTold DEF Next

\* Who is told of an update has a copy whose account fits its Twitch name,
\* and the row gets both from the copy, unless the copy has no Twitch name.
LEMMA SavedAccountFits ==
  ASSUME ToldInv, [Next]_vars, NEW h \in Handlers, Save(h), cmd[h].told,
         CanUpdate(cmd[h].user, cmd[h].copy)
  PROVE  \/ cmd[h].copy.twitch_user_login = None
         \/ Fits(rows'[cmd[h].user].racetime_user_id,
                 rows'[cmd[h].user].twitch_user_login)
<1> DEFINE u == cmd[h].user
           copy == cmd[h].copy
<1>1. u \in Users /\ copy \in Row /\ rows \in [Users -> Row \cup {None}]
  BY DEF ToldInv, IInv, TypeOK, Command
<1>2. /\ cmd[h].save /\ copy.racetime_user_id \in Accounts
      /\ Fits(copy.racetime_user_id, copy.twitch_user_login)
  BY DEF ToldInv, AccountInv
<1>3. update(u, copy)
  BY <1>2 DEF Save
<1>4. rows'[u] = Written(rows[u], copy)
  BY <1>1, <1>3 DEF update
<1>5. copy.racetime_user_id # None
  BY <1>2, PlayersAssumption DEF PlayersAssumption
<1> HIDE DEF u, copy
<1>6. /\ rows'[u].racetime_user_id = copy.racetime_user_id
      /\ copy.twitch_user_login # None =>
           rows'[u].twitch_user_login = copy.twitch_user_login
  BY <1>4, <1>5 DEF Written, Kept
<1>7. \/ copy.twitch_user_login = None
      \/ Fits(rows'[u].racetime_user_id, rows'[u].twitch_user_login)
  BY <1>2, <1>6
<1> QED BY <1>7 DEF u, copy

\* A person who is told that their racetime name is updated has an account
\* that fits the Twitch name in the row, or had none in the copy.
THEOREM ToldAccountsFit == Spec => ToldAccountFits
<1>1. ToldInv /\ [Next]_vars =>
        [\A h \in Handlers :
           LET row == rows'[cmd[h].user]
           IN Save(h) /\ cmd[h].told /\ CanUpdate(cmd[h].user, cmd[h].copy)
                => \/ cmd[h].copy.twitch_user_login = None
                   \/ Fits(row.racetime_user_id, row.twitch_user_login)]_vars
  BY SavedAccountFits
<1> QED BY InitToldInv, NextToldInv, <1>1, PTL DEF Spec, ToldAccountFits

-----------------------------------------------------------------------------
(* Whoever waits for a connection holds at most two.                        *)

ModestInv == \A h \in Handlers : Modest(todo[h])

PoolInv == ToldInv /\ ModestInv

\* The names of a program's operations.
Reads(p, names) ==
  /\ p \in Seq(Operation) /\ names \in Seq(Names) /\ Len(p) = Len(names)
  /\ \A i \in 1 .. Len(names) : p[i].do = names[i]

\* The names u are those of s and then those of t.
Glued(s, t, u) ==
  /\ Len(u) = Len(s) + Len(t)
  /\ \A i \in 1 .. Len(s) : u[i] = s[i]
  /\ \A i \in 1 .. Len(t) : u[i + Len(s)] = t[i]

LEMMA OneReads ==
  ASSUME NEW names \in Seq(Quiet), Len(names) <= All
  PROVE  Reads(Must(names), names) /\ Reads(Logged(names), names)
<1>1. names \in Seq(Names)
  BY DEF Quiet, Names
<1> QED BY <1>1, MustType, LoggedType DEF Reads

LEMMA JoinReads ==
  ASSUME NEW p, NEW q, NEW s, NEW t, NEW u \in Seq(Quiet), Reads(p, s), Reads(q, t),
         Glued(s, t, u)
  PROVE  Reads(p \o q, u)
<1>1. /\ p \o q \in Seq(Operation) /\ Len(p \o q) = Len(p) + Len(q)
      /\ \A i \in 1 .. Len(p) : (p \o q)[i] = p[i]
      /\ \A i \in Len(p) + 1 .. Len(p) + Len(q) : (p \o q)[i] = q[i - Len(p)]
  <2>1. p \in Seq(Operation) /\ q \in Seq(Operation)
    BY DEF Reads
  <2> QED BY <2>1
<1>2. Len(p) = Len(s) /\ Len(q) = Len(t) /\ Len(s) \in Nat /\ Len(t) \in Nat
  BY DEF Reads
<1> DEFINE pq == p \o q
<1> HIDE DEF pq
<1>3. \A i \in 1 .. Len(s) : pq[i].do = u[i]
  BY <1>1, <1>2 DEF Reads, Glued, pq
<1>4. \A i \in 1 .. Len(t) : pq[i + Len(s)].do = u[i + Len(s)]
  <2> TAKE i \in 1 .. Len(t)
  <2>1. i + Len(s) \in Len(s) + 1 .. Len(s) + Len(t) /\ (i + Len(s)) - Len(s) = i
    BY <1>2
  <2>2. pq[i + Len(s)] = q[i]
    BY <1>1, <1>2, <2>1 DEF pq
  <2> QED BY <1>2, <2>2 DEF Reads, Glued
<1>5. \A i \in 1 .. Len(u) : pq[i].do = u[i]
  <2> TAKE i \in 1 .. Len(u)
  <2>1. CASE i \in 1 .. Len(s)
    BY <1>3, <2>1
  <2>2. CASE i \notin 1 .. Len(s)
    <3>1. i - Len(s) \in 1 .. Len(t) /\ (i - Len(s)) + Len(s) = i
      BY <1>2, <2>2 DEF Glued
    <3> QED BY <1>4, <3>1
  <2> QED BY <2>1, <2>2
<1>6. u \in Seq(Names)
  BY DEF Quiet, Names
<1> QED BY <1>1, <1>2, <1>5, <1>6 DEF Reads, Glued, pq

\* Modesty is seen from the names.
LEMMA ModestReads ==
  ASSUME NEW p, NEW names, Reads(p, names),
         NEW a \in Int, NEW b \in Int, NEW c \in Int, NEW d \in Int,
         \A i \in 1 .. Len(names) : names[i] = "give" => i \in {a, b, c, d},
         \A i \in 1 .. Len(names) : names[i] = "take" =>
           a < i \/ \E j \in 1 .. Len(names) : i < j /\ names[j] = "take"
  PROVE  Modest(p)
<1>1. DOMAIN p = 1 .. Len(names) /\ \A i \in 1 .. Len(names) : p[i].do = names[i]
  <2>1. p \in Seq(Operation) /\ Len(p) = Len(names)
    BY DEF Reads
  <2>2. DOMAIN p = 1 .. Len(p)
    BY <2>1
  <2> QED BY <2>1, <2>2 DEF Reads
<1>2. \A i \in DOMAIN p : p[i].do = "give" => i \in {a, b, c, d}
  BY <1>1
<1>3. \A i \in DOMAIN p : p[i].do = "take" =>
        a < i \/ \E j \in DOMAIN p : i < j /\ p[j].do = "take"
  BY <1>1
<1> QED BY <1>2, <1>3 DEF Modest

LEMMA PartsRead ==
  /\ \A s \in {<<"take">>, <<"take", "take">>, <<"take", "work">>, <<"give">>,
               <<"give", "give">>, <<"take", "work", "give">>,
               <<"take", "take", "take", "work", "give", "give", "give">>} :
       s \in Seq(Quiet) /\ Reads(Must(s), s)
  /\ \A s \in {<<"work">>, <<"take", "give">>, <<"take", "work", "give">>,
               <<"work", "take", "give">>} :
       s \in Seq(Quiet) /\ Reads(Logged(s), s)
<1>1. /\ <<"take">> \in Seq(Quiet) /\ Len(<<"take">>) <= All
      /\ <<"take", "take">> \in Seq(Quiet) /\ Len(<<"take", "take">>) <= All
      /\ <<"take", "work">> \in Seq(Quiet) /\ Len(<<"take", "work">>) <= All
      /\ <<"give">> \in Seq(Quiet) /\ Len(<<"give">>) <= All
      /\ <<"give", "give">> \in Seq(Quiet) /\ Len(<<"give", "give">>) <= All
  BY DEF Quiet, All
<1>2. /\ <<"work">> \in Seq(Quiet) /\ Len(<<"work">>) <= All
      /\ <<"take", "give">> \in Seq(Quiet) /\ Len(<<"take", "give">>) <= All
      /\ <<"take", "work", "give">> \in Seq(Quiet)
      /\ Len(<<"take", "work", "give">>) <= All
      /\ <<"work", "take", "give">> \in Seq(Quiet)
      /\ Len(<<"work", "take", "give">>) <= All
  BY DEF Quiet, All
<1>3. /\ <<"take", "take", "take", "work", "give", "give", "give">> \in Seq(Quiet)
      /\ Len(<<"take", "take", "take", "work", "give", "give", "give">>) <= All
  BY DEF Quiet, All
<1> QED BY <1>1, <1>2, <1>3, OneReads

LEMMA PageIsModest == Modest(Page) /\ Modest(Signup)
<1>1. Modest(Page)
  <2> DEFINE s == <<"take", "work", "give">>
  <2>1. Reads(Page, s)
    BY PartsRead DEF Page
  <2>2. /\ \A i \in 1 .. Len(s) : s[i] = "give" => i \in {0, 3, 3, 3}
        /\ \A i \in 1 .. Len(s) : 0 < i
    BY SMT
  <2> HIDE DEF s
  <2>3. 0 \in Int /\ 3 \in Int
    OBVIOUS
  <2> QED BY <2>1, <2>2, <2>3, ModestReads
<1>2. Modest(Signup)
  <2> DEFINE s == <<"take", "take", "take", "work", "give", "give", "give">>
  <2>1. Reads(Signup, s)
    BY PartsRead DEF Signup
  <2>2. /\ \A i \in 1 .. Len(s) : s[i] = "give" => i \in {0, 5, 6, 7}
        /\ \A i \in 1 .. Len(s) : 0 < i
    BY SMT
  <2> HIDE DEF s
  <2>3. 0 \in Int /\ 5 \in Int /\ 6 \in Int /\ 7 \in Int
    OBVIOUS
  <2> QED BY <2>1, <2>2, <2>3, ModestReads
<1> QED BY <1>1, <1>2

LEMMA ScheduleIsModest == Modest(Schedule)
<1> DEFINE s1 == <<"take", "take">>
           s2 == <<"work">>
           s3 == <<"take", "work", "give">>
           s4 == <<"give", "give">>
           u1 == <<"take", "take", "work">>
           u2 == <<"take", "take", "work", "take", "work", "give">>
           u3 == <<"take", "take", "work", "take", "work", "give", "give", "give">>
<1>1. /\ Reads(Must(s1), s1) /\ Reads(Logged(s2), s2) /\ Reads(Logged(s3), s3)
      /\ Reads(Must(s4), s4)
  BY PartsRead
<1>2. u1 \in Seq(Quiet) /\ u2 \in Seq(Quiet) /\ u3 \in Seq(Quiet)
  BY DEF Quiet
<1>3. Glued(s1, s2, u1) /\ Glued(u1, s3, u2) /\ Glued(u2, s4, u3)
  BY SMT DEF Glued
<1>4. /\ \A i \in 1 .. Len(u3) : u3[i] = "give" => i \in {0, 6, 7, 8}
      /\ \A i \in 1 .. Len(u3) : 0 < i
  BY SMT
<1>5. Schedule = Must(s1) \o Logged(s2) \o Logged(s3) \o Must(s4)
  BY DEF Schedule
<1> HIDE DEF s1, s2, s3, s4, u1, u2, u3
<1>6. Reads(Must(s1) \o Logged(s2), u1)
  BY <1>1, <1>2, <1>3, JoinReads
<1>7. Reads(Must(s1) \o Logged(s2) \o Logged(s3), u2)
  BY <1>1, <1>2, <1>3, <1>6, JoinReads
<1>8. Reads(Schedule, u3)
  BY <1>1, <1>2, <1>3, <1>5, <1>7, JoinReads
<1>9. 0 \in Int /\ 6 \in Int /\ 7 \in Int /\ 8 \in Int
  OBVIOUS
<1> QED BY <1>4, <1>8, <1>9, ModestReads

\* The one program that takes four connections gives the first of them back
\* before it takes the last.
LEMMA ConfirmationIsModest == Modest(Confirmation)
<1> DEFINE s1 == <<"take", "take">>
           s2 == <<"take", "give">>
           s3 == <<"work">>
           s4 == <<"give", "give">>
           u1 == <<"take", "take", "take", "give">>
           u2 == <<"take", "take", "take", "give", "take", "give">>
           u3 == <<"take", "take", "take", "give", "take", "give", "work">>
           u4 == <<"take", "take", "take", "give", "take", "give", "work", "give",
                   "give">>
<1>1. /\ Reads(Must(s1), s1) /\ Reads(Logged(s2), s2) /\ Reads(Logged(s3), s3)
      /\ Reads(Must(s4), s4)
  BY PartsRead
<1>2. /\ u1 \in Seq(Quiet) /\ u2 \in Seq(Quiet) /\ u3 \in Seq(Quiet)
      /\ u4 \in Seq(Quiet)
  BY DEF Quiet
<1>3. /\ Glued(s1, s2, u1) /\ Glued(u1, s2, u2) /\ Glued(u2, s3, u3)
      /\ Glued(u3, s4, u4)
  BY SMT DEF Glued
<1>4. /\ \A i \in 1 .. Len(u4) : u4[i] = "give" => i \in {4, 6, 8, 9}
      /\ \A i \in 1 .. Len(u4) : u4[i] = "take" =>
           4 < i \/ \E j \in 1 .. Len(u4) : i < j /\ u4[j] = "take"
  BY SMT
<1>5. Confirmation =
        Must(s1) \o Logged(s2) \o Logged(s2) \o Logged(s3) \o Must(s4)
  BY DEF Confirmation
<1> HIDE DEF s1, s2, s3, s4, u1, u2, u3, u4
<1>6. Reads(Must(s1) \o Logged(s2), u1)
  BY <1>1, <1>2, <1>3, JoinReads
<1>7. Reads(Must(s1) \o Logged(s2) \o Logged(s2), u2)
  BY <1>1, <1>2, <1>3, <1>6, JoinReads
<1>8. Reads(Must(s1) \o Logged(s2) \o Logged(s2) \o Logged(s3), u3)
  BY <1>1, <1>2, <1>3, <1>7, JoinReads
<1>9. Reads(Confirmation, u4)
  BY <1>1, <1>2, <1>3, <1>5, <1>8, JoinReads
<1>10. 4 \in Int /\ 6 \in Int /\ 8 \in Int /\ 9 \in Int
  OBVIOUS
<1> QED BY <1>4, <1>9, <1>10, ModestReads

LEMMA SweepIsModest == Modest(Sweep)
<1> DEFINE s1 == <<"take">>
           s2 == <<"work", "take", "give">>
           s3 == <<"give">>
           u1 == <<"take", "work", "take", "give">>
           u2 == <<"take", "work", "take", "give", "work", "take", "give">>
           u3 == <<"take", "work", "take", "give", "work", "take", "give", "give">>
<1>1. Reads(Must(s1), s1) /\ Reads(Logged(s2), s2) /\ Reads(Must(s3), s3)
  BY PartsRead
<1>2. u1 \in Seq(Quiet) /\ u2 \in Seq(Quiet) /\ u3 \in Seq(Quiet)
  BY DEF Quiet
<1>3. Glued(s1, s2, u1) /\ Glued(u1, s2, u2) /\ Glued(u2, s3, u3)
  BY SMT DEF Glued
<1>4. /\ \A i \in 1 .. Len(u3) : u3[i] = "give" => i \in {0, 4, 7, 8}
      /\ \A i \in 1 .. Len(u3) : 0 < i
  BY SMT
<1>5. Sweep = Must(s1) \o Logged(s2) \o Logged(s2) \o Must(s3)
  BY DEF Sweep
<1> HIDE DEF s1, s2, s3, u1, u2, u3
<1>6. Reads(Must(s1) \o Logged(s2), u1)
  BY <1>1, <1>2, <1>3, JoinReads
<1>7. Reads(Must(s1) \o Logged(s2) \o Logged(s2), u2)
  BY <1>1, <1>2, <1>3, <1>6, JoinReads
<1>8. Reads(Sweep, u3)
  BY <1>1, <1>2, <1>3, <1>5, <1>7, JoinReads
<1>9. 0 \in Int /\ 4 \in Int /\ 7 \in Int /\ 8 \in Int
  OBVIOUS
<1> QED BY <1>4, <1>8, <1>9, ModestReads

LEMMA ScanIsModest == Modest(Scan)
<1> DEFINE s1 == <<"take", "work">>
           s2 == <<"take", "work", "give">>
           s3 == <<"give">>
           u1 == <<"take", "work", "take", "work", "give">>
           u2 == <<"take", "work", "take", "work", "give", "take", "work", "give">>
           u3 == <<"take", "work", "take", "work", "give", "take", "work", "give",
                   "give">>
<1>1. Reads(Must(s1), s1) /\ Reads(Logged(s2), s2) /\ Reads(Must(s3), s3)
  BY PartsRead
<1>2. u1 \in Seq(Quiet) /\ u2 \in Seq(Quiet) /\ u3 \in Seq(Quiet)
  BY DEF Quiet
<1>3. Glued(s1, s2, u1) /\ Glued(u1, s2, u2) /\ Glued(u2, s3, u3)
  BY SMT DEF Glued
<1>4. /\ \A i \in 1 .. Len(u3) : u3[i] = "give" => i \in {0, 5, 8, 9}
      /\ \A i \in 1 .. Len(u3) : 0 < i
  BY SMT
<1>5. Scan = Must(s1) \o Logged(s2) \o Logged(s2) \o Must(s3)
  BY DEF Scan
<1> HIDE DEF s1, s2, s3, u1, u2, u3
<1>6. Reads(Must(s1) \o Logged(s2), u1)
  BY <1>1, <1>2, <1>3, JoinReads
<1>7. Reads(Must(s1) \o Logged(s2) \o Logged(s2), u2)
  BY <1>1, <1>2, <1>3, <1>6, JoinReads
<1>8. Reads(Scan, u3)
  BY <1>1, <1>2, <1>3, <1>5, <1>7, JoinReads
<1>9. 0 \in Int /\ 5 \in Int /\ 8 \in Int /\ 9 \in Int
  OBVIOUS
<1> QED BY <1>4, <1>8, <1>9, ModestReads

LEMMA ProgramsAreModest == \A p \in Programs : Modest(p)
BY PageIsModest, ScheduleIsModest, ConfirmationIsModest, SweepIsModest, ScanIsModest
   DEF Programs

\* A command that gives one connection back, at its end.
LEMMA OneGive ==
  ASSUME NEW ops \in Seq(Names),
         \A i \in 1 .. Len(ops) : ops[i] = "give" => i = Len(ops)
  PROVE  Modest(Must(ops))
<1>1. Reads(Must(ops), ops) /\ Len(ops) \in Int /\ 0 \in Int
  BY MustType DEF Reads
<1>2. \A i \in 1 .. Len(ops) : ops[i] = "give" => i \in {0, Len(ops), Len(ops), Len(ops)}
  OBVIOUS
<1>3. \A i \in 1 .. Len(ops) : 0 < i
  OBVIOUS
<1> QED BY <1>1, <1>2, <1>3, ModestReads

LEMMA CommandsAreModest ==
  /\ Modest(Must(<<"take", "read", "give">>)) /\ Modest(Must(<<"take", "insert", "give">>))
  /\ \A t, a : Modest(UpdateProgram(t, a))
<1>1. ASSUME NEW what \in Names \ {"give"}
      PROVE  Modest(Must(<<"take", what, "give">>))
  <2> DEFINE ops == <<"take", what, "give">>
  <2>1. ops \in Seq(Names) /\ \A i \in 1 .. Len(ops) : ops[i] = "give" => i = Len(ops)
    BY SMT DEF Names
  <2> HIDE DEF ops
  <2>2. Modest(Must(ops))
    BY <2>1, OneGive
  <2> QED BY <2>2 DEF ops
<1>2. "read" \in Names \ {"give"} /\ "insert" \in Names \ {"give"}
  BY DEF Names
<1>3. ASSUME NEW t, NEW a PROVE Modest(UpdateProgram(t, a))
  <2> DEFINE start == <<"take", "read">>
             asked == IF t = None THEN << >> ELSE <<"twitch">>
             found == IF a = None THEN << >> ELSE <<"racetime">>
             end == <<"save", "give">>
             front == start \o asked \o found
             ops == front \o end
             Other == Names \ {"give"}
  <2>1. UpdateProgram(t, a) = Must(ops)
    BY DEF UpdateProgram
  <2>2. start \in Seq(Other) /\ end \in Seq(Names)
    BY DEF Names
  <2>3. asked \in Seq(Other) /\ found \in Seq(Other)
    <3>1. << >> \in Seq(Other) /\ <<"twitch">> \in Seq(Other) /\ <<"racetime">> \in Seq(Other)
      BY DEF Names
    <3> QED BY <3>1
  <2>4. Len(end) = 2 /\ end[1] # "give"
    OBVIOUS
  <2> HIDE DEF start, asked, found, end
  <2>5. front \in Seq(Other)
    BY <2>2, <2>3
  <2> HIDE DEF front
  <2>6. ops \in Seq(Names)
    BY <2>2, <2>5
  <2>7. /\ Len(ops) = Len(front) + 2 /\ Len(front) \in Nat
        /\ \A i \in 1 .. Len(front) : ops[i] = front[i] /\ front[i] \in Other
        /\ ops[Len(front) + 1] = end[1]
    <3>1. front \in Seq(Other) /\ front \in Seq(Names) /\ end \in Seq(Names)
      BY <2>2, <2>5
    <3>2. Len(ops) = Len(front) + Len(end) /\ Len(front) \in Nat
      BY <3>1
    <3>3. \A i \in 1 .. Len(front) : ops[i] = front[i]
      BY <3>1
    <3>4. \A i \in 1 .. Len(front) : front[i] \in Other
      BY <3>1
    <3>5. ops[Len(front) + 1] = end[1]
      BY <2>4, <3>1, <3>2
    <3> QED BY <2>4, <3>2, <3>3, <3>4, <3>5
  <2> HIDE DEF ops
  <2>8. \A i \in 1 .. Len(ops) : ops[i] = "give" => i = Len(ops)
    <3> TAKE i \in 1 .. Len(ops)
    <3>1. i \in 1 .. Len(front) \/ i = Len(front) + 1 \/ i = Len(ops)
      BY <2>7
    <3> QED BY <2>4, <2>7, <3>1
  <2> QED BY <2>1, <2>6, <2>8, OneGive
<1> QED BY <1>1, <1>2, <1>3

\* What is left of a modest program is modest.
LEMMA NextModest ==
  ASSUME PoolInv, [Next]_vars
  PROVE  ModestInv'
<1>1. todo \in [Handlers -> Seq(Operation)]
  BY DEF PoolInv, ToldInv, OrderInv
<1>2. ASSUME NEW h \in Handlers, NEW ops, Modest(ops), todo' = [todo EXCEPT ![h] = ops]
      PROVE  ModestInv'
  BY <1>1, <1>2 DEF PoolInv, ModestInv
<1>3. CASE todo' = todo
  BY <1>3 DEF PoolInv, ModestInv
<1>4. ASSUME NEW h \in Handlers, Running(h), Advance(h) \/ Fail(h)
      PROVE  ModestInv'
  <2>1. PICK rest \in Seq(Operation) :
          todo' = [todo EXCEPT ![h] = rest] /\ Later(todo[h], rest)
    BY <1>4, GoesOn DEF PoolInv, ToldInv
  <2>2. Modest(todo[h]) => Modest(rest)
    BY <2>1 DEF Later
  <2> QED BY <1>2, <2>1, <2>2 DEF PoolInv, ModestInv
<1>5. ASSUME NEW h \in Handlers, NEW p, Modest(p), Start(h, p)
      PROVE  ModestInv'
  BY <1>2, <1>5 DEF Start
<1>6. ASSUME NEW h \in Handlers,
             \/ handle_update_user_info(h) \/ handle_check_user_info(h)
             \/ handle_create_player(h) \/ StartProgram(h)
      PROVE  ModestInv'
  <2>1. CASE handle_update_user_info(h)
    BY <1>5, <2>1, CommandsAreModest DEF handle_update_user_info, Begin
  <2>2. CASE handle_check_user_info(h)
    BY <1>5, <2>2, CommandsAreModest DEF handle_check_user_info, Begin
  <2>3. CASE handle_create_player(h)
    BY <1>5, <2>3, CommandsAreModest DEF handle_create_player, Begin
  <2>4. CASE StartProgram(h)
    BY <1>5, <2>4, ProgramsAreModest DEF StartProgram
  <2> QED BY <1>6, <2>1, <2>2, <2>3, <2>4
<1>7. ASSUME NEW h \in Handlers, Go(h) PROVE ModestInv'
  <2>1. Running(h) /\ (Advance(h) \/ Fail(h))
    BY <1>7 DEF Go, PoolStep, Take, TimedOut, Give, Work, Waits, Step,
                get_or_create_from_discord_user, validate_twitch_username,
                validate_racetime_username, Save, Insert
  <2> QED BY <1>4, <2>1
<1>8. CASE LoadPlayers \/ \E u \in Users : SetId(u)
  BY <1>3, <1>8 DEF LoadPlayers, SetId
<1>9. CASE UNCHANGED vars
  BY <1>3, <1>9 DEF vars
<1> QED BY <1>6, <1>7, <1>8, <1>9 DEF Next

LEMMA InitPoolInv == Init => PoolInv
<1> SUFFICES ASSUME Init PROVE PoolInv
  OBVIOUS
<1>1. \A h \in Handlers : todo[h] = << >>
  BY DEF Init
<1>2. Modest(<< >>)
  BY DEF Modest
<1> QED BY <1>1, <1>2, InitToldInv DEF PoolInv, ModestInv

LEMMA NextPoolInv == PoolInv /\ [Next]_vars => PoolInv'
BY NextToldInv, NextModest DEF PoolInv

LEMMA Few ==
  ASSUME NEW a, NEW b, NEW c, NEW s, s \subseteq {a, b, c}
  PROVE  IsFiniteSet(s) /\ Cardinality(s) <= 3
<1>1. IsFiniteSet({a}) /\ Cardinality({a}) = 1
  BY FS_Singleton
<1>2. IsFiniteSet({a} \cup {b}) /\ Cardinality({a} \cup {b}) <= 2
  BY <1>1, FS_AddElement
<1>3. IsFiniteSet({a} \cup {b} \cup {c}) /\ Cardinality({a} \cup {b} \cup {c}) <= 3
  <2>1. Cardinality({a} \cup {b}) \in Nat
    BY <1>2, FS_CardinalityType
  <2> QED BY <1>2, <2>1, FS_AddElement
<1>4. s \subseteq {a} \cup {b} \cup {c}
  OBVIOUS
<1>5. /\ IsFiniteSet(s) /\ Cardinality(s) <= Cardinality({a} \cup {b} \cup {c})
      /\ Cardinality({a} \cup {b} \cup {c}) \in Nat /\ Cardinality(s) \in Nat
  BY <1>3, <1>4, FS_Subset, FS_CardinalityType
<1> QED BY <1>3, <1>5

\* Whoever waits holds at most two connections.
LEMMA WaitsWithTwo ==
  ASSUME PoolInv, NEW h \in Handlers
  PROVE  /\ Held(h) \in Int
         /\ Waits(h) => Held(h) <= 2
<1> DEFINE ops == todo[h]
           Gives == {i \in DOMAIN ops : ops[i].do = "give"}
           Takes == {i \in DOMAIN ops : ops[i].do = "take"}
<1>1. ops \in Seq(Operation) /\ DOMAIN ops = 1 .. Len(ops) /\ Len(ops) \in Nat
  BY DEF PoolInv, ToldInv, OrderInv
<1>2. IsFiniteSet(DOMAIN ops)
  <2> HIDE DEF ops
  <2>1. IsFiniteSet(1 .. Len(ops))
    BY <1>1, FS_Interval
  <2> QED BY <1>1, <2>1
<1>3. /\ IsFiniteSet(Gives) /\ Cardinality(Gives) \in Nat
      /\ IsFiniteSet(Takes) /\ Cardinality(Takes) \in Nat
  <2>1. Gives \subseteq DOMAIN ops /\ Takes \subseteq DOMAIN ops
    OBVIOUS
  <2> HIDE DEF Gives, Takes, ops
  <2> QED BY <1>2, <2>1, FS_Subset, FS_CardinalityType
<1>4. Held(h) = Cardinality(Gives) - Cardinality(Takes)
  BY DEF Held, Left
<1>5. ASSUME Waits(h) PROVE Cardinality(Gives) - Cardinality(Takes) <= 2
  <2>1. 1 \in Takes /\ 1 \in DOMAIN ops
    BY <1>1, <1>5 DEF Waits, Running, Next_op
  <2>2. PICK a, b, c, d \in Int :
          /\ \A i \in DOMAIN ops : ops[i].do = "give" => i \in {a, b, c, d}
          /\ \A i \in DOMAIN ops : ops[i].do = "take" =>
               a < i \/ \E j \in DOMAIN ops : i < j /\ ops[j].do = "take"
    BY DEF PoolInv, ModestInv, Modest
  <2>3. Gives \subseteq {a, b, c, d} /\ \A i \in Gives : i >= 1
    BY <1>1, <2>2
  <2>4. a < 1 \/ \E j \in Takes : 1 < j
    BY <2>1, <2>2
  <2> HIDE DEF Gives, Takes, ops
  <2>5. IsFiniteSet(Takes \ {1}) /\ Cardinality(Takes \ {1}) = Cardinality(Takes) - 1
    BY <1>3, <2>1, FS_RemoveElement
  <2>6. Cardinality(Takes \ {1}) \in Nat
    BY <2>5, FS_CardinalityType
  <2>7. CASE a < 1
    <3>1. Gives \subseteq {b, c, d}
      BY <2>2, <2>3, <2>7
    <3>2. Cardinality(Gives) <= 3
      BY <3>1, Few
    <3> QED BY <1>3, <2>5, <2>6, <3>2
  <2>8. CASE \E j \in Takes : 1 < j
    <3>1. PICK j \in Takes \ {1} : TRUE
      BY <2>8
    <3>2. /\ Cardinality((Takes \ {1}) \ {j}) = Cardinality(Takes \ {1}) - 1
          /\ Cardinality((Takes \ {1}) \ {j}) \in Nat
      BY <2>5, <3>1, FS_RemoveElement, FS_CardinalityType
    <3>3. Gives \ {a} \subseteq {b, c, d}
      BY <2>3
    <3>4. Cardinality(Gives \ {a}) <= 3
      BY <3>3, Few
    <3>5. Cardinality(Gives) <= 4
      <4>1. CASE a \in Gives
        <5>1. Cardinality(Gives \ {a}) = Cardinality(Gives) - 1
          BY <1>3, <4>1, FS_RemoveElement
        <5> QED BY <1>3, <3>4, <5>1
      <4>2. CASE a \notin Gives
        <5>1. Gives \ {a} = Gives
          BY <4>2
        <5> QED BY <1>3, <3>4, <5>1
      <4> QED BY <4>1, <4>2
    <3> QED BY <1>3, <2>5, <2>6, <3>2, <3>5
  <2> QED BY <2>4, <2>7, <2>8
<1> QED BY <1>3, <1>4, <1>5

-----------------------------------------------------------------------------
(* What all handlers hold.  The fold is a recursive function over the sets  *)
(* of handlers; it exists, and it bounds what it adds up.                   *)

LEMMA NatSet ==
  ASSUME NEW T, 0 \in T, \A n \in Nat : n \in T => n + 1 \in T
  PROVE  \A n \in Nat : n \in T
<1> DEFINE R == OpToRel(<, Nat)
           Bad == Nat \ T
<1>1. IsWellFoundedOn(R, Nat)
  BY NatLessThanWellFounded
<1>2. ASSUME Bad # {} PROVE FALSE
  <2>1. PICK n \in Bad : \A m \in Bad : ~ (<<m, n>> \in R)
    <3> HIDE DEF R
    <3> QED BY <1>1, <1>2, WFMin
  <2>2. n \in Nat /\ n # 0
    OBVIOUS
  <2>3. n - 1 \in Nat /\ <<n - 1, n>> \in R /\ n = (n - 1) + 1
    BY <2>2 DEF OpToRel
  <2>4. n - 1 \in T
    BY <2>1, <2>3
  <2> QED BY <2>3, <2>4
<1> QED BY <1>2

\* The element the fold takes from a set.
Some(s) == CHOOSE x \in s : TRUE

LEMMA SomeLeft ==
  ASSUME NEW s, IsFiniteSet(s), s # {}
  PROVE  /\ Some(s) \in s
         /\ Cardinality(s) \in Nat /\ Cardinality(s \ {Some(s)}) \in Nat
         /\ Cardinality(s \ {Some(s)}) = Cardinality(s) - 1
<1>1. Some(s) \in s
  BY DEF Some
<1>2. IsFiniteSet(s \ {Some(s)}) /\ Cardinality(s \ {Some(s)}) = Cardinality(s) - 1
  BY <1>1, FS_RemoveElement
<1> QED BY <1>1, <1>2, FS_CardinalityType

Sums(it, f, S) ==
  it = [s \in SUBSET S |-> IF s = {} THEN 0 ELSE f[Some(s)] + it[s \ {Some(s)}]]

LEMMA SumExists ==
  ASSUME NEW S, IsFiniteSet(S), NEW f, \A x \in S : f[x] \in Int
  PROVE  \E it : Sums(it, f, S)
<1> DEFINE Rec(it, s) == IF s = {} THEN 0 ELSE f[Some(s)] + it[s \ {Some(s)}]
           Upto(it, n) == \A s \in SUBSET S : Cardinality(s) <= n => it[s] = Rec(it, s)
           N == {n \in Nat : \E it \in [SUBSET S -> Int] : Upto(it, n)}
<1>0. \A s \in SUBSET S : IsFiniteSet(s) /\ Cardinality(s) \in Nat
  BY FS_Subset, FS_CardinalityType
<1>1. 0 \in N
  <2>1. [s \in SUBSET S |-> 0] \in [SUBSET S -> Int]
    OBVIOUS
  <2>2. Upto([s \in SUBSET S |-> 0], 0)
    BY <1>0, FS_EmptySet
  <2> HIDE DEF Upto
  <2> QED BY <2>1, <2>2
<1>2. ASSUME NEW n \in Nat, NEW it \in [SUBSET S -> Int], Upto(it, n)
      PROVE  \E jt \in [SUBSET S -> Int] : Upto(jt, n + 1)
  <2> DEFINE jt == [s \in SUBSET S |-> Rec(it, s)]
  <2>1. \A s \in SUBSET S : s # {} =>
          Some(s) \in S /\ s \ {Some(s)} \in SUBSET S
    BY <1>0, SomeLeft
  <2>2. jt \in [SUBSET S -> Int]
    BY <2>1
  <2>3. ASSUME NEW s \in SUBSET S, Cardinality(s) <= n + 1
        PROVE  jt[s] = Rec(jt, s)
    <3>1. CASE s = {}
      BY <3>1
    <3>2. CASE s # {}
      <4> DEFINE u == s \ {Some(s)}
      <4>1. u \in SUBSET S /\ Cardinality(u) = Cardinality(s) - 1
        BY <1>0, <2>1, <3>2, SomeLeft
      <4>2. Cardinality(u) <= n
        BY <1>0, <2>3, <4>1
      <4>3. it[u] = Rec(it, u)
        BY <1>2, <4>1, <4>2
      <4>4. jt[u] = Rec(it, u)
        BY <4>1
      <4>5. jt[s] = Rec(it, s) /\ Rec(it, s) = f[Some(s)] + it[u]
        BY <3>2
      <4>6. Rec(jt, s) = f[Some(s)] + jt[u]
        BY <3>2
      <4> HIDE DEF jt, Rec, u
      <4> QED BY <4>3, <4>4, <4>5, <4>6
    <3> QED BY <3>1, <3>2
  <2> HIDE DEF jt
  <2>4. Upto(jt, n + 1)
    BY <2>3
  <2> QED BY <2>2, <2>4
<1>3. ASSUME NEW n \in Nat, n \in N PROVE n + 1 \in N
  <2>1. PICK it \in [SUBSET S -> Int] : Upto(it, n)
    BY <1>3
  <2>2. \E jt \in [SUBSET S -> Int] : Upto(jt, n + 1)
    BY <1>2, <2>1
  <2> HIDE DEF Upto
  <2> QED BY <2>2
<1> HIDE DEF N
<1>4. \A n \in Nat : n \in N
  BY <1>1, <1>3, NatSet
<1>5. PICK it \in [SUBSET S -> Int] : Upto(it, Cardinality(S))
  BY <1>0, <1>4 DEF N
<1>6. \A s \in SUBSET S : Cardinality(s) <= Cardinality(S)
  BY FS_Subset
<1>7. it = [s \in SUBSET S |-> Rec(it, s)]
  BY <1>5, <1>6
<1> QED BY <1>7 DEF Sums

\* If nothing but one element counts for more than nothing, the sum is at
\* most what that one counts for.
LEMMA SumBound ==
  ASSUME NEW S, IsFiniteSet(S), NEW f, \A x \in S : f[x] \in Int,
         NEW it, Sums(it, f, S), NEW h \in S, \A x \in S \ {h} : f[x] <= 0
  PROVE  it[S] \in Int /\ it[S] <= f[h]
<1> DEFINE Ok(s) == it[s] \in Int /\ (h \notin s => it[s] <= 0) /\ (h \in s => it[s] <= f[h])
           N == {n \in Nat : \A s \in SUBSET S : Cardinality(s) = n => Ok(s)}
<1>0. \A s \in SUBSET S : IsFiniteSet(s) /\ Cardinality(s) \in Nat
  BY FS_Subset, FS_CardinalityType
<1>1. \A s \in SUBSET S :
        it[s] = IF s = {} THEN 0 ELSE f[Some(s)] + it[s \ {Some(s)}]
  BY DEF Sums
<1>2. 0 \in N
  <2>1. \A s \in SUBSET S : Cardinality(s) = 0 => s = {}
    BY <1>0, FS_EmptySet
  <2> QED BY <1>1, <2>1
<1>3. ASSUME NEW n \in Nat, \A u \in SUBSET S : Cardinality(u) = n => Ok(u),
             NEW s \in SUBSET S, Cardinality(s) = n + 1
      PROVE  Ok(s)
  <2> DEFINE x == Some(s)
             u == s \ {x}
  <2>1. s # {}
    <3>1. Cardinality({}) = 0 /\ n + 1 # 0
      BY FS_EmptySet
    <3> QED BY <1>3, <3>1
  <2>2. x \in s /\ Cardinality(u) = Cardinality(s) - 1
    BY <1>0, <2>1, SomeLeft
  <2>3. u \in SUBSET S /\ Cardinality(u) = n
    BY <1>3, <2>2
  <2>4. Ok(u)
    BY <1>3, <2>3
  <2>5. it[s] = f[x] + it[u]
    BY <1>1, <2>1
  <2>6. f[x] \in Int /\ f[h] \in Int /\ (x # h => f[x] <= 0)
    BY <2>2
  <2>7. h \in s <=> x = h \/ h \in u
    BY <2>2
  <2>8. x = h => h \notin u
    OBVIOUS
  <2> HIDE DEF x, u
  <2>9. CASE x = h
    BY <2>4, <2>5, <2>6, <2>7, <2>8, <2>9
  <2>10. CASE x # h
    BY <2>4, <2>5, <2>6, <2>7, <2>10
  <2> QED BY <2>9, <2>10
<1>4. \A n \in Nat : n \in N => n + 1 \in N
  <2> HIDE DEF Ok
  <2> QED BY <1>3
<1> HIDE DEF N
<1>5. \A n \in Nat : n \in N
  BY <1>2, <1>4, NatSet
<1>6. Ok(S)
  BY <1>0, <1>5 DEF N
<1> QED BY <1>6

\* When no other handler holds a connection, a handler that waits is not the
\* one that emptied the pool.
LEMMA OneIsNoCrowd ==
  ASSUME PoolInv, IsFiniteSet(Handlers), MaxSize >= 3, NEW h \in Handlers, TimedOut(h)
  PROVE  \E g \in Handlers \ {h} : Held(g) > 0
<1> SUFFICES ASSUME ~ \E g \in Handlers \ {h} : Held(g) > 0 PROVE FALSE
  OBVIOUS
<1> DEFINE f == [g \in Handlers |-> Held(g)]
           it == CHOOSE it : Sums(it, f, Handlers)
<1>1. \A g \in Handlers : Held(g) \in Int
  BY WaitsWithTwo
<1>2. Held(h) <= 2 /\ Idle = 0
  BY WaitsWithTwo DEF TimedOut
<1>3. \A g \in Handlers : f[g] = Held(g)
  OBVIOUS
<1>4. Idle = MaxSize - it[Handlers]
  BY SMT DEF Idle, FoldFunction, FoldFunctionOnSet, MapThenFoldSet, Sums, Some
<1> HIDE DEF f
<1>5. \E jt : Sums(jt, f, Handlers)
  BY <1>1, <1>3, SumExists
<1>6. Sums(it, f, Handlers)
  BY <1>5, Zenon
<1> HIDE DEF it
<1>7. \A g \in Handlers \ {h} : f[g] <= 0
  BY <1>1, <1>3
<1>8. it[Handlers] \in Int /\ it[Handlers] <= f[h]
  BY <1>1, <1>3, <1>6, <1>7, SumBound
<1>9. it[Handlers] <= 2
  BY <1>1, <1>2, <1>3, <1>8
<1>10. MaxSize - it[Handlers] >= 1 /\ MaxSize \in Int
  BY <1>8, <1>9, PoolAssumption DEF PoolAssumption
<1> QED BY <1>2, <1>4, <1>10

\* Nobody is refused a connection by its own doing: whoever is refused shares
\* the pool with a handler that holds one, if the pool has at least three.
THEOREM OnlyACrowdIsRefused ==
  ASSUME IsFiniteSet(Handlers), MaxSize >= 3
  PROVE  Spec => RefusedOnlyInACrowd
<1>1. PoolInv /\ [Next]_vars =>
        [\A h \in Handlers : TimedOut(h) => \E g \in Handlers \ {h} : Held(g) > 0]_vars
  BY OneIsNoCrowd
<1> QED BY InitPoolInv, NextPoolInv, <1>1, PTL DEF Spec, RefusedOnlyInACrowd

=============================================================================
