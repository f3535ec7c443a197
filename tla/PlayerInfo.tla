----------------------------- MODULE PlayerInfo -----------------------------
(***************************************************************************)
(* The rows of players, and what writes them while other handlers use the  *)
(* pool: people who update their own names, admins who add a player, and   *)
(* the program that looks up racetime ids.  An update reads the row, waits *)
(* for Twitch and for racetime, and writes its whole copy back; a column   *)
(* that is empty in the copy is not written (AsChangeset).                 *)
(***************************************************************************)
EXTENDS ConnectionPool

CONSTANTS Users,        \* people; each one's Discord name is also a name
          Twitches,     \* Twitch logins
          Accounts,     \* racetime accounts: a full name and an id each
          Channel,      \* [Accounts -> Twitches or None]: the linked channel
          None,
          Requests,     \* what an update may ask for, see Request
          Additions,    \* the rows admins may add
          MaxCommands   \* bound on the handlers that are started

Row == [name : Users, twitch_user_login : Twitches \cup {None},
        racetime_username : Accounts \cup {None},
        racetime_user_id : Accounts \cup {None}]

\* The arguments of update_user_info; at least one is given.
Request == [nickname : Users \cup {None}, twitch : Twitches \cup {None},
            racetime : Accounts \cup {None}]

Addition == [user : Users, nickname : Users \cup {None}, twitch : Twitches,
             racetime : Accounts]

ASSUME PlayersAssumption ==
  /\ Users # {}
  /\ Requests \subseteq Request /\ Additions \subseteq Addition
  /\ \A r \in Requests : \E f \in DOMAIN r : r[f] # None
  /\ None \notin Users \cup Twitches \cup Accounts \cup Row
  /\ Channel \in [Accounts -> Twitches \cup {None}]

VARIABLES rows,     \* [Users -> Row or None]: the table, by discord_id
          cmd,      \* [Handlers -> Command]: arguments and copy of a handler
          batch,    \* the copies the lookup program has yet to write
          bare,     \* history: rows that were added with a name and no id
          commands

pvars == <<rows, cmd, batch, bare, commands>>
vars == <<todo, pvars>>

\* `save`: something has changed; `told`: "RaceTime name updated."
Command == [user : Users, nickname : Users \cup {None},
            twitch : Twitches \cup {None}, racetime : Accounts \cup {None},
            copy : Row, save : BOOLEAN, told : BOOLEAN]

NewPlayer(name, account, login) ==
  [name |-> name, twitch_user_login |-> login, racetime_username |-> account,
   racetime_user_id |-> None]

Anyone == CHOOSE u \in Users : TRUE
NoCommand == [user |-> Anyone, nickname |-> None, twitch |-> None,
              racetime |-> None, copy |-> NewPlayer(Anyone, None, None),
              save |-> FALSE, told |-> FALSE]

\* The types of the data; `todo` holds what is left of a handler's program.
TypeOK ==
  /\ rows \in [Users -> Row \cup {None}]
  /\ cmd \in [Handlers -> Command]
  /\ batch \in [Users -> Row \cup {None}]
  /\ bare \subseteq Users

Init ==
  /\ todo = [h \in Handlers |-> << >>]
  /\ rows = [u \in Users |-> None]
  /\ cmd = [h \in Handlers |-> NoCommand]
  /\ batch = [u \in Users |-> None]
  /\ bare = {}
  /\ commands = 0

-----------------------------------------------------------------------------
(* The table.                                                               *)

\* The unique columns: no other row has one of these values.
IsUnique(u, row) ==
  \A v \in Users \ {u} :
    rows[v] # None =>
      /\ rows[v].name # row.name
      /\ \A c \in {"twitch_user_login", "racetime_username", "racetime_user_id"} :
           row[c] # None => rows[v][c] # row[c]

\* (Broken variant: None is written as NULL, treat_none_as_null.)
WrittenWithNulls(old, copy) == copy

\* update_fn: the changeset skips the columns that are None.
Kept(old, new) == IF new = None THEN old ELSE new
Written(old, copy) ==
  [name |-> copy.name,
   twitch_user_login |-> Kept(old.twitch_user_login, copy.twitch_user_login),
   racetime_username |-> Kept(old.racetime_username, copy.racetime_username),
   racetime_user_id |-> Kept(old.racetime_user_id, copy.racetime_user_id)]

CanUpdate(u, copy) == rows[u] # None /\ IsUnique(u, Written(rows[u], copy))
update(u, copy) == rows' = [rows EXCEPT ![u] = Written(@, copy)]

-----------------------------------------------------------------------------
(* Commands.                                                                *)

Step(h, op) == Running(h) /\ Next_op(h) = op

\* handle_update_user_info: Twitch is asked only about a Twitch name, and
\* racetime only about a racetime name.
UpdateProgram(twitch, racetime) ==
  Must(<<"take", "read">> \o (IF twitch = None THEN << >> ELSE <<"twitch">>)
         \o (IF racetime = None THEN << >> ELSE <<"racetime">>)
         \o <<"save", "give">>)

Begin(h, u, nickname, twitch, racetime, program) ==
  /\ commands < MaxCommands
  /\ commands' = commands + 1
  /\ Start(h, program)
  /\ cmd' = [cmd EXCEPT ![h] =
       [NoCommand EXCEPT !.user = u, !.nickname = nickname,
                         !.twitch = twitch, !.racetime = racetime]]
  /\ UNCHANGED <<rows, batch, bare>>

handle_update_user_info(h) ==
  \E u \in Users, r \in Requests :
    Begin(h, u, r.nickname, r.twitch, r.racetime,
          UpdateProgram(r.twitch, r.racetime))

\* handle_user_profile, handle_check_user_info: the row is created if need be.
handle_check_user_info(h) ==
  \E u \in Users : Begin(h, u, None, None, None, Must(<<"take", "read", "give">>))

\* handle_create_player, by an admin, with any names.
handle_create_player(h) ==
  \E r \in Additions :
    Begin(h, r.user, r.nickname, r.twitch, r.racetime,
          Must(<<"take", "insert", "give">>))

\* get_or_create_from_discord_user, and the new nickname in the copy.
get_or_create_from_discord_user(h) ==
  LET u == cmd[h].user
      row == IF rows[u] # None THEN rows[u] ELSE NewPlayer(u, None, None)
      nick == cmd[h].nickname
  IN /\ Step(h, "read")
     /\ UNCHANGED <<batch, bare, commands>>
     /\ \/ /\ rows[u] = None => IsUnique(u, row)
           /\ rows' = [rows EXCEPT ![u] = row]
           /\ cmd' = [cmd EXCEPT ![h].copy = [row EXCEPT !.name = Kept(@, nick)],
                                 ![h].save = nick # None]
           /\ Advance(h)
        \/ /\ rows[u] = None /\ ~IsUnique(u, row)
           /\ Fail(h)
           /\ UNCHANGED <<rows, cmd>>

\* validate_twitch_username: found, or not found, or an error.
validate_twitch_username(h) ==
  /\ Step(h, "twitch")
  /\ Advance(h)
  /\ \/ cmd' = [cmd EXCEPT ![h].copy.twitch_user_login = cmd[h].twitch,
                           ![h].save = TRUE]
     \/ cmd' = cmd
  /\ UNCHANGED <<rows, batch, bare, commands>>

\* An account that links to a channel must link to the Twitch name we know.
Fits(account, login) ==
  login # None /\ Channel[account] # None => Channel[account] = login

\* (Broken variant: an id that is already known is kept.)
ValidateKeepingTheId(h) ==
  LET a == cmd[h].racetime
  IN /\ Step(h, "racetime")
     /\ Advance(h)
     /\ \/ /\ Fits(a, cmd[h].copy.twitch_user_login)
           /\ cmd' = [cmd EXCEPT ![h].copy.racetime_username = a,
                                 ![h].copy.racetime_user_id = Kept(a, @),
                                 ![h].save = TRUE, ![h].told = TRUE]
        \/ cmd' = cmd
     /\ UNCHANGED <<rows, batch, bare, commands>>

\* (Broken variant: the account is compared with the Twitch name in the table
\* instead of the new one.)
ValidateAgainstTheRow(h) ==
  LET a == cmd[h].racetime
  IN /\ Step(h, "racetime")
     /\ Advance(h)
     /\ \/ /\ Fits(a, rows[cmd[h].user].twitch_user_login)
           /\ cmd' = [cmd EXCEPT ![h].copy.racetime_username = a,
                                 ![h].copy.racetime_user_id = a,
                                 ![h].save = TRUE, ![h].told = TRUE]
        \/ cmd' = cmd
     /\ UNCHANGED <<rows, batch, bare, commands>>

\* validate_racetime_username.
validate_racetime_username(h) ==
  LET a == cmd[h].racetime
  IN /\ Step(h, "racetime")
     /\ Advance(h)
     /\ \/ /\ Fits(a, cmd[h].copy.twitch_user_login)
           /\ cmd' = [cmd EXCEPT ![h].copy.racetime_username = a,
                                 ![h].copy.racetime_user_id = a,
                                 ![h].save = TRUE, ![h].told = TRUE]
        \/ cmd' = cmd
     /\ UNCHANGED <<rows, batch, bare, commands>>

\* The end of an update: the copy is written, unless another row has one of
\* its values; it is not used any more.
Drop(h) == cmd' = [cmd EXCEPT ![h] = NoCommand]

Save(h) ==
  LET u == cmd[h].user
      copy == cmd[h].copy
  IN /\ Step(h, "save")
     /\ Drop(h)
     /\ UNCHANGED <<batch, bare, commands>>
     /\ \/ ~cmd[h].save /\ Advance(h) /\ rows' = rows
        \/ cmd[h].save /\ CanUpdate(u, copy) /\ update(u, copy) /\ Advance(h)
        \/ cmd[h].save /\ ~CanUpdate(u, copy) /\ rows' = rows /\ Fail(h)

\* NewPlayer::save: the racetime name comes without its id.
Insert(h) ==
  LET u == cmd[h].user
      row == NewPlayer(Kept(u, cmd[h].nickname), cmd[h].racetime, cmd[h].twitch)
  IN /\ Step(h, "insert")
     /\ Drop(h)
     /\ UNCHANGED <<batch, commands>>
     /\ \/ /\ rows[u] = None /\ IsUnique(u, row)
           /\ rows' = [rows EXCEPT ![u] = row]
           /\ bare' = bare \cup {u}
           /\ Advance(h)
        \/ /\ ~(rows[u] = None /\ IsUnique(u, row))
           /\ UNCHANGED <<rows, bare>>
           /\ Fail(h)

-----------------------------------------------------------------------------
(* update_player_rtgg_ids, a program of its own with its own connection.    *)

NeedsId(row) ==
  row # None /\ row.racetime_username # None /\ row.racetime_user_id = None

LoadPlayers ==
  /\ \A u \in Users : batch[u] = None
  /\ \E u \in Users : NeedsId(rows[u])
  /\ batch' = [u \in Users |-> IF NeedsId(rows[u]) THEN rows[u] ELSE None]
  /\ UNCHANGED <<todo, rows, cmd, bare, commands>>

\* One player of the list: racetime knows the account, and its id is written
\* with the rest of the copy; or it does not.  An error ends the program.
SetId(u) ==
  LET found == [batch[u] EXCEPT !.racetime_user_id = batch[u].racetime_username]
  IN /\ batch[u] # None
     /\ UNCHANGED <<todo, cmd, bare, commands>>
     /\ \/ CanUpdate(u, found) /\ update(u, found)
             /\ batch' = [batch EXCEPT ![u] = None]
        \/ batch' = [batch EXCEPT ![u] = None] /\ rows' = rows
        \/ batch' = [v \in Users |-> None] /\ rows' = rows

-----------------------------------------------------------------------------
StartProgram(h) ==
  /\ commands < MaxCommands
  /\ commands' = commands + 1
  /\ \E p \in Programs : Start(h, p)
  /\ UNCHANGED <<rows, cmd, batch, bare>>

\* One step of a running handler.
Go(h) ==
  \/ PoolStep(h) /\ UNCHANGED pvars
  \/ get_or_create_from_discord_user(h) \/ validate_twitch_username(h)
  \/ validate_racetime_username(h) \/ Save(h) \/ Insert(h)

Next ==
  \/ \E h \in Handlers :
       \/ handle_update_user_info(h) \/ handle_check_user_info(h)
       \/ handle_create_player(h) \/ StartProgram(h) \/ Go(h)
  \/ LoadPlayers
  \/ \E u \in Users : SetId(u)

Spec == Init /\ [][Next]_vars

\* A handler that can go on does: tasks are polled, calls to other services
\* return or fail, and the pool's time limit passes.
FairSpec == Spec /\ \A h \in Handlers : WF_vars(Go(h))

-----------------------------------------------------------------------------
(* Properties.                                                              *)

\* Every handler ends, though handlers that hold connections wait for more
\* of them and may all be waiting for each other: the pool's time limit
\* breaks the circle.
HandlersEnd == \A h \in Handlers : Running(h) ~> ~Running(h)

\* Nobody is refused a connection by its own doing: no handler takes more
\* than the pool has, so that whoever is refused was not alone.
RefusedOnlyInACrowd ==
  [][\A h \in Handlers : TimedOut(h) => \E g \in Handlers \ {h} : Held(g) > 0]_vars

\* The racetime name and the racetime id of a player are of one account,
\* though an update writes back a copy it read before it waited; a row that
\* an admin added with a name and no id is the exception, since half of a
\* stale pair can then meet half of a new one.
PairIsOfOneAccount ==
  \A u \in Users \ bare :
    rows[u] # None => rows[u].racetime_username = rows[u].racetime_user_id

\* No column that was filled is emptied by a copy that was read when it was
\* still empty.
NothingIsForgotten ==
  [][\A u \in Users : rows[u] # None =>
       /\ rows'[u] # None
       /\ \A c \in {"twitch_user_login", "racetime_username", "racetime_user_id"} :
            rows[u][c] # None => rows'[u][c] # None]_vars

\* A person who is told that their racetime name is updated ends up with a
\* racetime account that fits the Twitch name beside it in the row, whichever
\* of the two the command changed; only when the copy had no Twitch name is
\* the account taken on trust.
ToldAccountFits ==
  [][\A h \in Handlers :
       LET row == rows'[cmd[h].user]
       IN Save(h) /\ cmd[h].told /\ CanUpdate(cmd[h].user, cmd[h].copy)
            => \/ cmd[h].copy.twitch_user_login = None
               \/ Fits(row.racetime_user_id, row.twitch_user_login)]_vars
=============================================================================
