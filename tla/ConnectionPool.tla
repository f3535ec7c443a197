--------------------------- MODULE ConnectionPool ---------------------------
(***************************************************************************)
(* The connection pool that every task of the bot shares, and the order in *)
(* which the tasks take connections from it.  A handler keeps a connection *)
(* while it awaits Discord, Twitch or racetime, and several handlers call  *)
(* helpers that take a second and a third one meanwhile.  What a handler   *)
(* still has to do is a sequence of operations; a connection is released   *)
(* when its guard leaves its scope ("give"), so the connections a handler  *)
(* holds are those it has yet to give back.                                *)
(***************************************************************************)
EXTENDS Integers, Sequences, FiniteSets, Functions

CONSTANTS Handlers,   \* tasks that may run at the same time
          MaxSize     \* connections of the pool (10 unless configured)

ASSUME PoolAssumption == MaxSize \in Nat \ {0}

VARIABLE todo         \* [Handlers -> Seq(Operation)]: << >> when not running

\* An operation and, for the case that it fails, how many of the operations
\* after it are skipped: all of them when the error ends the handler.
All == 99
Operation == [do : {"take", "give", "work", "read", "twitch", "racetime",
                    "save", "insert"},
              skips : 0 .. All]

\* Operations whose error ends the handler (`?`).
Must(ops) == [i \in DOMAIN ops |-> [do |-> ops[i], skips |-> All]]
\* A call whose error is logged, or ignored, by its caller.
Logged(ops) == [i \in DOMAIN ops |-> [do |-> ops[i], skips |-> Len(ops) - i]]

\* A page: the request guard takes a connection for the whole request.
Page == Must(<<"take", "work", "give">>)

\* The command that schedules a race: its own connection, that of
\* schedule_race, and that of create_commportunities_post.
Schedule == Must(<<"take", "take">>) \o Logged(<<"work">>)
              \o Logged(<<"take", "work", "give">>) \o Must(<<"give", "give">>)

\* (Broken variant: the post takes one more connection for the name of the
\* commentator.)
SignupWithName == Must(<<"take", "take", "take", "take", "give", "work",
                         "give", "give", "give">>)

\* A commentator volunteers: reaction_add, handle_commentary_signup,
\* create_commentator_signup_post.
Signup == Must(<<"take", "take", "take", "work", "give", "give", "give">>)

\* An admin confirms two commentators, or a channel: reaction_add, the
\* handler, and best_name_for for each commentator.
Confirmation == Must(<<"take", "take">>) \o Logged(<<"take", "give">>)
                  \o Logged(<<"take", "give">>) \o Logged(<<"work">>)
                  \o Must(<<"give", "give">>)

\* The sweep of the asynchronous races: handle_race, then notify_racer for
\* each racer, which takes a connection once the message is sent.
Sweep == Must(<<"take">>) \o Logged(<<"work", "take", "give">>)
           \o Logged(<<"work", "take", "give">>) \o Must(<<"give">>)

\* The racetime scan: its own connection, then one for each race found.
Scan == Must(<<"take", "work">>) \o Logged(<<"take", "work", "give">>)
          \o Logged(<<"take", "work", "give">>) \o Must(<<"give">>)

Programs == {Page, Schedule, Signup, Confirmation, Sweep, Scan}

Running(h) == todo[h] # << >>
Next_op(h) == Head(todo[h]).do

Left(h, op) == Cardinality({i \in DOMAIN todo[h] : todo[h][i].do = op})
Held(h) == Left(h, "give") - Left(h, "take")
Idle == MaxSize - FoldFunction(+, 0, [h \in Handlers |-> Held(h)])

Advance(h) == todo' = [todo EXCEPT ![h] = Tail(@)]

\* The operation fails: the caller that deals with the error goes on.
Fail(h) ==
  todo' = [todo EXCEPT ![h] = SubSeq(Tail(@), Head(@).skips + 1, Len(@) - 1)]

Start(h, program) == ~Running(h) /\ todo' = [todo EXCEPT ![h] = program]

Waits(h) == Running(h) /\ Next_op(h) = "take"

\* diesel_cxn: the pool hands out an idle connection ...
Take(h) == Waits(h) /\ Idle > 0 /\ Advance(h)

\* (Broken variant: a handler waits until a connection comes back.)
NeverTimedOut(h) == Waits(h) /\ Idle < 0 /\ Fail(h)

\* ... or gives up when none has come back within its time limit.
TimedOut(h) == Waits(h) /\ Idle = 0 /\ Fail(h)

Give(h) == Running(h) /\ Next_op(h) = "give" /\ Advance(h)

\* A call to another service, which may fail.
Work(h) == Running(h) /\ Next_op(h) = "work" /\ (Advance(h) \/ Fail(h))

PoolStep(h) == Take(h) \/ TimedOut(h) \/ Give(h) \/ Work(h)
=============================================================================
