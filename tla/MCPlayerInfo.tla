---------------------------- MODULE MCPlayerInfo ----------------------------
(* An instance of PlayerInfo for TLC. *)
EXTENDS PlayerInfo, TLC

CONSTANTS ann, ben, chan1, chan2, account1, account2

\* One account links to a Twitch channel; the other is taken on trust.
Links == (account1 :> chan1) @@ (account2 :> None)

Ask(n, login, account) == [nickname |-> n, twitch |-> login, racetime |-> account]
SomeRequests == {Ask(ben, None, None), Ask(None, chan1, None), Ask(None, chan2, None),
                 Ask(None, None, account1), Ask(None, chan1, account2), Ask(None, chan2, account1)}
SomeAdditions ==
  {[user |-> ann, nickname |-> None, twitch |-> chan2, racetime |-> account1]}
=============================================================================
