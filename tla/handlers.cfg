SPECIFICATION FairSpec
CONSTANTS
  Handlers = {h1, h2}
  MaxSize = 3
  Users = {ann, ben}
  Twitches = {chan1, chan2}
  Accounts = {account1, account2}
  ann = ann
  ben = ben
  account1 = account1
  account2 = account2
  chan1 = chan1
  chan2 = chan2
  Channel <- Links
  None = None
  Requests <- SomeRequests
  Additions <- SomeAdditions
  MaxCommands = 3
INVARIANTS
  PairIsOfOneAccount
PROPERTIES
  NothingIsForgotten
  ToldAccountFits
  RefusedOnlyInACrowd
  HandlersEnd
\* The system may stop: nobody has to send a command.
CHECK_DEADLOCK FALSE
