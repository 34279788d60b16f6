SPECIFICATION FairSpec
CONSTANTS
  a = a
  b = b
  NoSender = none
  Senders <- MCSenders
  Batches <- MCBatches
  MaxMembers = 4
  Miners = {TRUE, FALSE}
  MaxPending = 2
INVARIANTS
  ActionsInTurn
  AsIfOneByOne
PROPERTY
  BatchAnswered
