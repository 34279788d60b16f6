SPECIFICATION FairSpec
CONSTANTS
  Contents = {x}
  MaxStored = 2
  Connections = {c1, c2}
  NoConnection = none
  MaxSubscriptions = 2
  MaxQueue = 2
INVARIANTS
  TypeOK
  HearsEveryBlock
  TablesAgree
  NoSubscriptionForgotten
PROPERTY
  ClosedIsForgotten
CHECK_DEADLOCK FALSE
