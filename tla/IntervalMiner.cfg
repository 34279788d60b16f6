CONSTANTS
  Tokens = {t1, t2, t3, t4}
  NoToken = NoToken
  MaxQueue = 3
SPECIFICATION FairSpec
INVARIANTS
  TypeOK
  OneMiner
PROPERTY MinesAgainAndAgain
CHECK_DEADLOCK FALSE
